CONSTANTS
  a = a
  b = b
  executorA = executorA
  debugA = debugA
  executorB = executorB
  Chat = {a, b}
  User = {executorA, debugA, executorB}
  Instance = {i1, i2}
  ChatOf <- MCChatOf
  MaxInstances = 1
  NoEntry = NoEntry
  None = None
  NoChat = NoChat
SPECIFICATION PoolSpec
INVARIANTS
  PoolConsistent
PROPERTIES
  EvictionSparesWork
  IdleIsReclaimed
CHECK_DEADLOCK FALSE
