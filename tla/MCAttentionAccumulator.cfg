CONSTANTS
  a = a
  b = b
  t = t
  None = None
  Chat = {a, b}
  Topic = {t}
  Weight = {1}
  Item = {i1, i2}
  WindowMs = 1
  MaxWindowItems = 1
  MaxAge = 1
  MaxIgnored = 1
  InitialPools <- MCInitialPools
SPECIFICATION FairSpec
INVARIANTS
  AccumulatorConsistent
  BlockedChatsSilent
PROPERTIES
  SignalsFillSpareSlots
  BatchEventuallyFlushed
