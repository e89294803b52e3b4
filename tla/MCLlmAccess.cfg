CONSTANTS
  k1 = k1
  k2 = k2
  Call = {c1, c2}
  KeysOf <- MCKeysOf
  Config <- MCConfig
  MaxErrors = 2
  MaxReloads = 1
  NoKey = NoKey
SPECIFICATION Spec
INVARIANTS
  CountsConsistent
  QueueIsServed
PROPERTIES
  RotationChangesKey
  CallsSettle
CHECK_DEADLOCK FALSE
