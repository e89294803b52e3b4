CONSTANTS
  t1 = t1
  t2 = t2
  Topic = {t1, t2}
  MaxMessages = 4
  MaxFailures = 2
  normalThreshold = 3
  eagerThreshold = 2
  minFlushSize = 2
  maxFlushBatch = 2
  maxBufferSize = 3
SPECIFICATION Spec
INVARIANTS
  MessagesAccountedFor
  ArchivedKeepsItsEnd
PROPERTIES
  BacklogDrains
