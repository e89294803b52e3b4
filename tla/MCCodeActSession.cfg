CONSTANTS
  MaxMessages = 4
  MaxTurns = 3
  MaxLeft = 4
  MAX_TOOL_FORMAT_ERRORS = 3
  Send = {s1, s2}
SPECIFICATION Spec
INVARIANTS
  SessionConsistent
  InterruptedInTime
PROPERTIES
  EndsKnowingAll
  SessionEnds
