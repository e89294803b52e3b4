CONSTANTS
  Chat = {c1, c2}
  MaxDispatches = 2
  Message = {m1}
  MaxTasks = 1
  TopNs = {1, 2}
  Meta = Meta
  Harness = Harness
  Nobody = Nobody
SPECIFICATION FairLoopSpec
INVARIANTS
  LoopConsistent
  ResultsFindTheirAuthor
PROPERTIES
  EverythingIsDealtWith
