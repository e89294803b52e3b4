CONSTANTS
  Message = {m1, m2}
  Task = {t1, t2, t3}
  Idle = Idle
  NoWindow = NoWindow
  NoRun = NoRun
  MayCancel = TRUE
SYMMETRY MCSymmetry
SPECIFICATION Spec
INVARIANTS
  WindowConsistent
  BlockedOnlyInWindow
  UntriagedIsScheduled
  MentionsAreNotJudged
  DeliveredIsCarried
