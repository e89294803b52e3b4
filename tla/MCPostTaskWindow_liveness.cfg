CONSTANTS
  Message = {m1}
  Task = {t1, t2}
  Idle = Idle
  NoWindow = NoWindow
  NoRun = NoRun
  MayCancel = TRUE
SPECIFICATION FairSpec
PROPERTIES
  WindowCloses
  CallbackIsCollected
