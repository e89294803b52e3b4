CONSTANTS
  Task = {t1, t2, t3}
  MaxTasks = 2
  Torn = Torn
  Idle = Idle
SPECIFICATION FairSpec
INVARIANTS
  ServedInTurn
  LedgerIsTrue
PROPERTIES
  TerminalIsFinal
  EveryTaskSettles
  ImplementsServer
