SPECIFICATION Spec
CONSTANTS
  MinPool = 1
  MaxPool = 2
  Procs = 4
  MaxConn = 1
  MaxTerm = 0
  MaxHup = 1
  MaxCrash = 0
  CallsMayFail = FALSE
  WaitClearsPending = FALSE
  EintrKeepsRevents = FALSE
INVARIANTS
  HupRestarts
