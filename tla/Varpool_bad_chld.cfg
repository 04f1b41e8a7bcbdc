SPECIFICATION Spec
CONSTANTS
  MinPool = 1
  MaxPool = 3
  Procs = 7
  MaxConn = 4
  MaxTerm = 0
  MaxHup = 0
  MaxCrash = 0
  CallsMayFail = FALSE
  WaitClearsPending = FALSE
  EintrKeepsRevents = FALSE
INVARIANT
  OnlyWithReason
CHECK_DEADLOCK FALSE
