SPECIFICATION FairSpec
CONSTANTS
  MinPool = 1
  MaxPool = 2
  Procs = 4
  MaxConn = 1
  MaxTerm = 1
  MaxHup = 1
  MaxCrash = 0
  CallsMayFail = FALSE
  WaitClearsPending = TRUE
  EintrKeepsRevents = FALSE
PROPERTY
  TermEnds
