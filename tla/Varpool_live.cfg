SPECIFICATION FairSpec
CONSTANTS
  MinPool = 1
  MaxPool = 2
  Procs = 4
  MaxConn = 3
  MaxTerm = 1
  MaxHup = 1
  MaxCrash = 1
  CallsMayFail = TRUE
  WaitClearsPending = TRUE
  EintrKeepsRevents = TRUE
\* The manager may wait in accept(2) for a client that does not come.
CHECK_DEADLOCK FALSE
PROPERTIES
  Served
  ShrinksBack
  TermStops
  DeathNoticed
