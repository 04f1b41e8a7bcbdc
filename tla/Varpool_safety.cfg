SPECIFICATION Spec
CONSTANTS
  MinPool = 1
  MaxPool = 2
  Procs = 4
  MaxConn = 4
  MaxTerm = 1
  MaxHup = 1
  MaxCrash = 1
  CallsMayFail = FALSE
  WaitClearsPending = TRUE
  EintrKeepsRevents = TRUE
INVARIANTS
  TypeOK
  WorkersAgree
  PoolSize
  AssertsHold
  OnlyWithReason
  NoChildLeft
  PolledAreBusy
  KeepsNoneWaiting
PROPERTIES
  ReleasedWhenDone
\* The manager may block in accept(2) for good.
CHECK_DEADLOCK FALSE
