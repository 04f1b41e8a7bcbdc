SPECIFICATION HarnessAlone
CONSTANTS
  Scripts <- ItemScripts
  Base = 3
  Room = 3
  MaxItems = 3
  MaxSignals = 1
  PipeMax = 3
  Mishaps = {"cgi"}
  Servers = {"cgi"}
  Outputs <- OutputCases
  Counts = {0, 1, 2, 3}
  Backlogs = {1}
  Slots = {1, 2}
  First = {1}
  Modes = {"cgi", "fixed", "varpool"}
  MaxEvents = 2
  Pool = {s1, s2, s3}
  MaxTerm = 1
  MaxHup = 2
  MaxCrash = 1
  ForkMayFail = TRUE
  WaitClearsPending = FALSE
  \* The signals are BSD's: one that is blocked and would be ignored is dropped.
  BlockedDflDropped = TRUE
\* Where the test has ended there is nothing left to do.
CHECK_DEADLOCK FALSE
PROPERTY
  TestEnds
