SPECIFICATION Spec
CONSTANTS
  Scripts <- ItemScripts
  Base = 3
  Room = 3
  MaxItems = 3
  MaxSignals = 1
  PipeMax = 3
  Mishaps = {"cgi", "fcgi"}
  Servers = {"cgi", "fcgi"}
  Outputs <- OutputCases
  Counts = {0, 1, 2, 3}
  Backlogs = {1}
  Slots = {1, 2}
  First = {1}
  Modes = {"cgi", "fixed", "varpool"}
  MaxEvents = 2
  Pool = {s1, s2, s3}
  MaxTerm = 1
  MaxHup = 2
  MaxCrash = 1
  ForkMayFail = TRUE
  WaitClearsPending = FALSE
  \* The signals are BSD's: one that is blocked and would be ignored is dropped.
  BlockedDflDropped = TRUE
\* The processes end.
CHECK_DEADLOCK FALSE
INVARIANTS
  WholeItems
  ResponseKept
  StartsAsAsked
  OnlyItsOwn
  PoolKept
PROPERTIES
  AllEnd
