SPECIFICATION FairSpec
CONSTANTS
  Streams <- Clients
  MaxConn = 2
  MaxTerm = 1
  MaxNoMem = 1
INVARIANTS
  Paired
  StartsAtCookie
  ReturnedWhenDone
PROPERTIES
  ImplementsBroker
  ComesBack
  Ends
\* The three processes exit; the properties say when they must.
CHECK_DEADLOCK FALSE
