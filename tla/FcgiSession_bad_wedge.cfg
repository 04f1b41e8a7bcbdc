SPECIFICATION FairSpec
CONSTANTS
  Streams <- Wedging
  MaxConn = 1
  MaxTerm = 1
  MaxNoMem = 0
PROPERTIES
  ComesBack
\* The three processes exit; the properties say when they must.
CHECK_DEADLOCK FALSE
