SPECIFICATION Spec
CONSTANTS
  Checked = {"k"}
  Unchecked = {"u"}
  Offsets = {0, 1}
  MaxFields = 3
  MaxCookies = 1
  MaxWire = 2
  MaxEnvs = 1
  MaxReqs = 1
  MaxInputs = 2
  BufSizes = {0, 2}
  MaxRecord = 2
  Align = 8
  MaxWrite = 3
  MaxGiven = 8
  MaxSystem = 1
  MaxNoMem = 1
  MaxParentNoMem = 1
INVARIANTS
  ListsHoldPairs
  AllOrNothing
  Ordered
  NoSilentLoss
  HeadThenBody
  Framed
PROPERTIES
  ReturnsAndFrees
