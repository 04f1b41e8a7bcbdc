SPECIFICATION Spec
CONSTANTS
  StackMax = 3
  MaxText = 2
  MaxForm = 4
  MaxTemplate = 5
  MaxRuns = 1
  MaxPuts = 1
  MaxMessage = 3
  MaxValue = 3
  MaxChecks = 2
  Span = 200
  Starts <- DateStarts
  Seconds = {0, 86399}
  LastDay = 3000000
  MaxYear = 10183
  MinYear <- FirstYear
  INT_MAX = 5000
  IntMax = 99999999
  EmailMax = 6
CHECK_DEADLOCK FALSE
INVARIANTS
  WellFormed
  FormsKept
  RequestAsSent
  PasswordTells
  ValuesMeant
  TemplateExpands
PROPERTIES
  CallsWhole
  ImplementsCalendar
