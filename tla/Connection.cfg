SPECIFICATION Spec
CONSTANTS
  MaxAttempts = 2
  MaxForgets = 1
  MaxDuplicates = 1
  MaxInFlight = 2
  MaxBursts = 1
  MaxCalls = 3
  MaxAlike = 2
INVARIANTS
  EventsWellFormed
  RstAfterData
  OpenAgree
PROPERTIES
  OtherHostClosedIsTrue
CHECK_DEADLOCK FALSE
