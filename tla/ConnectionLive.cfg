SPECIFICATION FairSpec
CONSTANTS
  MaxAttempts = 2
  MaxForgets = 1
  MaxDuplicates = 0
  MaxInFlight = 12
  MaxBursts = 1
  MaxCalls = 2
  MaxAlike = 1
PROPERTIES
  ConnectAnswered
  CloseFinishes
VIEW WithoutHistory
CHECK_DEADLOCK FALSE
