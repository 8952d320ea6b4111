SPECIFICATION FairSpec
CONSTANTS
  Bindings <- MCOneEach
  MaxStarts = 3
  MaxFaults = 1
  MaxInFlight = 1
  MaxStamp = 2
PROPERTIES BothOpen CloseFinishes
CHECK_DEADLOCK FALSE
