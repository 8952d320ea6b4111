SPECIFICATION Spec
CONSTANTS
  Bindings <- MCTwoAndOne
  MaxStarts = 3
  MaxFaults = 0
  MaxInFlight = 2
  MaxStamp = 1
INVARIANTS MapsConsistent IntroducesTheOther
CHECK_DEADLOCK FALSE
