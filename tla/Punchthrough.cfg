SPECIFICATION FairSpec
CONSTANTS
  Topologies <- MCTwoWay
  MaxRestarts = 1
  MaxFaults = 1
  MaxInFlight = 2
INVARIANTS
  NobodyIsStranded
  StateIsTold
PROPERTIES
  ImplementsDirectPath
  PeersMeet
  TeardownEnds
CHECK_DEADLOCK FALSE
