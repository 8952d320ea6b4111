SPECIFICATION FairSpec
CONSTANTS
  Hosts = {"host"}
  ConnectionQueue <- MCOwnQueues
  DelegateQueue = "delegate"
  MaxArrivals = 3
  MaxCalls = 2
INVARIANTS
  OutlivesItsBlocks
  NoCircle
PROPERTIES
  DisconnectIsTold
  DeletedInTheEnd
CHECK_DEADLOCK FALSE
