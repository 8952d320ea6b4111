SPECIFICATION FairSpec
CONSTANTS
  Lowest = 2
  Kinds <- MCKinds
  HeaderSize = 1
  AckSize = 1
  ControlSize = 3
  Mtu = 7
  Ticks = 2
  Allowances = {1, 4}
  PairInterval = 3
  AckSns = {2}
  MaxMessages = 4
  MaxAcks = 2
INVARIANTS SentOnceInOrder Shares
PROPERTIES  QueueDrains
CHECK_DEADLOCK FALSE
