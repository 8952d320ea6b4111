SPECIFICATION FairSpec
CONSTANTS
  Mask = 15
  Modulus64 = 1024
  InitialSn = 11
  MaxParts = 2
  MaxSent = 4
  SenderBufferSize = 2
  ReceiverBufferSize = 3
INVARIANTS
  TypeOK
  InOrder
  AckedIsReceived
PROPERTIES
  ImplementsOrderedDelivery
  EverythingDelivered
  EverythingAcknowledged
CHECK_DEADLOCK FALSE
