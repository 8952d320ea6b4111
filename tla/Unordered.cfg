SPECIFICATION FairSpec
CONSTANTS
  Mask = 63
  Modulus64 = 4096
  ChannelTypes = {"unreliableSequenced", "reliableSequenced"}
  InitialSn = 11
  MaxParts = 3
  MaxSent = 4
  SenderBufferSize = 4
  ReceiverBufferSize = 5
  OtherSns = {11, 12}
  OtherTypes = {"unreliableSequenced"}
  MaxAcks = 1
INVARIANTS
  WholeAndInOrder
  SetsKnowTree
  LastIsKept
PROPERTIES
  LastArrives
CHECK_DEADLOCK FALSE
