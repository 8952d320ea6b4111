SPECIFICATION Spec
CONSTANTS
  Mask = 63
  Modulus64 = 4096
  ChannelTypes = {"unreliable"}
  InitialSn = 11
  MaxParts = 2
  MaxSent = 4
  SenderBufferSize = 4
  ReceiverBufferSize = 4
  OtherSns = {}
  OtherTypes = {}
  MaxAcks = 1
INVARIANT
  AssertionsHold
CHECK_DEADLOCK FALSE
