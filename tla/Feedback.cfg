SPECIFICATION Spec
CONSTANTS
  Mask = 63
  Modulus64 = 1024
  InitialSn = 3
  PairInterval = 4
  Fillers = {0, 2}
  MaxSends = 4
  MaxUnnumbered = 1
  MaxDuplicates = 1
  MaxFeedback = 2
  MaxAge = 3
INVARIANT MissingIsListed
PROPERTIES AcksAreTrue
CHECK_DEADLOCK FALSE
