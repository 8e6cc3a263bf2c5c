SPECIFICATION FairSpec
CONSTANTS
  BlockSize = 5
  PadEnd = 3
  LengthAt = 4
  LengthLimit = 256
  Messages <- MCMessages
INVARIANTS NothingLost PaddedRight
PROPERTIES UpdateEnds
CHECK_DEADLOCK FALSE
