SPECIFICATION Spec
CONSTANTS
  Capacity = 5
  Calls <- MCCalls
  Elements <- MCElements
  Uninit = Uninit
  MaxStream = 5
  MaxSaves = 2
INVARIANTS TypeOK CompleteOrFlagged MovesInBounds
PROPERTIES OverflowIsFinal SavedBytesStay ImplementsStream
CHECK_DEADLOCK FALSE
