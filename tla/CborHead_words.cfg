SPECIFICATION Spec
CONSTANTS
  Ints <- MCInts
  Floats <- MCFloats
INVARIANTS Shortest RoundTrip
PROPERTIES EveryCallReturns
CHECK_DEADLOCK FALSE
