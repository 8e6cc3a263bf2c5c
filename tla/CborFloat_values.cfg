SPECIFICATION Spec
CONSTANTS
  Doubles <- MCDoubles
  Singles <- MCSingles
INVARIANTS Lossless Deterministic DecoderReturnsIt
CHECK_DEADLOCK FALSE
