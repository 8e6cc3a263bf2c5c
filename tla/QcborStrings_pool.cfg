SPECIFICATION Spec
CONSTANTS
  Inputs <- MCInputs
  PoolSizes = {1, 2, 4, 5, 7}
  SizeMax = 4
  OutSizes = {0, 3}
  MaxGot = 3
  MaxRewinds = 1
  MaxPuts = 2
INVARIANTS StringsIntact FailureFrees FitsUnlessEmpty OutIsWhatWasMeant
CHECK_DEADLOCK FALSE
