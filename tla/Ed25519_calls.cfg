SPECIFICATION Spec
CHECK_DEADLOCK FALSE
CONSTANTS
  Limbs = 2
  LongBits = 8
  Fold = 19
  LoadAt <- MCLoadAt
  ChainLength = 1
  Mul121666 = 788
  CurveD = 28218
  BaseX = 214
  BaseY = 26200
  SqrtM1 = 15645
  KeyBits = 16
  DigitBits = 4
  Digits = 3
  FoldDigits <- MCFoldDigits
  Parties = {"alice", "bob"}
  Seeds = {1, 40000}
  Scalars = {32767, 65535}
  Messages = {7, 8}
  Hash <- MCHash
  Samples <- MCSamples
  MaxCalls = 4
  None = None
INVARIANTS FieldRight KeysMatch SignaturesHold VerdictsRight SecretsAgree
