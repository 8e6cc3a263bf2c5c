SPECIFICATION Spec
CONSTANTS
  Lengths <- MCLengths
  Contents <- MCContents
  Texts = {"text", "key"}
  MaxDamage = 2
INVARIANTS SignedOrUntouched UndamagedIsAccepted AcceptedIsSigned
CHECK_DEADLOCK FALSE
