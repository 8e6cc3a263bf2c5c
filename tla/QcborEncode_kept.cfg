SPECIFICATION Spec
CONSTANTS
  MaxItems = 4
  MaxNesting = 2
  MaxOffset = 2
  Direct = 1
  MaxWraps = 1
  MaxLate <- OneSize
PROPERTIES ErrorsKept
CHECK_DEADLOCK FALSE
