SPECIFICATION Spec
CONSTANTS
  MaxItems = 4
  MaxNesting = 2
  MaxOffset = 4
  Direct = 1
  MaxWraps = 1
  MaxLate <- MCLate
INVARIANTS FinishedIsWellFormed OverflowNeverSucceeds StartsInOrder
PROPERTIES WrappedIsContent ImplementsNested
CHECK_DEADLOCK FALSE
