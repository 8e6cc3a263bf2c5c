SPECIFICATION Spec
CONSTANTS
  Inputs <- TreesInModes
  MaxNesting = 4
  CountBits = 4
  MaxTags = 2
  NumMappedTags = 1
  LastUnmapped = 4
  Wanted <- LookedUp
  Calls <- AllCalls
  Careful = TRUE
INVARIANT WalkInsideBounded
PROPERTY ImplementsItemCursor
