SPECIFICATION Spec
CONSTANTS
  Inputs <- NormalTrees
  MaxNesting = 4
  CountBits = 4
  MaxTags = 2
  NumMappedTags = 1
  LastUnmapped = 4
  Wanted <- LookedUp
  Calls <- Brief
  Careful = FALSE
INVARIANT WalkEndsWithEntered
