SPECIFICATION Spec
CONSTANTS
  Inputs <- NormalTokens
  MaxNesting = 3
  CountBits = 4
  MaxTags = 2
  NumMappedTags = 1
  LastUnmapped = 4
  Wanted <- LookedUp
  Calls <- WalkCalls
  Careful = TRUE
INVARIANTS FinishMeansWellFormed
PROPERTY TagsAsEncoded
