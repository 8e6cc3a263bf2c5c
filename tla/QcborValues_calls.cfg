SPECIFICATION Spec
CONSTANTS
  W = 6
  ByteBits = 2
  Slack = 1
  UnknownTag = 50
  Adds <- MCAdds
  MoreAdds <- MCMoreAdds
  Labels <- MCLabels
  TextLabels = {"s2"}
  Calls <- MCCalls
  Again <- MCAgain
  MaxCalls = 2
INVARIANTS NumbersAreRight ContentsAreGot FractionsAreGot
PROPERTY EntryByEntry
CHECK_DEADLOCK FALSE
