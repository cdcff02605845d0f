SPECIFICATION FairSearchSpec
CONSTANTS
  MaxChunks = 3
  MaxKey = 4
  Keys <- MCKeys
  Inputs <- MCInputs
  SizeMax = 15
INVARIANTS
  SearchTypeOK
  FoundIsNewest
  ThrowExplained
PROPERTY GetEnds
CHECK_DEADLOCK FALSE
