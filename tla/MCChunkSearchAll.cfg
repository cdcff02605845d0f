SPECIFICATION SearchSpec
CONSTANTS
  MaxChunks = 2
  MaxKey = 3
  Keys <- MCKeys
  Inputs <- MCInputs
  SizeMax = 15
INVARIANT SearchesAll
CHECK_DEADLOCK FALSE
