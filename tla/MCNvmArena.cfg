SPECIFICATION Spec
CONSTANTS
  block_addr = 8
  block_sz = 11
  kAlignUnit = 4
  SizeMod = 64
  Requests = {1, 2, 3, 5}
INVARIANTS
  TypeOK
  NoOverlap
  AlignedResults
  UsageIsTight
CHECK_DEADLOCK FALSE
