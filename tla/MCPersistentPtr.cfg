SPECIFICATION Spec
CONSTANTS
  Word = 256
  Uuid = 7
  Ptrs = {p, q, r}
  Size = 3
  BaseOff = 2
  Count = 4
  ArrayOff = 8
  PoolSize = 64
  Bases <- MCBases
  Stack = 200
  MaxCloses = 2
INVARIANTS TypeOK DenotesTarget ComparesLikeIndexes
SYMMETRY Symmetry
