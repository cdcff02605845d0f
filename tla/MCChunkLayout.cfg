SPECIFICATION Spec
CONSTANTS
  Word = 64
  Uuid = 7
  Chunks <- MCChunks
  DataOff = 8
  PoolSize = 40
  Other = 0
INVARIANT ReadsLayout
