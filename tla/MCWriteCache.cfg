SPECIFICATION FairSpec
CONSTANTS
  Prefixes <- ThreePrefixes
  CityHash <- SameBucket
  TabLen = 2
  Capacity = 4
  AllocaSizes = {1, 4}
  MaxUint64 = 63
  Uninitialized = {0, 5}
  MaxChunks = 3
  MaxFailures = 2
  MaxQueue = 1
INVARIANTS
  TypeOK
  OneNodePerPrefix
  CommittedReachable
  GetSearchesAll
  RebuildComplete
PROPERTY ConstructorEnds
CHECK_DEADLOCK FALSE
