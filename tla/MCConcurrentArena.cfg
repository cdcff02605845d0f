SPECIFICATION FairSpec
CONSTANTS
  t1 = t1
  t2 = t2
  Threads <- TwoThreads
  NumShards = 2
  shard_block_size_ = 8
  kBlockSize = 12
  kInlineSize = 3
  PtrSize = 2
  Requests = {1, 2, 3}
  InitialCpuid = {0, 2}
  Uninitialized = {0, 5}
  MaxAllocs = 4
INVARIANTS
  TypeOK
  NoOverlap
  AlignedFromShard
  FreshReloads
PROPERTY CallsReturn
CHECK_DEADLOCK FALSE
