SPECIFICATION Spec
CONSTANTS
  CHUNK_BLOOM_FILTER_LEN = 1
  chunk_bloom_bits_ = 1
  InitSeqs = {0, 1}
  Chunks <- OneTwo
  Memory = 10
  MaxBlks = 3
  MaxRestarts = 1
INVARIANTS
  TypeOK
  CommittedReadable
  CommittedContiguous
