SPECIFICATION Spec
CONSTANTS
  Threads = {t1, t2}
  Cells = {x, y}
  Objects = {1}
  Vals = {0, 1}
  Null = 0
  Locks = {l}
  guard <- OneLock
  Faults = {"begin", "lock", "add", "alloc", "free", "constructor"}
  MaxDepth = 3
  MaxOps = 4
  MaxFaults = 1
  MaxCrashes = 1
INVARIANTS TypeOK LeftTellsOutcome ReleasedUnlessLeaked ScopesRespectStages
PROPERTY ImplementsTxStore
SYMMETRY Symmetry
CHECK_DEADLOCK FALSE
