CONSTANTS
  t1 = t1
  t2 = t2
  t3 = t3
  Threads <- MCThreads
  NoThread = NoThread
  Deadlines <- MCDeadlines
  TicksPerSec = 2
  MaxRuns = 2
SPECIFICATION Spec
INVARIANTS TypeOK Exclusion AnswerIsCurrent
PROPERTY NoLostWakeup
CHECK_DEADLOCK FALSE
