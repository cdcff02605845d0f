---- MODULE MCPmemLocks ----
(* Three threads, so that a notification must choose between two waiters.  *)
EXTENDS PmemLocks

CONSTANTS t1, t2, t3

MCThreads == {t1, t2, t3}
MCDeadlines == -1..1

====
