------------------------- MODULE MCConcurrentArena --------------------------
(* ConcurrentArena for TLC: requests that are aligned, odd and too large   *)
(* for a shard, in an arena whose inline block two of them exhaust.        *)
EXTENDS ConcurrentArena

CONSTANTS t1, t2

TwoThreads == {t1, t2}

=============================================================================
