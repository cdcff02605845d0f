-------------------------- MODULE MCPersistentPtr --------------------------
(* PersistentPtr for TLC: 2^8 addresses, an array of four objects of three *)
(* bytes, and two places for the pool.                                     *)
EXTENDS PersistentPtr, TLC

MCBases == {16, 100}
Symmetry == Permutations(Ptrs)
=============================================================================
