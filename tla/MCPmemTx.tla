------------------------------ MODULE MCPmemTx ------------------------------
(* PmemTx for TLC: one lock guards every cell; threads and cells are       *)
(* interchangeable.                                                        *)
EXTENDS PmemTx, TLC

OneLock == [c \in Cells |-> CHOOSE l \in Locks : TRUE]
Symmetry == Permutations(Threads) \union Permutations(Cells)
=============================================================================
