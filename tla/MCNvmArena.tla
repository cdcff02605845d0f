----------------------------- MODULE MCNvmArena -----------------------------
(* NvmArena for TLC: the configuration has a block of a few alignment units *)
(* that is not a multiple of the unit.                                     *)
EXTENDS NvmArena

=============================================================================
