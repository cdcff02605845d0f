--------------------------- MODULE MCChunkSearch ---------------------------
(* ChunkSearch for TLC: every list of at most MaxChunks chunks over the    *)
(* keys 1..MaxKey, and every key from below the smallest to above the      *)
(* largest.                                                                *)
EXTENDS ChunkSearch

Seqs == INSTANCE SequencesExt

CONSTANTS MaxChunks, MaxKey

MCKeys == 0..(MaxKey + 1)

SortedChunks ==
  {Seqs!SetToSortSeq(keys, LAMBDA x, y : x < y) : keys \in (SUBSET (1..MaxKey)) \ {{}}}

MCInputs == UNION {[1..n -> SortedChunks] : n \in 0..MaxChunks}

=============================================================================
