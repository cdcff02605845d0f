-------------------------- MODULE MCChunkIterator --------------------------
(* ChunkIterator for TLC: chunks of up to two pairs, with keys and values  *)
(* of one or two words.                                                    *)
EXTENDS ChunkIterator

Words == {<<1>>, <<2, 0>>}
MCChunks == UNION {[1..n -> [key : Words, value : Words]] : n \in 0..2}
=============================================================================
