----------------------------- MODULE MCRangeTab -----------------------------
(* RangeTab for TLC: chunks of one and two words, distinct in every word.  *)
EXTENDS RangeTab

One == [bloom |-> [i \in 1..CHUNK_BLOOM_FILTER_LEN |-> 7], data |-> <<3>>,
        start |-> 2, end |-> 4]
Two == [bloom |-> [i \in 1..CHUNK_BLOOM_FILTER_LEN |-> 8], data |-> <<5, 6>>,
        start |-> 1, end |-> 3]
OneTwo == {One, Two}

=============================================================================
