--------------------------- MODULE MCPmemHashMap ---------------------------
(* PmemHashMap for TLC: four contents, of which three share a bucket.      *)
EXTENDS PmemHashMap

FourContents == {"c1", "c2", "c3", "c4"}

Colliding == [c \in FourContents |-> CASE c = "c1" -> 2 [] c = "c2" -> 5
                                       [] c = "c3" -> 4 [] c = "c4" -> 6]

=============================================================================
