---------------------------- MODULE MCWriteCache ----------------------------
(* WriteCache for TLC: three prefixes in one bucket of two, two of them    *)
(* with the same hash.                                                     *)
EXTENDS WriteCache

ThreePrefixes == {"a", "b", "c"}

SameBucket == [p \in ThreePrefixes |-> IF p = "c" THEN 3 ELSE 1]

=============================================================================
