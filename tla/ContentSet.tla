----------------------------- MODULE ContentSet -----------------------------
(***************************************************************************)
(* What a user of pmem_hash_map relies on: a set of contents that survives *)
(* crashes, to which put adds one content at a time and from which nothing *)
(* ever disappears.                                                        *)
(***************************************************************************)
CONSTANT Contents

VARIABLE stored

Init == stored = {}

Add(c) == c \notin stored /\ stored' = stored \cup {c}

Next == \E c \in Contents : Add(c)

Spec == Init /\ [][Next]_stored

=============================================================================
