---------------------------- MODULE PmemTxProofs ----------------------------
(***************************************************************************)
(* PmemTx implements TxStore, and what its invariants say, for any number  *)
(* of threads, cells, objects, locks and nested scopes, and any limits on  *)
(* operations, failed calls and crashes.                                   *)
(***************************************************************************)
EXTENDS PmemTx, TLAPS

Undos == UNION {[C -> Vals] : C \in SUBSET Cells}
Outcomes == {"none", "committed", "aborted"}
TxRecs == [stage : Stages, entries : Nat, failed : BOOLEAN, undo : Undos,
           allocs : SUBSET Objects, frees : SUBSET Objects, locks : SUBSET Locks,
           outcome : Outcomes]
Contents == [Cells -> Vals]
Calls == {"pmemobj_tx_abort", "pmemobj_tx_commit", "pmemobj_tx_end", "pmemobj_tx_free"}
Pools == [mem : Contents, medium : Contents, heap : SUBSET Objects]
Views == [tx : TxRecs, pm : Pools, misuse : SUBSET Calls]

(* What a call of the library does to the data of a transaction: nothing,  *)
(* all of it is undone, or all of it is made durable.                      *)
Same(v, w) ==
  /\ w.tx.undo = v.tx.undo /\ w.tx.allocs = v.tx.allocs /\ w.tx.frees = v.tx.frees
  /\ w.pm = v.pm
Emptied(w) == w.tx.undo = NoUndo /\ w.tx.allocs = {} /\ w.tx.frees = {}
Undone(v, w) ==
  /\ Emptied(w) /\ w.pm.heap = v.pm.heap
  /\ w.pm.mem = Overlay(v.tx.undo, v.pm.mem)
  /\ w.pm.medium = Overlay(v.tx.undo, v.pm.medium)
Done(v, w) ==
  /\ Emptied(w) /\ w.pm.mem = v.pm.mem
  /\ w.pm.medium = [c \in Cells |-> IF c \in DOMAIN v.tx.undo THEN v.pm.mem[c]
                                    ELSE v.pm.medium[c]]
  /\ w.pm.heap = (v.pm.heap \union v.tx.allocs) \ v.tx.frees

-----------------------------------------------------------------------------
(* The library.                                                            *)

LEMMA NoUndoType == NoUndo \in Undos /\ DOMAIN NoUndo = {}
<1>1. NoUndo \in [{} -> Vals] /\ DOMAIN NoUndo = {}
  BY DEF NoUndo
<1> QED BY <1>1 DEF Undos

LEMMA NoTxType == NoTx \in TxRecs
<1>1. FALSE \in BOOLEAN
  OBVIOUS
<1> QED BY <1>1, NoUndoType, Zenon DEF NoTx, TxRecs, Stages, Outcomes

LEMMA UndoValues ==
  ASSUME NEW f \in Undos
  PROVE  DOMAIN f \subseteq Cells /\ \A c \in DOMAIN f : f[c] \in Vals
BY DEF Undos

LEMMA OverlayType ==
  ASSUME NEW f \in Undos, NEW g \in Contents
  PROVE  /\ Overlay(f, g) \in Contents
         /\ \A c \in Cells : Overlay(f, g)[c] = IF c \in DOMAIN f THEN f[c] ELSE g[c]
<1>1. DOMAIN g = Cells /\ \A c \in Cells : g[c] \in Vals
  BY DEF Contents
<1> QED BY <1>1, UndoValues DEF Overlay, Contents

(* pmemobj_tx_begin *)
LEMMA BeginResult ==
  ASSUME NEW v \in Views, v.tx.stage = "NONE" => Emptied(v)
  PROVE  LET w == TxBegin(v)
         IN  /\ w \in Views /\ w.misuse = v.misuse /\ Same(v, w)
             /\ w.tx.stage = (IF v.tx.stage = "NONE" THEN "WORK" ELSE v.tx.stage)
             /\ w.tx.failed = FALSE
             /\ v.tx.stage = "NONE" => w.tx.entries = 1 /\ w.tx.locks = {}
                                       /\ w.tx.outcome = "none"
             /\ v.tx.stage # "NONE" => w.tx.entries = v.tx.entries + 1
                                       /\ w.tx.locks = v.tx.locks
                                       /\ w.tx.outcome = v.tx.outcome
<1>1. CASE v.tx.stage = "NONE"
  <2> DEFINE x == [NoTx EXCEPT !.stage = "WORK", !.entries = 1]
  <2>1. x \in TxRecs
    BY NoTxType DEF TxRecs, Stages
  <2>2. /\ x.stage = "WORK" /\ x.entries = 1 /\ x.failed = FALSE /\ x.undo = NoUndo
        /\ x.allocs = {} /\ x.frees = {} /\ x.locks = {} /\ x.outcome = "none"
    BY DEF NoTx
  <2>3. TxBegin(v) = [v EXCEPT !.tx = x]
    BY <1>1 DEF TxBegin
  <2> HIDE DEF x
  <2>4. TxBegin(v) \in Views /\ TxBegin(v).tx = x /\ TxBegin(v).pm = v.pm
        /\ TxBegin(v).misuse = v.misuse
    BY <2>1, <2>3 DEF Views
  <2> QED BY <1>1, <2>2, <2>4 DEF Same, Emptied
<1>2. CASE v.tx.stage # "NONE"
  <2> DEFINE x == [v.tx EXCEPT !.entries = v.tx.entries + 1, !.failed = FALSE]
  <2>1. v.tx \in TxRecs /\ v.tx.entries + 1 \in Nat /\ FALSE \in BOOLEAN
    BY DEF Views, TxRecs
  <2>2. /\ x \in TxRecs
        /\ x.stage = v.tx.stage /\ x.entries = v.tx.entries + 1 /\ x.failed = FALSE
        /\ x.undo = v.tx.undo /\ x.allocs = v.tx.allocs /\ x.frees = v.tx.frees
        /\ x.locks = v.tx.locks /\ x.outcome = v.tx.outcome
    BY <2>1 DEF TxRecs
  <2>3. TxBegin(v) = [v EXCEPT !.tx = x]
    BY <1>2, <2>1 DEF TxBegin, Views
  <2> HIDE DEF x
  <2>4. TxBegin(v) \in Views /\ TxBegin(v).tx = x /\ TxBegin(v).pm = v.pm
        /\ TxBegin(v).misuse = v.misuse
    BY <2>2, <2>3 DEF Views
  <2> QED BY <1>2, <2>2, <2>4 DEF Same
<1> QED BY <1>1, <1>2

(* pmemobj_tx_abort, in stage WORK *)
LEMMA AbortResult ==
  ASSUME NEW v \in Views, v.tx.stage = "WORK"
  PROVE  LET w == TxAbort(v)
         IN  /\ w \in Views /\ w.misuse = v.misuse
             /\ w.tx.stage = "ONABORT" /\ w.tx.failed = TRUE
             /\ w.tx.entries = v.tx.entries /\ w.tx.locks = v.tx.locks
             /\ v.tx.entries > 1 => Same(v, w) /\ w.tx.outcome = v.tx.outcome
             /\ ~(v.tx.entries > 1) => Undone(v, w) /\ w.tx.outcome = "aborted"
<1>1. v.tx \in TxRecs /\ v.pm \in Pools /\ TRUE \in BOOLEAN /\ v.tx.undo \in Undos
  BY DEF Views, TxRecs
<1>2. CASE v.tx.entries > 1
  <2> DEFINE x == [v.tx EXCEPT !.stage = "ONABORT", !.failed = TRUE]
  <2>1. /\ x \in TxRecs
        /\ x.stage = "ONABORT" /\ x.entries = v.tx.entries /\ x.failed = TRUE
        /\ x.undo = v.tx.undo /\ x.allocs = v.tx.allocs /\ x.frees = v.tx.frees
        /\ x.locks = v.tx.locks /\ x.outcome = v.tx.outcome
    BY <1>1 DEF TxRecs, Stages
  <2>2. TxAbort(v) = [v EXCEPT !.tx = x]
    BY <1>1, <1>2 DEF TxAbort, Views
  <2> HIDE DEF x
  <2>3. TxAbort(v) \in Views /\ TxAbort(v).tx = x /\ TxAbort(v).pm = v.pm
        /\ TxAbort(v).misuse = v.misuse
    BY <2>1, <2>2 DEF Views
  <2> QED BY <1>2, <2>1, <2>3 DEF Same
<1>3. CASE ~(v.tx.entries > 1)
  <2> DEFINE x == [v.tx EXCEPT !.stage = "ONABORT", !.failed = TRUE, !.undo = NoUndo,
                               !.allocs = {}, !.frees = {}, !.outcome = "aborted"]
             m == Overlay(v.tx.undo, v.pm.mem)
             n == Overlay(v.tx.undo, v.pm.medium)
             q == [v.pm EXCEPT !.mem = m, !.medium = n]
  <2>1. /\ x \in TxRecs
        /\ x.stage = "ONABORT" /\ x.entries = v.tx.entries /\ x.failed = TRUE
        /\ x.undo = NoUndo /\ x.allocs = {} /\ x.frees = {}
        /\ x.locks = v.tx.locks /\ x.outcome = "aborted"
    BY <1>1, NoUndoType DEF TxRecs, Stages, Outcomes
  <2>2. m \in Contents /\ n \in Contents
    BY <1>1, OverlayType DEF Pools
  <2>3. TxAbort(v) = [v EXCEPT !.tx = x, !.pm = q]
    BY <1>1, <1>3 DEF TxAbort, Views, Pools
  <2> HIDE DEF x, m, n
  <2>4. q \in Pools /\ q.mem = m /\ q.medium = n /\ q.heap = v.pm.heap
    BY <1>1, <2>2 DEF Pools
  <2> HIDE DEF q
  <2>5. TxAbort(v) \in Views /\ TxAbort(v).tx = x /\ TxAbort(v).pm = q
        /\ TxAbort(v).misuse = v.misuse
    BY <2>1, <2>3, <2>4 DEF Views
  <2> QED BY <1>3, <2>1, <2>4, <2>5 DEF Undone, Emptied, m, n
<1> QED BY <1>2, <1>3

(* pmemobj_tx_commit, in stage WORK *)
LEMMA CommitResult ==
  ASSUME NEW v \in Views, v.tx.stage = "WORK"
  PROVE  LET w == TxCommit(v)
         IN  /\ w \in Views /\ w.misuse = v.misuse
             /\ w.tx.stage = "ONCOMMIT" /\ w.tx.failed = v.tx.failed
             /\ w.tx.entries = v.tx.entries /\ w.tx.locks = v.tx.locks
             /\ v.tx.entries > 1 => Same(v, w) /\ w.tx.outcome = v.tx.outcome
             /\ ~(v.tx.entries > 1) => Done(v, w) /\ w.tx.outcome = "committed"
<1>1. v.tx \in TxRecs /\ v.pm \in Pools /\ v.tx.undo \in Undos
  BY DEF Views, TxRecs
<1>2. CASE v.tx.entries > 1
  <2> DEFINE x == [v.tx EXCEPT !.stage = "ONCOMMIT"]
  <2>1. /\ x \in TxRecs
        /\ x.stage = "ONCOMMIT" /\ x.entries = v.tx.entries /\ x.failed = v.tx.failed
        /\ x.undo = v.tx.undo /\ x.allocs = v.tx.allocs /\ x.frees = v.tx.frees
        /\ x.locks = v.tx.locks /\ x.outcome = v.tx.outcome
    BY <1>1 DEF TxRecs, Stages
  <2>2. TxCommit(v) = [v EXCEPT !.tx = x]
    BY <1>1, <1>2 DEF TxCommit, Views
  <2> HIDE DEF x
  <2>3. TxCommit(v) \in Views /\ TxCommit(v).tx = x /\ TxCommit(v).pm = v.pm
        /\ TxCommit(v).misuse = v.misuse
    BY <2>1, <2>2 DEF Views
  <2> QED BY <1>2, <2>1, <2>3 DEF Same
<1>3. CASE ~(v.tx.entries > 1)
  <2> DEFINE x == [v.tx EXCEPT !.stage = "ONCOMMIT", !.undo = NoUndo,
                               !.allocs = {}, !.frees = {}, !.outcome = "committed"]
             n == [c \in Cells |-> IF c \in DOMAIN v.tx.undo THEN v.pm.mem[c]
                                   ELSE v.pm.medium[c]]
             h == (v.pm.heap \union v.tx.allocs) \ v.tx.frees
             q == [v.pm EXCEPT !.medium = n, !.heap = h]
  <2>1. /\ x \in TxRecs
        /\ x.stage = "ONCOMMIT" /\ x.entries = v.tx.entries /\ x.failed = v.tx.failed
        /\ x.undo = NoUndo /\ x.allocs = {} /\ x.frees = {}
        /\ x.locks = v.tx.locks /\ x.outcome = "committed"
    BY <1>1, NoUndoType DEF TxRecs, Stages, Outcomes
  <2>2. n \in Contents
    BY <1>1 DEF Pools, Contents
  <2>3. h \in SUBSET Objects
    BY <1>1 DEF Pools, TxRecs
  <2>4. TxCommit(v) = [v EXCEPT !.tx = x, !.pm = q]
    BY <1>1, <1>3 DEF TxCommit, Views, Pools
  <2> HIDE DEF x, n, h
  <2>5. q \in Pools /\ q.mem = v.pm.mem /\ q.medium = n /\ q.heap = h
    BY <1>1, <2>2, <2>3 DEF Pools
  <2> HIDE DEF q
  <2>6. TxCommit(v) \in Views /\ TxCommit(v).tx = x /\ TxCommit(v).pm = q
        /\ TxCommit(v).misuse = v.misuse
    BY <2>1, <2>4, <2>5 DEF Views
  <2> QED BY <1>3, <2>1, <2>5, <2>6 DEF Done, Emptied, n, h
<1> QED BY <1>2, <1>3

(* pmemobj_tx_end of the outermost transaction *)
LEMMA EndOutermost ==
  ASSUME NEW v \in Views, v.tx.stage # "WORK", v.tx.entries <= 1
  PROVE  LET w == TxEnd(v)
         IN  /\ w \in Views /\ w.misuse = v.misuse /\ w.pm = v.pm /\ Emptied(w)
             /\ w.tx.stage = "NONE" /\ w.tx.failed = FALSE /\ w.tx.entries = 0
             /\ w.tx.locks = {} /\ w.tx.outcome = v.tx.outcome
<1> DEFINE x == [NoTx EXCEPT !.outcome = v.tx.outcome]
<1>1. v.tx.outcome \in Outcomes
  BY DEF Views, TxRecs
<1>2. x \in TxRecs
  BY <1>1, NoTxType DEF TxRecs
<1>3. /\ x.stage = "NONE" /\ x.entries = 0 /\ x.failed = FALSE /\ x.undo = NoUndo
      /\ x.allocs = {} /\ x.frees = {} /\ x.locks = {} /\ x.outcome = v.tx.outcome
  BY DEF NoTx
<1>4. TxEnd(v) = [v EXCEPT !.tx = x]
  BY DEF TxEnd
<1> HIDE DEF x
<1>5. TxEnd(v) \in Views /\ TxEnd(v).tx = x /\ TxEnd(v).pm = v.pm
      /\ TxEnd(v).misuse = v.misuse
  BY <1>2, <1>4 DEF Views
<1> QED BY <1>3, <1>5 DEF Emptied

(* pmemobj_tx_end of a nested one: the one around it goes on, or is        *)
(* aborted too.                                                            *)
LEMMA EndNested ==
  ASSUME NEW v \in Views, v.tx.stage # "WORK", v.tx.entries > 1
  PROVE  LET w == TxEnd(v)
         IN  /\ w \in Views /\ w.misuse = v.misuse
             /\ w.tx.entries = v.tx.entries - 1 /\ w.tx.locks = v.tx.locks
             /\ v.tx.failed = FALSE => /\ w.tx.stage = "WORK" /\ w.tx.failed = FALSE
                                       /\ Same(v, w) /\ w.tx.outcome = v.tx.outcome
             /\ v.tx.failed = TRUE =>
                  /\ w.tx.stage = "ONABORT" /\ w.tx.failed = TRUE
                  /\ v.tx.entries > 2 => Same(v, w) /\ w.tx.outcome = v.tx.outcome
                  /\ ~(v.tx.entries > 2) => Undone(v, w) /\ w.tx.outcome = "aborted"
<1> DEFINE x == [v.tx EXCEPT !.stage = "WORK", !.entries = v.tx.entries - 1]
           r == [v EXCEPT !.tx = x]
<1>1. v.tx \in TxRecs /\ v.tx.entries \in Nat /\ v.tx.entries - 1 \in Nat
      /\ ~(v.tx.entries <= 1)
  BY DEF Views, TxRecs
<1>2. /\ x \in TxRecs
      /\ x.stage = "WORK" /\ x.entries = v.tx.entries - 1 /\ x.failed = v.tx.failed
      /\ x.undo = v.tx.undo /\ x.allocs = v.tx.allocs /\ x.frees = v.tx.frees
      /\ x.locks = v.tx.locks /\ x.outcome = v.tx.outcome
  BY <1>1 DEF TxRecs, Stages
<1>3. TxEnd(v) = IF v.tx.failed THEN TxAbort(r) ELSE r
  BY <1>1 DEF TxEnd, Views
<1> HIDE DEF x
<1>4. r \in Views /\ r.tx = x /\ r.pm = v.pm /\ r.misuse = v.misuse
  BY <1>2 DEF Views
<1> HIDE DEF r
<1>5. CASE v.tx.failed = FALSE
  <2>1. TxEnd(v) = r
    BY <1>3, <1>5
  <2> QED BY <1>2, <1>4, <1>5, <2>1 DEF Same
<1>6. CASE v.tx.failed = TRUE
  <2>1. TxEnd(v) = TxAbort(r)
    BY <1>3, <1>6
  <2>2. LET w == TxAbort(r)
        IN  /\ w \in Views /\ w.misuse = r.misuse
            /\ w.tx.stage = "ONABORT" /\ w.tx.failed = TRUE
            /\ w.tx.entries = r.tx.entries /\ w.tx.locks = r.tx.locks
            /\ r.tx.entries > 1 => Same(r, w) /\ w.tx.outcome = r.tx.outcome
            /\ ~(r.tx.entries > 1) => Undone(r, w) /\ w.tx.outcome = "aborted"
    BY <1>2, <1>4, AbortResult
  <2>3. (r.tx.entries > 1 <=> v.tx.entries > 2)
    BY <1>1, <1>2, <1>4
  <2> QED BY <1>2, <1>4, <1>6, <2>1, <2>2, <2>3 DEF Same, Undone
<1>7. v.tx.failed = TRUE \/ v.tx.failed = FALSE
  BY DEF Views, TxRecs
<1> QED BY <1>5, <1>6, <1>7

(* pmemobj_tx_add_range *)
LEMMA AddRangeResult ==
  ASSUME NEW v \in Views, NEW c \in Cells
  PROVE  LET w == AddRange(v, c)
         IN  /\ w \in Views /\ w.misuse = v.misuse /\ w.pm = v.pm
             /\ w.tx.stage = v.tx.stage /\ w.tx.entries = v.tx.entries
             /\ w.tx.failed = v.tx.failed /\ w.tx.allocs = v.tx.allocs
             /\ w.tx.frees = v.tx.frees /\ w.tx.locks = v.tx.locks
             /\ w.tx.outcome = v.tx.outcome
             /\ DOMAIN w.tx.undo = DOMAIN v.tx.undo \union {c}
             /\ \A d \in DOMAIN v.tx.undo : w.tx.undo[d] = v.tx.undo[d]
             /\ c \notin DOMAIN v.tx.undo => w.tx.undo[c] = v.pm.mem[c]
<1>1. v.tx \in TxRecs /\ v.tx.undo \in Undos /\ v.pm.mem[c] \in Vals
  BY DEF Views, TxRecs, Pools, Contents
<1>2. CASE c \in DOMAIN v.tx.undo
  BY <1>2 DEF AddRange
<1>3. CASE c \notin DOMAIN v.tx.undo
  <2> DEFINE f == [d \in DOMAIN v.tx.undo \union {c} |->
                     IF d = c THEN v.pm.mem[c] ELSE v.tx.undo[d]]
             x == [v.tx EXCEPT !.undo = f]
  <2>1. /\ f \in Undos /\ DOMAIN f = DOMAIN v.tx.undo \union {c} /\ f[c] = v.pm.mem[c]
        /\ \A d \in DOMAIN v.tx.undo : f[d] = v.tx.undo[d]
    <3>1. DOMAIN v.tx.undo \union {c} \in SUBSET Cells
      BY <1>1, UndoValues
    <3>2. f \in [DOMAIN v.tx.undo \union {c} -> Vals]
      BY <1>1, UndoValues
    <3>3. f \in Undos
      BY <3>1, <3>2 DEF Undos
    <3> QED BY <1>3, <3>3
  <2>2. AddRange(v, c) = [v EXCEPT !.tx = x]
    BY <1>3, <1>1 DEF AddRange, Views
  <2> HIDE DEF f
  <2>3. /\ x \in TxRecs
        /\ x.stage = v.tx.stage /\ x.entries = v.tx.entries /\ x.failed = v.tx.failed
        /\ x.undo = f /\ x.allocs = v.tx.allocs /\ x.frees = v.tx.frees
        /\ x.locks = v.tx.locks /\ x.outcome = v.tx.outcome
    BY <1>1, <2>1 DEF TxRecs
  <2> HIDE DEF x
  <2>4. AddRange(v, c) \in Views /\ AddRange(v, c).tx = x /\ AddRange(v, c).pm = v.pm
        /\ AddRange(v, c).misuse = v.misuse
    BY <2>2, <2>3 DEF Views
  <2> QED BY <1>3, <2>1, <2>3, <2>4
<1> QED BY <1>2, <1>3

(* A scope that ends after its transaction has committed, aborted, or was  *)
(* committed or aborted before.                                            *)
LEMMA CommitAndEnd ==
  ASSUME NEW v \in Views, v.tx.stage = "WORK", v.tx.failed = FALSE, v.tx.entries >= 1
  PROVE  LET w == TxEnd(TxCommit(v))
         IN  /\ w \in Views /\ w.misuse = v.misuse /\ w.tx.entries = v.tx.entries - 1
             /\ w.tx.failed = FALSE /\ w.tx.locks \subseteq v.tx.locks
             /\ v.tx.entries = 1 => /\ Done(v, w) /\ w.tx.stage = "NONE"
                                    /\ w.tx.locks = {} /\ w.tx.outcome = "committed"
             /\ v.tx.entries > 1 => /\ Same(v, w) /\ w.tx.stage = "WORK"
                                    /\ w.tx.locks = v.tx.locks
                                    /\ w.tx.outcome = v.tx.outcome
<1> DEFINE c == TxCommit(v)
           w == TxEnd(c)
<1>1. /\ c \in Views /\ c.misuse = v.misuse
      /\ c.tx.stage = "ONCOMMIT" /\ c.tx.failed = v.tx.failed
      /\ c.tx.entries = v.tx.entries /\ c.tx.locks = v.tx.locks
      /\ v.tx.entries > 1 => Same(v, c) /\ c.tx.outcome = v.tx.outcome
      /\ ~(v.tx.entries > 1) => Done(v, c) /\ c.tx.outcome = "committed"
  BY CommitResult
<1>2. v.tx.entries \in Nat
  BY DEF Views, TxRecs
<1> HIDE DEF c
<1>3. CASE v.tx.entries = 1
  <2>1. /\ w \in Views /\ w.misuse = c.misuse /\ w.pm = c.pm /\ Emptied(w)
        /\ w.tx.stage = "NONE" /\ w.tx.failed = FALSE /\ w.tx.entries = 0
        /\ w.tx.locks = {} /\ w.tx.outcome = c.tx.outcome
    BY <1>1, <1>3, EndOutermost
  <2> HIDE DEF w
  <2>2. Done(v, w)
    BY <1>1, <1>3, <2>1 DEF Done
  <2> QED BY <1>1, <1>3, <2>1, <2>2 DEF c, w
<1>4. CASE v.tx.entries > 1
  <2>1. /\ w \in Views /\ w.misuse = c.misuse
        /\ w.tx.entries = c.tx.entries - 1 /\ w.tx.locks = c.tx.locks
        /\ w.tx.stage = "WORK" /\ w.tx.failed = FALSE
        /\ Same(c, w) /\ w.tx.outcome = c.tx.outcome
    <3>1. c \in Views /\ c.tx.failed = FALSE /\ c.tx.entries > 1 /\ c.tx.stage # "WORK"
      BY <1>1, <1>4
    <3> QED BY <3>1, EndNested
  <2> HIDE DEF w
  <2>2. Same(v, w)
    BY <1>1, <1>4, <2>1 DEF Same
  <2> QED BY <1>1, <1>4, <2>1, <2>2 DEF c, w
<1>5. v.tx.entries = 1 \/ v.tx.entries > 1
  BY <1>2
<1> QED BY <1>3, <1>4, <1>5, Zenon

LEMMA AbortAndEnd ==
  ASSUME NEW v \in Views, v.tx.stage = "WORK", v.tx.entries >= 1
  PROVE  LET w == TxEnd(TxAbort(v))
         IN  /\ w \in Views /\ w.misuse = v.misuse /\ w.tx.entries = v.tx.entries - 1
             /\ w.tx.locks \subseteq v.tx.locks
             /\ v.tx.entries = 1 => /\ Undone(v, w) /\ w.tx.stage = "NONE"
                                    /\ w.tx.failed = FALSE /\ w.tx.locks = {}
                                    /\ w.tx.outcome = "aborted"
             /\ v.tx.entries > 1 => /\ w.tx.stage = "ONABORT" /\ w.tx.failed = TRUE
                                    /\ w.tx.locks = v.tx.locks
             /\ v.tx.entries = 2 => Undone(v, w) /\ w.tx.outcome = "aborted"
             /\ v.tx.entries > 2 => Same(v, w) /\ w.tx.outcome = v.tx.outcome
<1> DEFINE c == TxAbort(v)
           w == TxEnd(c)
<1>1. /\ c \in Views /\ c.misuse = v.misuse
      /\ c.tx.stage = "ONABORT" /\ c.tx.failed = TRUE
      /\ c.tx.entries = v.tx.entries /\ c.tx.locks = v.tx.locks
      /\ v.tx.entries > 1 => Same(v, c) /\ c.tx.outcome = v.tx.outcome
      /\ ~(v.tx.entries > 1) => Undone(v, c) /\ c.tx.outcome = "aborted"
  BY AbortResult
<1>2. v.tx.entries \in Nat
  BY DEF Views, TxRecs
<1> HIDE DEF c
<1>3. CASE v.tx.entries = 1
  <2>1. /\ w \in Views /\ w.misuse = c.misuse /\ w.pm = c.pm /\ Emptied(w)
        /\ w.tx.stage = "NONE" /\ w.tx.failed = FALSE /\ w.tx.entries = 0
        /\ w.tx.locks = {} /\ w.tx.outcome = c.tx.outcome
    BY <1>1, <1>3, EndOutermost
  <2> HIDE DEF w
  <2>2. Undone(v, w)
    BY <1>1, <1>3, <2>1 DEF Undone
  <2> QED BY <1>1, <1>3, <2>1, <2>2 DEF c, w
<1>4. CASE v.tx.entries > 1
  <2>1. /\ w \in Views /\ w.misuse = c.misuse
        /\ w.tx.entries = c.tx.entries - 1 /\ w.tx.locks = c.tx.locks
        /\ w.tx.stage = "ONABORT" /\ w.tx.failed = TRUE
        /\ c.tx.entries > 2 => Same(c, w) /\ w.tx.outcome = c.tx.outcome
        /\ ~(c.tx.entries > 2) => Undone(c, w) /\ w.tx.outcome = "aborted"
    BY <1>1, <1>4, EndNested
  <2> HIDE DEF w
  <2>2. v.tx.entries > 2 => Same(v, w)
    BY <1>1, <1>4, <2>1 DEF Same
  <2>3. v.tx.entries = 2 => Undone(v, w)
    BY <1>1, <1>4, <2>1 DEF Same, Undone
  <2> QED BY <1>1, <1>2, <1>4, <2>1, <2>2, <2>3 DEF c, w
<1>5. v.tx.entries = 1 \/ v.tx.entries > 1
  BY <1>2
<1> QED BY <1>3, <1>4, <1>5, Zenon

LEMMA JustEnd ==
  ASSUME NEW v \in Views, v.tx.stage # "WORK", v.tx.entries >= 1,
         v.tx.entries = 1 => Emptied(v)
  PROVE  LET w == TxEnd(v)
         IN  /\ w \in Views /\ w.misuse = v.misuse /\ w.tx.entries = v.tx.entries - 1
             /\ w.tx.locks \subseteq v.tx.locks
             /\ v.tx.entries = 1 => /\ Same(v, w) /\ w.tx.stage = "NONE"
                                    /\ w.tx.failed = FALSE /\ w.tx.locks = {}
                                    /\ w.tx.outcome = v.tx.outcome
             /\ v.tx.entries > 1 => w.tx.locks = v.tx.locks
             /\ (v.tx.entries > 1 /\ v.tx.failed = FALSE) =>
                   /\ Same(v, w) /\ w.tx.stage = "WORK" /\ w.tx.failed = FALSE
                   /\ w.tx.outcome = v.tx.outcome
             /\ (v.tx.entries > 1 /\ v.tx.failed = TRUE) =>
                   /\ w.tx.stage = "ONABORT" /\ w.tx.failed = TRUE
                   /\ v.tx.entries = 2 => Undone(v, w) /\ w.tx.outcome = "aborted"
                   /\ v.tx.entries > 2 => Same(v, w) /\ w.tx.outcome = v.tx.outcome
<1> DEFINE w == TxEnd(v)
<1>1. v.tx.entries \in Nat
  BY DEF Views, TxRecs
<1>2. CASE v.tx.entries = 1
  <2>1. /\ w \in Views /\ w.misuse = v.misuse /\ w.pm = v.pm /\ Emptied(w)
        /\ w.tx.stage = "NONE" /\ w.tx.failed = FALSE /\ w.tx.entries = 0
        /\ w.tx.locks = {} /\ w.tx.outcome = v.tx.outcome
    BY <1>2, EndOutermost
  <2> HIDE DEF w
  <2>2. Same(v, w)
    BY <1>2, <2>1 DEF Same, Emptied
  <2> QED BY <1>2, <2>1, <2>2 DEF w
<1>3. CASE v.tx.entries > 1
  <2>1. /\ w \in Views /\ w.misuse = v.misuse
        /\ w.tx.entries = v.tx.entries - 1 /\ w.tx.locks = v.tx.locks
        /\ v.tx.failed = FALSE => /\ w.tx.stage = "WORK" /\ w.tx.failed = FALSE
                                  /\ Same(v, w) /\ w.tx.outcome = v.tx.outcome
        /\ v.tx.failed = TRUE =>
             /\ w.tx.stage = "ONABORT" /\ w.tx.failed = TRUE
             /\ v.tx.entries > 2 => Same(v, w) /\ w.tx.outcome = v.tx.outcome
             /\ ~(v.tx.entries > 2) => Undone(v, w) /\ w.tx.outcome = "aborted"
    BY <1>3, EndNested
  <2> HIDE DEF w
  <2> QED BY <1>1, <1>3, <2>1 DEF w
<1>4. v.tx.entries = 1 \/ v.tx.entries > 1
  BY <1>1
<1> QED BY <1>2, <1>3, <1>4, Zenon

-----------------------------------------------------------------------------
(* The invariant.                                                          *)

Excs == {"none", "abort", "error"}
Lefts == [kind : Kinds, by : {"none", "return", "throw"}]

TxType == pm \in Pools /\ misuse \in SUBSET Calls /\ tx \in [Threads -> TxRecs]
LayerType ==
  /\ scopes \in [Threads -> Seq(Kinds)] /\ adding \in [Threads -> Seq(Locks)]
  /\ exc \in [Threads -> Excs] /\ left \in [Threads -> Lefts]
  /\ leaked \subseteq Threads /\ byHand \subseteq Threads
  /\ \A t \in Threads : Len(scopes[t]) <= MaxDepth

(* The library counts the scopes of the layer, and after a leak one more   *)
(* than there are: that transaction has failed, and nothing ends it.       *)
Matches(t) ==
  /\ t \notin leaked => /\ tx[t].entries = Len(scopes[t])
                        /\ tx[t].stage = "NONE" <=> scopes[t] = <<>>
  /\ t \in leaked => /\ tx[t].stage = "ONABORT" /\ adding[t] = <<>>
                     /\ \/ tx[t].entries = 0 /\ scopes[t] = <<>>
                        \/ tx[t].entries = Len(scopes[t]) + 1

Failed(t) ==
  /\ tx[t].failed = TRUE => tx[t].stage = "ONABORT"
  /\ tx[t].stage = "ONABORT" => (tx[t].failed = TRUE \/ tx[t].entries = 0)

(* A transaction that is over has nothing left to undo. *)
Finished(t) ==
  /\ tx[t].stage = "NONE" => tx[t].locks = {}
  /\ (tx[t].stage # "WORK" /\ tx[t].entries <= 1)
       => (tx[t].undo = NoUndo /\ tx[t].allocs = {} /\ tx[t].frees = {})

OutcomeKnown(t) ==
  /\ (tx[t].stage = "WORK" \/ tx[t].entries > 1) => tx[t].outcome = "none"
  /\ (tx[t].stage = "ONABORT" /\ tx[t].entries = 1) => tx[t].outcome = "aborted"
  /\ (tx[t].stage = "ONCOMMIT" /\ tx[t].entries = 1) => tx[t].outcome = "committed"
  /\ tx[t].stage = "ONCOMMIT" => t \in byHand

Layer(t) ==
  /\ adding[t] # <<>> => (tx[t].stage = "WORK" /\ exc[t] = "none")
  /\ exc[t] = "abort" => tx[t].stage \in {"ONABORT", "NONE"}

LeftTells(t) ==
  /\ scopes[t] # <<>> => left[t].by = "none"
  /\ scopes[t] = <<>> =>
    /\ (left[t].by = "return" /\ left[t].kind # "manual") => tx[t].outcome = "committed"
    /\ (left[t].by = "throw" /\ t \notin byHand) => tx[t].outcome # "committed"

GuardedUndo(t) == \A c \in DOMAIN tx[t].undo : guard[c] \in tx[t].locks

ThreadOK(t) ==
  /\ Matches(t) /\ Failed(t) /\ Finished(t) /\ OutcomeKnown(t) /\ Layer(t)
  /\ LeftTells(t) /\ GuardedUndo(t)

(* No two transactions have a lock, a new object or a deleted one in common. *)
Disjoint ==
  /\ \A t \in Threads : tx[t].allocs \intersect pm.heap = {} /\ tx[t].frees \subseteq pm.heap
  /\ \A t, u \in Threads : t # u =>
       /\ tx[t].locks \intersect tx[u].locks = {}
       /\ tx[t].allocs \intersect tx[u].allocs = {}
       /\ tx[t].frees \intersect tx[u].frees = {}

IInv ==
  /\ TxType /\ LayerType /\ Disjoint /\ ScopesRespectStages
  /\ \A t \in Threads : ThreadOK(t)

(* What a step of one thread leaves alone in the others. *)
OthersKept(t) ==
  \A u \in Threads \ {t} :
    /\ tx'[u] = tx[u] /\ scopes'[u] = scopes[u] /\ adding'[u] = adding[u]
    /\ exc'[u] = exc[u] /\ left'[u] = left[u]
    /\ u \in leaked' <=> u \in leaked
    /\ u \in byHand' <=> u \in byHand

(* A step that ends or suspends what a thread does, or goes on with it. *)
Ends(t, w) ==
  /\ w \in Views /\ Becomes(t, w) /\ w.misuse = misuse
  /\ w.tx.locks \subseteq tx[t].locks
  /\ \/ Same(View(t), w)
     \/ Undone(View(t), w) /\ w.tx.stage # "WORK"
     \/ Done(View(t), w) /\ tx[t].stage = "WORK" /\ w.tx.stage # "WORK"

LEMMA ViewType ==
  ASSUME TxType, NEW t \in Threads
  PROVE  /\ View(t) \in Views /\ View(t).tx = tx[t] /\ View(t).pm = pm
         /\ View(t).misuse = misuse
BY DEF TxType, View, Views

LEMMA OthersOK ==
  ASSUME IInv, NEW t \in Threads, OthersKept(t), ThreadOK(t)'
  PROVE  \A u \in Threads : ThreadOK(u)'
<1>1. SUFFICES ASSUME NEW u \in Threads, u # t PROVE ThreadOK(u)'
  BY <1>1
<1>2. ThreadOK(u)
  BY DEF IInv
<1>3. /\ tx'[u] = tx[u] /\ scopes'[u] = scopes[u] /\ adding'[u] = adding[u]
      /\ exc'[u] = exc[u] /\ left'[u] = left[u]
      /\ u \in leaked' <=> u \in leaked
      /\ u \in byHand' <=> u \in byHand
  BY <1>1 DEF OthersKept
<1>4. Matches(u)' /\ Failed(u)' /\ Finished(u)'
  BY <1>2, <1>3 DEF ThreadOK, Matches, Failed, Finished
<1>5. OutcomeKnown(u)' /\ Layer(u)' /\ LeftTells(u)' /\ GuardedUndo(u)'
  BY <1>2, <1>3 DEF ThreadOK, OutcomeKnown, Layer, LeftTells, GuardedUndo
<1> QED BY <1>4, <1>5 DEF ThreadOK

(* The library's side of the invariant, after such a step. *)
LEMMA EndsStep ==
  ASSUME IInv, NEW t \in Threads, NEW w, Ends(t, w), OthersKept(t), LayerType',
         ThreadOK(t)'
  PROVE  IInv'
<1>1. tx'[t] = w.tx /\ pm' = w.pm /\ misuse' = misuse /\ \A u \in Threads \ {t} : tx'[u] = tx[u]
  BY DEF Ends, Becomes, IInv, TxType
<1>2. TxType'
  BY DEF Ends, Becomes, IInv, TxType, Views
<1>3. View(t).tx = tx[t] /\ View(t).pm = pm
  BY ViewType DEF IInv
<1>4. Disjoint'
  <2>1. CASE Same(View(t), w)
    BY <1>1, <1>3, <2>1 DEF Same, Ends, IInv, Disjoint
  <2>2. CASE Undone(View(t), w)
    BY <1>1, <1>3, <2>2 DEF Undone, Emptied, Ends, IInv, Disjoint
  <2>3. CASE Done(View(t), w)
    <3>1. w.tx.allocs = {} /\ w.tx.frees = {} /\ w.tx.locks \subseteq tx[t].locks
          /\ pm'.heap = (pm.heap \union tx[t].allocs) \ tx[t].frees
      BY <1>1, <1>3, <2>3 DEF Done, Emptied, Ends
    <3>2. \A u \in Threads : tx'[u].allocs \intersect pm'.heap = {}
                             /\ tx'[u].frees \subseteq pm'.heap
      BY <1>1, <3>1 DEF IInv, Disjoint
    <3>3. \A u, r \in Threads : u # r =>
            /\ tx'[u].locks \intersect tx'[r].locks = {}
            /\ tx'[u].allocs \intersect tx'[r].allocs = {}
            /\ tx'[u].frees \intersect tx'[r].frees = {}
      BY <1>1, <3>1 DEF IInv, Disjoint
    <3> QED BY <3>2, <3>3 DEF Disjoint
  <2> QED BY <2>1, <2>2, <2>3 DEF Ends
<1>5. ScopesRespectStages'
  BY <1>1 DEF IInv, ScopesRespectStages
<1> QED BY <1>2, <1>4, <1>5, OthersOK DEF IInv

-----------------------------------------------------------------------------
(* The end of a scope.                                                     *)

(* A sequence without its last element. *)
LEMMA WithoutLast ==
  ASSUME NEW S, NEW q \in Seq(S), q # <<>>
  PROVE  LET r == SubSeq(q, 1, Len(q) - 1)
         IN  r \in Seq(S) /\ Len(r) = Len(q) - 1 /\ (r = <<>> <=> Len(r) = 0)
<1>1. SubSeq(q, 1, Len(q) - 1) \in Seq(S) /\ Len(SubSeq(q, 1, Len(q) - 1)) = Len(q) - 1
  OBVIOUS
<1>2. ASSUME NEW r \in Seq(S) PROVE r = <<>> <=> Len(r) = 0
  OBVIOUS
<1> QED BY <1>1, <1>2

LEMMA PoppedIs ==
  ASSUME NEW t \in Threads, scopes \in [Threads -> Seq(Kinds)], scopes[t] # <<>>
  PROVE  /\ Popped(t) \in Seq(Kinds) /\ Len(Popped(t)) = Len(scopes[t]) - 1
         /\ Len(scopes[t]) \in Nat /\ Len(scopes[t]) >= 1
         /\ Popped(t) = <<>> <=> Len(scopes[t]) = 1
         /\ Inner(t) \in Kinds
<1>1. scopes[t] \in Seq(Kinds)
  OBVIOUS
<1>2. Len(scopes[t]) \in Nat /\ Len(scopes[t]) >= 1
  BY <1>1
<1>3. Popped(t) \in Seq(Kinds) /\ Len(Popped(t)) = Len(scopes[t]) - 1
  BY <1>1, WithoutLast DEF Popped
<1>4. Popped(t) = <<>> <=> Len(Popped(t)) = 0
  BY <1>1, WithoutLast DEF Popped
<1>5. Inner(t) \in Kinds
  BY <1>1, <1>2 DEF Inner
<1> QED BY <1>2, <1>3, <1>4, <1>5

(* In a scope the library counts at least one transaction, and is in one   *)
(* of three stages.                                                        *)
LEMMA InScope ==
  ASSUME IInv, NEW t \in Threads, scopes[t] # <<>>
  PROVE  /\ tx[t].entries \in Nat /\ tx[t].entries >= 1
         /\ tx[t].stage \in {"WORK", "ONCOMMIT", "ONABORT"}
         /\ tx[t].stage # "ONABORT" => tx[t].failed = FALSE /\ t \notin leaked
         /\ tx[t].stage = "ONABORT" => tx[t].failed = TRUE
         /\ t \notin leaked => tx[t].entries = Len(scopes[t])
         /\ t \in leaked => tx[t].entries = Len(scopes[t]) + 1
<1>1. tx[t] \in TxRecs /\ scopes \in [Threads -> Seq(Kinds)] /\ ThreadOK(t)
  BY DEF IInv, TxType, LayerType
<1>2. tx[t].entries \in Nat /\ tx[t].stage \in Stages
  BY <1>1 DEF TxRecs
<1>3. tx[t].failed = TRUE \/ tx[t].failed = FALSE
  BY <1>1 DEF TxRecs
<1>4. Len(scopes[t]) \in Nat /\ Len(scopes[t]) >= 1
  BY <1>1, PoppedIs
<1>5. /\ t \notin leaked => tx[t].entries = Len(scopes[t]) /\ tx[t].stage # "NONE"
      /\ t \in leaked => tx[t].entries = Len(scopes[t]) + 1 /\ tx[t].stage = "ONABORT"
  BY <1>1 DEF ThreadOK, Matches
<1>6. tx[t].entries >= 1
  BY <1>2, <1>4, <1>5
<1>7. tx[t].stage \in {"WORK", "ONCOMMIT", "ONABORT"}
  BY <1>2, <1>5 DEF Stages
<1>8. /\ tx[t].stage # "ONABORT" => tx[t].failed = FALSE
      /\ tx[t].stage = "ONABORT" => tx[t].failed = TRUE
  BY <1>1, <1>3, <1>6 DEF ThreadOK, Failed
<1> QED BY <1>2, <1>5, <1>6, <1>7, <1>8

(* The ways in which the library is left at the end of a scope. *)
EndsWith(t, v) ==
  \/ tx[t].stage = "WORK" /\ v = TxEnd(TxCommit(View(t)))
  \/ tx[t].stage = "WORK" /\ v = TxEnd(TxAbort(View(t)))
  \/ tx[t].stage # "WORK" /\ v = TxEnd(View(t))

(* What they have in common. *)
LEMMA EndsWithResult ==
  ASSUME IInv, NEW t \in Threads, scopes[t] # <<>>, NEW v, EndsWith(t, v)
  PROVE  /\ v \in Views /\ v.misuse = misuse /\ v.tx.locks \subseteq tx[t].locks
         /\ v.tx.entries = tx[t].entries - 1
         /\ \/ Same(View(t), v)
            \/ Undone(View(t), v) /\ v.tx.stage # "WORK"
            \/ Done(View(t), v) /\ tx[t].stage = "WORK" /\ v.tx.stage # "WORK"
         /\ tx[t].entries = 1 =>
              /\ v.tx.stage = "NONE" /\ v.tx.failed = FALSE /\ v.tx.locks = {} /\ Emptied(v)
              /\ tx[t].stage # "WORK" => v.tx.outcome = tx[t].outcome
         /\ tx[t].entries > 1 =>
              /\ v.tx.locks = tx[t].locks
              /\ \/ v.tx.stage = "WORK" /\ v.tx.failed = FALSE /\ v.tx.outcome = "none"
                    /\ Same(View(t), v)
                 \/ v.tx.stage = "ONABORT" /\ v.tx.failed = TRUE
                    /\ (tx[t].entries = 2 => v.tx.outcome = "aborted" /\ Emptied(v))
                    /\ (tx[t].entries > 2 => v.tx.outcome = "none" /\ Same(View(t), v))
              /\ tx[t].stage = "ONABORT" => v.tx.stage = "ONABORT"
<1> DEFINE b == View(t)
<1>1. b \in Views /\ b.tx = tx[t] /\ b.pm = pm /\ b.misuse = misuse
  BY ViewType DEF IInv
<1>2. /\ tx[t].entries \in Nat /\ tx[t].entries >= 1
      /\ tx[t].stage \in {"WORK", "ONCOMMIT", "ONABORT"}
      /\ tx[t].stage # "ONABORT" => tx[t].failed = FALSE /\ t \notin leaked
      /\ tx[t].stage = "ONABORT" => tx[t].failed = TRUE
  BY InScope
<1>3. ThreadOK(t)
  BY DEF IInv
<1>4. /\ (tx[t].stage # "WORK" /\ tx[t].entries <= 1) => Emptied(b)
      /\ (tx[t].stage = "WORK" \/ tx[t].entries > 1) => tx[t].outcome = "none"
  BY <1>1, <1>3 DEF ThreadOK, Finished, OutcomeKnown, Emptied
<1> HIDE DEF b
<1>5. CASE tx[t].stage = "WORK" /\ v = TxEnd(TxCommit(b))
  <2>1. /\ v \in Views /\ v.misuse = b.misuse /\ v.tx.entries = b.tx.entries - 1
        /\ v.tx.failed = FALSE /\ v.tx.locks \subseteq b.tx.locks
        /\ b.tx.entries = 1 => /\ Done(b, v) /\ v.tx.stage = "NONE"
                               /\ v.tx.locks = {} /\ v.tx.outcome = "committed"
        /\ b.tx.entries > 1 => /\ Same(b, v) /\ v.tx.stage = "WORK"
                               /\ v.tx.locks = b.tx.locks
                               /\ v.tx.outcome = b.tx.outcome
    <3>1. b.tx.stage = "WORK" /\ b.tx.failed = FALSE /\ b.tx.entries >= 1
      BY <1>1, <1>2, <1>5
    <3> QED BY <1>1, <1>5, <3>1, CommitAndEnd
  <2>2. tx[t].entries = 1 \/ tx[t].entries > 1
    BY <1>2
  <2> QED BY <1>1, <1>4, <1>5, <2>1, <2>2 DEF Done, b
<1>6. CASE tx[t].stage = "WORK" /\ v = TxEnd(TxAbort(b))
  <2>1. /\ v \in Views /\ v.misuse = b.misuse /\ v.tx.entries = b.tx.entries - 1
        /\ v.tx.locks \subseteq b.tx.locks
        /\ b.tx.entries = 1 => /\ Undone(b, v) /\ v.tx.stage = "NONE"
                               /\ v.tx.failed = FALSE /\ v.tx.locks = {}
                               /\ v.tx.outcome = "aborted"
        /\ b.tx.entries > 1 => /\ v.tx.stage = "ONABORT" /\ v.tx.failed = TRUE
                               /\ v.tx.locks = b.tx.locks
        /\ b.tx.entries = 2 => Undone(b, v) /\ v.tx.outcome = "aborted"
        /\ b.tx.entries > 2 => Same(b, v) /\ v.tx.outcome = b.tx.outcome
    <3>1. b.tx.stage = "WORK" /\ b.tx.entries >= 1
      BY <1>1, <1>2, <1>6
    <3> QED BY <1>1, <1>6, <3>1, AbortAndEnd
  <2>2. tx[t].entries = 1 \/ tx[t].entries = 2 \/ tx[t].entries > 2
    BY <1>2
  <2> QED BY <1>1, <1>4, <1>6, <2>1, <2>2 DEF Undone, b
<1>7. CASE tx[t].stage # "WORK" /\ v = TxEnd(b)
  <2>1. /\ v \in Views /\ v.misuse = b.misuse /\ v.tx.entries = b.tx.entries - 1
        /\ v.tx.locks \subseteq b.tx.locks
        /\ b.tx.entries = 1 => /\ Same(b, v) /\ v.tx.stage = "NONE"
                               /\ v.tx.failed = FALSE /\ v.tx.locks = {}
                               /\ v.tx.outcome = b.tx.outcome
        /\ b.tx.entries > 1 => v.tx.locks = b.tx.locks
        /\ (b.tx.entries > 1 /\ b.tx.failed = FALSE) =>
              /\ Same(b, v) /\ v.tx.stage = "WORK" /\ v.tx.failed = FALSE
              /\ v.tx.outcome = b.tx.outcome
        /\ (b.tx.entries > 1 /\ b.tx.failed = TRUE) =>
              /\ v.tx.stage = "ONABORT" /\ v.tx.failed = TRUE
              /\ b.tx.entries = 2 => Undone(b, v) /\ v.tx.outcome = "aborted"
              /\ b.tx.entries > 2 => Same(b, v) /\ v.tx.outcome = b.tx.outcome
    <3>1. /\ b.tx.stage # "WORK" /\ b.tx.entries >= 1
          /\ b.tx.entries = 1 => Emptied(b)
      BY <1>1, <1>2, <1>4, <1>7
    <3> QED BY <1>1, <1>7, <3>1, JustEnd
  <2>2. tx[t].entries = 1 \/ tx[t].entries = 2 \/ tx[t].entries > 2
    BY <1>2
  <2>3. tx[t].entries = 1 => Emptied(v)
    BY <1>1, <1>4, <1>7, <2>1 DEF Same, Emptied
  <2> QED BY <1>1, <1>2, <1>4, <1>7, <2>1, <2>2, <2>3 DEF Undone, b
<1> QED BY <1>5, <1>6, <1>7 DEF EndsWith, b

LEMMA OutcomeOfEnd ==
  ASSUME IInv, NEW t \in Threads, scopes[t] # <<>>, tx[t].stage = "WORK",
         Len(scopes[t]) = 1
  PROVE  /\ TxEnd(TxCommit(View(t))).tx.outcome = "committed"
         /\ TxEnd(TxAbort(View(t))).tx.outcome = "aborted"
<1>1. View(t) \in Views /\ View(t).tx = tx[t]
  BY ViewType DEF IInv
<1>2. tx[t].entries = 1 /\ tx[t].failed = FALSE
  BY InScope
<1> DEFINE b == View(t)
<1>3. b \in Views /\ b.tx.stage = "WORK" /\ b.tx.failed = FALSE /\ b.tx.entries = 1
      /\ b.tx.entries >= 1
  BY <1>1, <1>2
<1> HIDE DEF b
<1>4. TxEnd(TxCommit(b)).tx.outcome = "committed"
  BY <1>3, CommitAndEnd
<1>5. TxEnd(TxAbort(b)).tx.outcome = "aborted"
  BY <1>3, AbortAndEnd
<1> QED BY <1>4, <1>5 DEF b

(* The innermost scope is gone, however it is recorded. *)
LEMMA PopStep ==
  ASSUME IInv, NEW t \in Threads, NEW v, NEW e \in Excs, EndsWith(t, v),
         scopes[t] # <<>>, e = "abort" => tx[t].stage = "ONABORT",
         Becomes(t, v), Throws(t, e), scopes' = [scopes EXCEPT ![t] = Popped(t)],
         adding' = [adding EXCEPT ![t] = <<>>], UNCHANGED <<leaked, byHand>>,
         left' \in [Threads -> Lefts], \A u \in Threads \ {t} : left'[u] = left[u],
         LeftTells(t)'
  PROVE  IInv' /\ Ends(t, v)
<1> DEFINE n == Len(scopes[t])
<1>1. scopes[t] # <<>> /\ Becomes(t, v) /\ Throws(t, e)
      /\ scopes' = [scopes EXCEPT ![t] = Popped(t)] /\ UNCHANGED <<leaked, byHand>>
  OBVIOUS
<1>2. TxType /\ LayerType /\ ThreadOK(t) /\ tx \in [Threads -> TxRecs]
  BY DEF IInv, TxType
<1>3. /\ Popped(t) \in Seq(Kinds) /\ Len(Popped(t)) = n - 1 /\ n \in Nat /\ n >= 1
      /\ Popped(t) = <<>> <=> n = 1
      /\ Inner(t) \in Kinds
  BY <1>1, <1>2, PoppedIs DEF LayerType
<1>4. /\ tx[t].entries \in Nat /\ tx[t].entries >= 1
      /\ tx[t].stage # "ONABORT" => t \notin leaked
      /\ t \notin leaked => tx[t].entries = n
      /\ t \in leaked => tx[t].entries = n + 1
  BY <1>1, InScope
<1>5. /\ v \in Views /\ v.misuse = misuse /\ v.tx.locks \subseteq tx[t].locks
      /\ v.tx.entries = tx[t].entries - 1
      /\ \/ Same(View(t), v)
         \/ Undone(View(t), v) /\ v.tx.stage # "WORK"
         \/ Done(View(t), v) /\ tx[t].stage = "WORK" /\ v.tx.stage # "WORK"
  BY <1>1, EndsWithResult
<1>6. tx[t].entries = 1 =>
        v.tx.stage = "NONE" /\ v.tx.failed = FALSE /\ v.tx.locks = {} /\ Emptied(v)
  BY <1>1, EndsWithResult
<1>7. tx[t].entries > 1 =>
        /\ v.tx.locks = tx[t].locks
        /\ \/ v.tx.stage = "WORK" /\ v.tx.failed = FALSE /\ v.tx.outcome = "none"
              /\ Same(View(t), v)
           \/ v.tx.stage = "ONABORT" /\ v.tx.failed = TRUE
              /\ (tx[t].entries = 2 => v.tx.outcome = "aborted" /\ Emptied(v))
              /\ (tx[t].entries > 2 => v.tx.outcome = "none" /\ Same(View(t), v))
        /\ tx[t].stage = "ONABORT" => v.tx.stage = "ONABORT"
  BY <1>1, EndsWithResult
<1>8. /\ tx'[t] = v.tx /\ scopes'[t] = Popped(t) /\ adding'[t] = <<>> /\ exc'[t] = e
      /\ leaked' = leaked /\ byHand' = byHand
  BY <1>1, <1>2, <1>3 DEF Becomes, Throws, LayerType
<1>9. View(t).tx = tx[t]
  BY <1>2, ViewType
<1> HIDE DEF n
<1>10. tx[t].entries = 1 \/ tx[t].entries = 2 \/ tx[t].entries > 2
  BY <1>4
<1>11. Matches(t)'
  <2>1. CASE t \notin leaked
    BY <2>1, <1>3, <1>4, <1>5, <1>6, <1>7, <1>8 DEF Matches
  <2>2. CASE t \in leaked
    BY <2>2, <1>2, <1>3, <1>4, <1>5, <1>7, <1>8 DEF Matches, ThreadOK
  <2> QED BY <2>1, <2>2
<1>12. Failed(t)'
  BY <1>4, <1>6, <1>7, <1>8, <1>10 DEF Failed
<1>13. Finished(t)' /\ OutcomeKnown(t)'
  <2>1. CASE tx[t].entries = 1
    BY <2>1, <1>4, <1>5, <1>6, <1>8 DEF Finished, OutcomeKnown, Emptied
  <2>2. CASE tx[t].entries = 2
    BY <2>2, <1>4, <1>5, <1>7, <1>8 DEF Finished, OutcomeKnown, Emptied
  <2>3. CASE tx[t].entries > 2
    BY <2>3, <1>4, <1>5, <1>7, <1>8 DEF Finished, OutcomeKnown
  <2> QED BY <1>10, <2>1, <2>2, <2>3
<1>14. Layer(t)'
  <2>1. e = "abort" => v.tx.stage \in {"ONABORT", "NONE"}
    BY <1>4, <1>6, <1>7, <1>10
  <2> QED BY <1>8, <2>1 DEF Layer
<1>15. LeftTells(t)'
  OBVIOUS
<1>16. GuardedUndo(t)'
  <2>1. CASE Emptied(v)
    BY <2>1, <1>8, NoUndoType DEF GuardedUndo, Emptied
  <2>2. CASE Same(View(t), v) /\ v.tx.locks = tx[t].locks
    BY <2>2, <1>2, <1>8, <1>9 DEF GuardedUndo, Same, ThreadOK
  <2>3. Emptied(v) \/ (Same(View(t), v) /\ v.tx.locks = tx[t].locks)
    BY <1>4, <1>6, <1>7, <1>10
  <2> QED BY <2>1, <2>2, <2>3
<1>17. ThreadOK(t)'
  BY <1>11, <1>12, <1>13, <1>14, <1>15, <1>16 DEF ThreadOK
<1>18. LayerType'
  <2>1. scopes' \in [Threads -> Seq(Kinds)] /\ \A u \in Threads : Len(scopes'[u]) <= MaxDepth
    BY <1>1, <1>2, <1>3, TxAssumption DEF LayerType, n
  <2>2. exc' \in [Threads -> Excs]
    BY <1>1, <1>2 DEF LayerType, Throws
  <2>3. adding' \in [Threads -> Seq(Locks)]
    BY <1>2 DEF LayerType
  <2> QED BY <1>1, <1>2, <2>1, <2>2, <2>3 DEF LayerType
<1>19. OthersKept(t)
  BY <1>1, <1>2 DEF OthersKept, Becomes, Throws, LayerType
<1>20. Ends(t, v)
  BY <1>1, <1>5 DEF Ends
<1> QED BY <1>17, <1>18, <1>19, <1>20, EndsStep

(* A scope is left.  What is left to show is that exceptions and outcomes  *)
(* agree.                                                                  *)
LEMMA LeaveStep ==
  ASSUME IInv, NEW t \in Threads, NEW v, NEW e \in Excs, EndsWith(t, v), Leave(t, v, e),
         e = "abort" => tx[t].stage = "ONABORT",
         (Len(scopes[t]) = 1 /\ e = "none" /\ Inner(t) # "manual")
            => v.tx.outcome = "committed",
         (Len(scopes[t]) = 1 /\ e # "none" /\ t \notin byHand)
            => v.tx.outcome # "committed"
  PROVE  IInv' /\ Ends(t, v)
<1> DEFINE n == Len(scopes[t])
           l == [kind |-> Inner(t), by |-> IF e = "none" THEN "return" ELSE "throw"]
<1>1. LayerType /\ LeftTells(t) /\ tx \in [Threads -> TxRecs]
  BY DEF IInv, TxType, ThreadOK
<1>2. scopes[t] # <<>> /\ adding[t] = <<>> /\ Becomes(t, v) /\ Throws(t, e)
      /\ scopes' = [scopes EXCEPT ![t] = Popped(t)] /\ UNCHANGED <<adding, leaked, byHand>>
  BY DEF Leave
<1>3. adding' = [adding EXCEPT ![t] = <<>>]
  BY <1>1, <1>2 DEF LayerType
<1>4. /\ Popped(t) = <<>> <=> n = 1
      /\ Inner(t) \in Kinds
  BY <1>1, <1>2, PoppedIs DEF LayerType
<1>5. l \in Lefts /\ l.kind = Inner(t) /\ (l.by = "return" <=> e = "none")
      /\ (l.by = "throw" <=> e # "none")
  BY <1>4 DEF Lefts
<1>6. left' = IF n > 1 THEN left ELSE [left EXCEPT ![t] = l]
  BY DEF Leave
<1> HIDE DEF l
<1>7. left' \in [Threads -> Lefts] /\ \A u \in Threads \ {t} : left'[u] = left[u]
  BY <1>1, <1>5, <1>6 DEF LayerType
<1>8. LeftTells(t)'
  <2>1. scopes'[t] = Popped(t) /\ tx'[t] = v.tx /\ byHand' = byHand
    BY <1>1, <1>2 DEF LayerType, Becomes
  <2>2. CASE n > 1
    BY <1>1, <1>2, <1>4, <1>6, <2>1, <2>2 DEF LeftTells
  <2>3. CASE n = 1
    <3>1. left'[t] = l
      BY <1>1, <1>6, <2>3 DEF LayerType
    <3> QED BY <1>4, <1>5, <2>1, <2>3, <3>1 DEF LeftTells
  <2>4. n = 1 \/ n > 1
    <3>1. n \in Nat /\ n >= 1
      BY <1>1, <1>2, PoppedIs DEF LayerType
    <3> HIDE DEF n
    <3> QED BY <3>1
  <2> QED BY <2>2, <2>3, <2>4
<1> QED BY <1>2, <1>3, <1>7, <1>8, PopStep

(* The ends of exec_tx, manual and automatic. *)
ScopeEnds(t) == ExecReturns(t) \/ ExecThrows(t) \/ ManualEnds(t) \/ AutomaticEnds(t)

LEMMA ScopeEndsStep ==
  ASSUME IInv, NEW t \in Threads, ScopeEnds(t)
  PROVE  IInv' /\ \E v : Ends(t, v)
<1> DEFINE b == View(t)
<1>1. scopes[t] # <<>> /\ exc[t] \in Excs /\ ThreadOK(t)
  BY DEF ScopeEnds, ExecReturns, ExecThrows, ManualEnds, AutomaticEnds, IInv, LayerType
<1>2. /\ tx[t].stage \in {"WORK", "ONCOMMIT", "ONABORT"}
      /\ tx[t].stage # "ONABORT" => t \notin leaked
      /\ t \notin leaked => tx[t].entries = Len(scopes[t])
      /\ t \in leaked => tx[t].entries = Len(scopes[t]) + 1
  BY <1>1, InScope
<1>3. /\ tx[t].stage = "ONCOMMIT" => t \in byHand
      /\ (tx[t].stage = "ONCOMMIT" /\ Len(scopes[t]) = 1) => tx[t].outcome = "committed"
  BY <1>1, <1>2 DEF ThreadOK, OutcomeKnown
<1>4. \A v : (EndsWith(t, v) /\ Len(scopes[t]) = 1) =>
        /\ tx[t].stage = "ONCOMMIT" => v.tx.outcome = "committed"
        /\ tx[t].stage = "ONABORT" => v.tx.outcome = "aborted"
  <2>1. SUFFICES ASSUME NEW v, EndsWith(t, v), Len(scopes[t]) = 1
                 PROVE  /\ tx[t].stage = "ONCOMMIT" => v.tx.outcome = "committed"
                        /\ tx[t].stage = "ONABORT" => v.tx.outcome = "aborted"
    BY <2>1
  <2>2. tx[t].entries = 1 /\ tx[t].stage # "WORK" => v.tx.outcome = tx[t].outcome
    BY <1>1, <2>1, EndsWithResult
  <2>3. tx[t].entries = 2 /\ tx[t].stage = "ONABORT" => v.tx.outcome = "aborted"
    <3>1. tx[t].entries > 1 =>
            /\ \/ v.tx.stage = "WORK"
               \/ tx[t].entries = 2 => v.tx.outcome = "aborted"
            /\ tx[t].stage = "ONABORT" => v.tx.stage = "ONABORT"
      BY <1>1, <2>1, EndsWithResult
    <3> QED BY <3>1
  <2> QED BY <1>1, <1>2, <1>3, <2>1, <2>2, <2>3 DEF ThreadOK, OutcomeKnown
<1>5. ASSUME NEW e \in Excs, Leave(t, TxEnd(TxCommit(b)), e), tx[t].stage = "WORK",
             e = "none"
      PROVE  IInv' /\ \E v : Ends(t, v)
  <2> DEFINE v == TxEnd(TxCommit(b))
  <2>1. EndsWith(t, v)
    BY <1>5 DEF EndsWith
  <2>2. Len(scopes[t]) = 1 => v.tx.outcome = "committed"
    BY <1>1, <1>5, OutcomeOfEnd
  <2> HIDE DEF v
  <2>3. IInv' /\ Ends(t, v)
    BY <1>5, <2>1, <2>2, LeaveStep DEF v
  <2> QED BY <2>3
<1>6. ASSUME NEW e \in Excs, Leave(t, TxEnd(TxAbort(b)), e), tx[t].stage = "WORK",
             e # "abort", e # "none" \/ Inner(t) = "manual"
      PROVE  IInv' /\ \E v : Ends(t, v)
  <2> DEFINE v == TxEnd(TxAbort(b))
  <2>1. EndsWith(t, v)
    BY <1>6 DEF EndsWith
  <2>2. Len(scopes[t]) = 1 => v.tx.outcome = "aborted"
    BY <1>1, <1>6, OutcomeOfEnd
  <2> HIDE DEF v
  <2>3. IInv' /\ Ends(t, v)
    BY <1>6, <2>1, <2>2, LeaveStep DEF v
  <2> QED BY <2>3
<1>7. ASSUME NEW e \in Excs, Leave(t, TxEnd(b), e), tx[t].stage # "WORK",
             e = "abort" => tx[t].stage = "ONABORT",
             (tx[t].stage = "ONABORT" /\ Inner(t) # "manual") => e # "none"
      PROVE  IInv' /\ \E v : Ends(t, v)
  <2> DEFINE v == TxEnd(b)
  <2>1. EndsWith(t, v)
    BY <1>7 DEF EndsWith
  <2>2. Len(scopes[t]) = 1 => /\ tx[t].stage = "ONCOMMIT" => v.tx.outcome = "committed"
                              /\ tx[t].stage = "ONABORT" => v.tx.outcome = "aborted"
    BY <1>4, <2>1
  <2> HIDE DEF v
  <2>3. IInv' /\ Ends(t, v)
    <3>1. CASE tx[t].stage = "ONABORT"
      BY <1>7, <2>1, <2>2, <3>1, LeaveStep DEF v
    <3>2. CASE tx[t].stage = "ONCOMMIT"
      BY <1>3, <1>7, <2>1, <2>2, <3>2, LeaveStep DEF v
    <3> QED BY <1>2, <1>7, <3>1, <3>2
  <2> QED BY <2>3
<1>8. exc[t] = "abort" => tx[t].stage = "ONABORT"
  BY <1>1, <1>2 DEF ThreadOK, Layer
<1> HIDE DEF b
<1>9. CASE ExecReturns(t)
  BY <1>9, <1>5, <1>7 DEF ExecReturns, Excs, b
<1>10. CASE ExecThrows(t)
  <2>1. CASE exc[t] = "abort" /\ Leave(t, TxEnd(b), "abort")
    BY <2>1, <1>7, <1>8 DEF Excs
  <2>2. CASE exc[t] = "error" /\ tx[t].stage = "WORK" /\ Leave(t, TxEnd(TxAbort(b)), "error")
    BY <2>2, <1>6 DEF Excs
  <2>3. CASE exc[t] = "error" /\ tx[t].stage # "WORK" /\ Leave(t, TxEnd(b), "error")
    BY <2>3, <1>7 DEF Excs
  <2> QED BY <1>10, <2>1, <2>2, <2>3 DEF ExecThrows, b
<1>11. CASE Leave(t, Unwound(t), exc[t]) /\ (exc[t] # "none" \/ Inner(t) = "manual")
  <2>1. CASE tx[t].stage = "WORK"
    BY <1>1, <1>6, <1>8, <1>11, <2>1 DEF Unwound, b
  <2>2. CASE tx[t].stage # "WORK"
    BY <1>1, <1>7, <1>8, <1>11, <2>2 DEF Unwound, b
  <2> QED BY <2>1, <2>2
<1>12. CASE AutomaticEnds(t) /\ exc[t] = "none"
  BY <1>12, <1>5, <1>7 DEF AutomaticEnds, new_uncaught_exception, Excs, b
<1> QED BY <1>9, <1>10, <1>11, <1>12
        DEF ScopeEnds, ManualEnds, AutomaticEnds, new_uncaught_exception

-----------------------------------------------------------------------------
(* The start of a scope.                                                   *)

(* The library aborts in the middle of a body. *)
LEMMA AbortsStep ==
  ASSUME IInv, NEW t \in Threads, NEW e \in Excs, tx[t].stage = "WORK", adding[t] = <<>>,
         Becomes(t, TxAbort(View(t))), exc' = [exc EXCEPT ![t] = e],
         UNCHANGED <<scopes, adding, leaked, left, byHand>>
  PROVE  IInv' /\ \E v : Ends(t, v)
<1> DEFINE b == View(t)
           w == TxAbort(b)
<1>1. b \in Views /\ b.tx = tx[t] /\ b.pm = pm /\ b.misuse = misuse
  BY ViewType DEF IInv
<1>2. ThreadOK(t) /\ TxType /\ LayerType /\ tx \in [Threads -> TxRecs]
  BY DEF IInv, TxType
<1>3. scopes[t] # <<>> /\ t \notin leaked
  BY <1>2 DEF ThreadOK, Matches
<1>4. tx[t].entries \in Nat /\ tx[t].entries >= 1 /\ tx[t].entries = Len(scopes[t])
  BY <1>3, InScope
<1>5. /\ w \in Views /\ w.misuse = b.misuse
      /\ w.tx.stage = "ONABORT" /\ w.tx.failed = TRUE
      /\ w.tx.entries = b.tx.entries /\ w.tx.locks = b.tx.locks
      /\ b.tx.entries > 1 => Same(b, w) /\ w.tx.outcome = b.tx.outcome
      /\ ~(b.tx.entries > 1) => Undone(b, w) /\ w.tx.outcome = "aborted"
  BY <1>1, AbortResult
<1>6. tx'[t] = w.tx
  BY <1>2 DEF Becomes
<1> HIDE DEF w, b
<1>7. Ends(t, w)
  BY <1>1, <1>5 DEF Ends, w, b
<1>8. ThreadOK(t)'
  <2>1. Matches(t)' /\ Failed(t)'
    BY <1>1, <1>2, <1>3, <1>4, <1>5, <1>6 DEF ThreadOK, Matches, Failed
  <2>2. Finished(t)' /\ OutcomeKnown(t)'
    BY <1>1, <1>2, <1>4, <1>5, <1>6
       DEF ThreadOK, Finished, OutcomeKnown, Undone, Emptied
  <2>3. Layer(t)' /\ LeftTells(t)'
    BY <1>2, <1>3, <1>5, <1>6 DEF ThreadOK, Layer, LeftTells
  <2>4. GuardedUndo(t)'
    <3>1. CASE tx[t].entries > 1
      BY <1>1, <1>2, <1>5, <1>6, <3>1 DEF ThreadOK, GuardedUndo, Same
    <3>2. CASE ~(tx[t].entries > 1)
      BY <1>1, <1>5, <1>6, <3>2, NoUndoType DEF GuardedUndo, Undone, Emptied
    <3> QED BY <3>1, <3>2
  <2> QED BY <2>1, <2>2, <2>3, <2>4 DEF ThreadOK
<1>9. LayerType'
  BY <1>2 DEF LayerType
<1>10. OthersKept(t)
  BY <1>2 DEF OthersKept, Becomes, LayerType
<1> QED BY <1>7, <1>8, <1>9, <1>10, EndsStep

LEMMA BeginsStep ==
  ASSUME IInv, NEW t \in Threads, NEW kind \in Kinds, NEW locks \in Seq(Locks),
         Begins(t, kind, locks)
  PROVE  IInv' /\ \E v : Ends(t, v)
<1> DEFINE b == View(t)
           w == TxBegin(b)
           n == Len(scopes[t])
<1>1. b \in Views /\ b.tx = tx[t] /\ b.pm = pm /\ b.misuse = misuse
  BY ViewType DEF IInv
<1>2. ThreadOK(t) /\ TxType /\ LayerType /\ tx \in [Threads -> TxRecs]
  BY DEF IInv, TxType
<1>3. tx[t].stage \in {"NONE", "WORK"} /\ t \notin leaked /\ exc[t] = "none"
      /\ tx[t].entries = n /\ (tx[t].stage = "NONE" <=> scopes[t] = <<>>)
      /\ n \in Nat /\ n < MaxDepth
  BY <1>2 DEF Begins, InBody, ThreadOK, Matches, LayerType
<1>4. tx[t].stage = "NONE" => Emptied(b) /\ n = 0
  <2>1. scopes[t] = <<>> => n = 0
    OBVIOUS
  <2> QED BY <1>1, <1>2, <1>3, <2>1 DEF ThreadOK, Finished, Emptied
<1>5. /\ w \in Views /\ w.misuse = b.misuse /\ Same(b, w)
      /\ w.tx.stage = (IF b.tx.stage = "NONE" THEN "WORK" ELSE b.tx.stage)
      /\ w.tx.failed = FALSE
      /\ b.tx.stage = "NONE" => w.tx.entries = 1 /\ w.tx.locks = {}
                                /\ w.tx.outcome = "none"
      /\ b.tx.stage # "NONE" => w.tx.entries = b.tx.entries + 1
                                /\ w.tx.locks = b.tx.locks
                                /\ w.tx.outcome = b.tx.outcome
  BY <1>1, <1>4, BeginResult
<1>6. tx'[t] = w.tx
  BY <1>2 DEF Begins, Becomes
<1> HIDE DEF w, b
<1>7. /\ scopes'[t] \in Seq(Kinds) /\ Len(scopes'[t]) = n + 1 /\ scopes'[t] # <<>>
      /\ \A u \in Threads \ {t} : scopes'[u] = scopes[u]
      /\ scopes' \in [Threads -> Seq(Kinds)]
  <2>1. scopes[t] \in Seq(Kinds)
    BY <1>2 DEF LayerType
  <2>2. Append(scopes[t], kind) \in Seq(Kinds) /\ Len(Append(scopes[t], kind)) = n + 1
        /\ Append(scopes[t], kind) # <<>>
    BY <2>1
  <2>3. scopes' = [scopes EXCEPT ![t] = Append(scopes[t], kind)]
    BY <1>2 DEF Begins, LayerType
  <2> QED BY <1>2, <2>2, <2>3 DEF LayerType
<1>8. /\ left' \in [Threads -> Lefts] /\ left'[t].by = "none" /\ byHand' \subseteq byHand
      /\ \A u \in Threads \ {t} : left'[u] = left[u] /\ (u \in byHand' <=> u \in byHand)
  <2>1. NotLeft \in Lefts /\ NotLeft.by = "none"
    BY DEF NotLeft, Lefts, Kinds
  <2>2. CASE scopes[t] = <<>>
    BY <1>2, <2>1, <2>2 DEF Begins, LayerType
  <2>3. CASE scopes[t] # <<>>
    BY <1>2, <2>3 DEF Begins, LayerType, ThreadOK, LeftTells
  <2> QED BY <2>2, <2>3
<1> HIDE DEF n
<1>9. Ends(t, w)
  BY <1>1, <1>3, <1>5 DEF Ends, Begins, w, b
<1>10. ThreadOK(t)'
  <2>1. Matches(t)' /\ Failed(t)'
    BY <1>1, <1>3, <1>4, <1>5, <1>6, <1>7 DEF Begins, Matches, Failed
  <2>2. Finished(t)' /\ OutcomeKnown(t)'
    BY <1>1, <1>2, <1>3, <1>5, <1>6 DEF ThreadOK, Finished, OutcomeKnown
  <2>3. Layer(t)' /\ LeftTells(t)'
    BY <1>1, <1>2, <1>3, <1>5, <1>6, <1>7, <1>8 DEF Begins, Layer, LeftTells
  <2>4. GuardedUndo(t)'
    <3>1. CASE tx[t].stage = "NONE"
      BY <1>1, <1>4, <1>5, <1>6, <3>1, NoUndoType DEF GuardedUndo, Emptied, Same
    <3>2. CASE tx[t].stage # "NONE"
      BY <1>1, <1>2, <1>5, <1>6, <3>2 DEF ThreadOK, GuardedUndo, Same
    <3> QED BY <3>1, <3>2
  <2> QED BY <2>1, <2>2, <2>3, <2>4 DEF ThreadOK
<1>11. LayerType'
  <2>1. adding' \in [Threads -> Seq(Locks)]
    BY <1>2 DEF Begins, LayerType
  <2>2. \A u \in Threads : Len(scopes'[u]) <= MaxDepth
    <3>1. MaxDepth \in Nat /\ n + 1 <= MaxDepth
      BY <1>3, TxAssumption
    <3> QED BY <1>2, <1>7, <3>1 DEF LayerType
  <2> QED BY <1>2, <1>7, <1>8, <2>1, <2>2 DEF Begins, LayerType
<1>12. OthersKept(t)
  BY <1>2, <1>7, <1>8 DEF Begins, OthersKept, Becomes, LayerType
<1> QED BY <1>9, <1>10, <1>11, <1>12, EndsStep

(* An exception is thrown or caught, and the library is not called. *)
LEMMA ExcStep ==
  ASSUME IInv, NEW t \in Threads, NEW e \in {"none", "error"},
         UNCHANGED <<pm, tx, misuse, scopes, adding, leaked, left>>,
         exc' = [exc EXCEPT ![t] = e], e = "none" \/ adding[t] = <<>>,
         byHand' = byHand \/ byHand' = byHand \union {t}
  PROVE  IInv' /\ \E v : Ends(t, v)
<1>1. View(t) \in Views /\ View(t).tx = tx[t] /\ View(t).pm = pm /\ View(t).misuse = misuse
  BY ViewType DEF IInv
<1>2. ThreadOK(t) /\ LayerType /\ tx \in [Threads -> TxRecs]
  BY DEF IInv, TxType
<1>3. Ends(t, View(t))
  BY <1>1, <1>2 DEF Ends, Becomes, Same
<1>4. exc'[t] = e
  BY <1>2 DEF LayerType
<1>5. Matches(t)' /\ Failed(t)' /\ Finished(t)'
  BY <1>2 DEF ThreadOK, Matches, Failed, Finished
<1>6. OutcomeKnown(t)' /\ LeftTells(t)'
  BY <1>2 DEF ThreadOK, OutcomeKnown, LeftTells
<1>7. Layer(t)' /\ GuardedUndo(t)'
  BY <1>2, <1>4 DEF ThreadOK, Layer, GuardedUndo
<1>8. ThreadOK(t)'
  BY <1>5, <1>6, <1>7 DEF ThreadOK
<1>9. LayerType'
  BY <1>2 DEF LayerType, Excs
<1>10. OthersKept(t)
  BY <1>2 DEF OthersKept, LayerType
<1> QED BY <1>3, <1>8, <1>9, <1>10, EndsStep

(* transaction::commit *)
LEMMA CommitStep ==
  ASSUME IInv, NEW t \in Threads, Commit(t)
  PROVE  IInv' /\ \E v : Ends(t, v)
<1> DEFINE b == View(t)
           w == TxCommit(b)
<1>1. b \in Views /\ b.tx = tx[t] /\ b.pm = pm /\ b.misuse = misuse
  BY ViewType DEF IInv
<1>2. ThreadOK(t) /\ TxType /\ LayerType /\ tx \in [Threads -> TxRecs]
  BY DEF IInv, TxType
<1>3. scopes[t] # <<>> /\ byHand' = byHand \union {t} /\ adding[t] = <<>> /\ exc[t] = "none"
      /\ UNCHANGED <<scopes, adding, leaked, left>>
  BY DEF Commit, BodyStep, InBody
<1>4. CASE tx[t].stage # "WORK"
  <2>1. Becomes(t, b) /\ exc' = [exc EXCEPT ![t] = "error"]
    BY <1>4 DEF Commit, Throws
  <2>2. UNCHANGED <<pm, tx, misuse>>
    BY <1>1, <1>2, <2>1 DEF Becomes
  <2> QED BY <1>3, <2>1, <2>2, ExcStep
<1>5. CASE tx[t].stage = "WORK"
  <2>1. Becomes(t, w) /\ UNCHANGED exc
    BY <1>5 DEF Commit
  <2>2. tx[t].entries \in Nat /\ tx[t].entries >= 1 /\ tx[t].entries = Len(scopes[t])
        /\ tx[t].failed = FALSE /\ t \notin leaked
    BY <1>3, <1>5, InScope
  <2>3. /\ w \in Views /\ w.misuse = b.misuse
        /\ w.tx.stage = "ONCOMMIT" /\ w.tx.failed = b.tx.failed
        /\ w.tx.entries = b.tx.entries /\ w.tx.locks = b.tx.locks
        /\ b.tx.entries > 1 => Same(b, w) /\ w.tx.outcome = b.tx.outcome
        /\ ~(b.tx.entries > 1) => Done(b, w) /\ w.tx.outcome = "committed"
    BY <1>1, <1>5, CommitResult
  <2>4. tx'[t] = w.tx
    BY <1>2, <2>1 DEF Becomes
  <2> HIDE DEF w, b
  <2>5. Ends(t, w)
    BY <1>1, <1>5, <2>1, <2>3 DEF Ends, b
  <2>6. Matches(t)' /\ Failed(t)'
    BY <1>1, <1>2, <1>3, <2>2, <2>3, <2>4 DEF ThreadOK, Matches, Failed
  <2>7. Finished(t)' /\ OutcomeKnown(t)'
    BY <1>1, <1>2, <1>3, <1>5, <2>2, <2>3, <2>4
       DEF ThreadOK, Finished, OutcomeKnown, Done, Emptied
  <2>8. Layer(t)' /\ LeftTells(t)'
    BY <1>2, <1>3, <2>1 DEF ThreadOK, Layer, LeftTells
  <2>9. GuardedUndo(t)'
    <3>1. CASE tx[t].entries > 1
      BY <1>1, <1>2, <2>3, <2>4, <3>1 DEF ThreadOK, GuardedUndo, Same
    <3>2. CASE ~(tx[t].entries > 1)
      BY <1>1, <2>3, <2>4, <3>2, NoUndoType DEF GuardedUndo, Done, Emptied
    <3> QED BY <3>1, <3>2
  <2>10. ThreadOK(t)'
    BY <2>6, <2>7, <2>8, <2>9 DEF ThreadOK
  <2>11. LayerType'
    BY <1>2, <1>3, <2>1 DEF LayerType
  <2>12. OthersKept(t)
    BY <1>2, <1>3, <2>1 DEF OthersKept, Becomes, LayerType
  <2> QED BY <2>5, <2>10, <2>11, <2>12, EndsStep
<1> QED BY <1>4, <1>5

(* A failed begin or lock. *)
LEMMA BeginFailsStep ==
  ASSUME IInv, NEW t \in Threads, BeginFails(t)
  PROVE  IInv' /\ \E v : Ends(t, v)
<1> DEFINE b == View(t)
           x == [tx[t] EXCEPT !.stage = "ONABORT"]
           w == [b EXCEPT !.tx = x]
<1>1. b \in Views /\ b.tx = tx[t] /\ b.pm = pm /\ b.misuse = misuse
  BY ViewType DEF IInv
<1>2. ThreadOK(t) /\ TxType /\ LayerType /\ tx \in [Threads -> TxRecs]
  BY DEF IInv, TxType
<1>3. adding[t] = <<>> /\ exc[t] = "none" /\ exc' = [exc EXCEPT ![t] = "error"]
      /\ UNCHANGED <<scopes, adding, byHand, left>> /\ tx[t].stage \in {"NONE", "WORK"}
  BY DEF BeginFails, InBody, Throws
<1>4. CASE tx[t].stage = "WORK"
  <2>1. Becomes(t, TxAbort(View(t))) /\ leaked' = leaked
    BY <1>4 DEF BeginFails
  <2>2. "error" \in Excs
    BY DEF Excs
  <2> QED BY <1>3, <1>4, <2>1, <2>2, AbortsStep
<1>5. CASE tx[t].stage = "NONE"
  <2>1. [b EXCEPT !.tx.stage = "ONABORT"] = w
    BY <1>1 DEF Views
  <2>2. Becomes(t, w) /\ leaked' = leaked \union {t}
    BY <1>5, <2>1 DEF BeginFails
  <2>3. t \notin leaked /\ scopes[t] = <<>> /\ tx[t].entries = 0
    <3>1. t \notin leaked /\ scopes[t] = <<>> /\ tx[t].entries = Len(scopes[t])
      BY <1>2, <1>5 DEF ThreadOK, Matches
    <3> QED BY <3>1
  <2>4. /\ x \in TxRecs /\ x.stage = "ONABORT" /\ x.entries = tx[t].entries
        /\ x.failed = tx[t].failed /\ x.undo = tx[t].undo /\ x.allocs = tx[t].allocs
        /\ x.frees = tx[t].frees /\ x.locks = tx[t].locks /\ x.outcome = tx[t].outcome
    BY <1>2 DEF TxRecs, Stages
  <2> HIDE DEF x, b
  <2>5. w \in Views /\ w.tx = x /\ w.pm = b.pm /\ w.misuse = b.misuse
    BY <1>1, <2>4 DEF Views
  <2>6. tx'[t] = x
    BY <1>2, <2>2, <2>5 DEF Becomes
  <2> HIDE DEF w
  <2>7. Ends(t, w)
    BY <1>1, <2>2, <2>4, <2>5 DEF Ends, Same, b
  <2>8. Matches(t)' /\ Failed(t)'
    BY <1>2, <1>3, <2>2, <2>3, <2>4, <2>6 DEF ThreadOK, Matches, Failed
  <2>9. Finished(t)' /\ OutcomeKnown(t)'
    BY <1>2, <1>3, <1>5, <2>3, <2>4, <2>6 DEF ThreadOK, Finished, OutcomeKnown
  <2>10. Layer(t)' /\ LeftTells(t)'
    BY <1>2, <1>3, <2>4, <2>6 DEF ThreadOK, Layer, LeftTells, LayerType
  <2>11. GuardedUndo(t)'
    BY <1>2, <2>4, <2>6 DEF ThreadOK, GuardedUndo
  <2>12. ThreadOK(t)'
    BY <2>8, <2>9, <2>10, <2>11 DEF ThreadOK
  <2>13. LayerType'
    BY <1>2, <1>3, <2>2 DEF LayerType, Excs
  <2>14. OthersKept(t)
    BY <1>2, <1>3, <2>2 DEF OthersKept, Becomes, LayerType
  <2> QED BY <2>7, <2>12, <2>13, <2>14, EndsStep
<1> QED BY <1>3, <1>4, <1>5

LEMMA LockFailsStep ==
  ASSUME IInv, NEW t \in Threads, ExecTxLockFails(t) \/ ManualLockFails(t)
  PROVE  IInv' /\ \E v : Ends(t, v)
<1> DEFINE b == View(t)
           n == Len(scopes[t])
<1>1. b \in Views /\ b.tx = tx[t] /\ b.pm = pm /\ b.misuse = misuse
  BY ViewType DEF IInv
<1>2. ThreadOK(t) /\ TxType /\ LayerType /\ tx \in [Threads -> TxRecs]
  BY DEF IInv, TxType
<1>3. adding[t] # <<>> /\ exc' = [exc EXCEPT ![t] = "error"]
      /\ scopes' = [scopes EXCEPT ![t] = Popped(t)]
      /\ adding' = [adding EXCEPT ![t] = <<>>] /\ UNCHANGED <<byHand, left>>
  BY DEF ExecTxLockFails, ManualLockFails, LockFails, Throws
<1>4. tx[t].stage = "WORK" /\ scopes[t] # <<>> /\ t \notin leaked
  BY <1>2, <1>3 DEF ThreadOK, Layer, Matches
<1>5. tx[t].entries \in Nat /\ tx[t].entries >= 1 /\ tx[t].entries = n
  BY <1>4, InScope
<1>6. Popped(t) \in Seq(Kinds) /\ Len(Popped(t)) = n - 1
  BY <1>2, <1>4, PoppedIs DEF LayerType
<1>7. left'[t].by = "none" /\ scopes'[t] = Popped(t) /\ adding'[t] = <<>>
      /\ exc'[t] = "error"
  BY <1>2, <1>3, <1>4 DEF ThreadOK, LeftTells, LayerType
<1>8. LeftTells(t)'
  BY <1>7 DEF LeftTells
<1>9. "error" \in Excs
  BY DEF Excs
<1>10. CASE ExecTxLockFails(t)
  <2> DEFINE v == TxEnd(TxAbort(b))
  <2>1. Becomes(t, v) /\ leaked' = leaked /\ EndsWith(t, v)
    BY <1>4, <1>10 DEF ExecTxLockFails, LockFails, EndsWith
  <2> HIDE DEF v, b
  <2>2. left' \in [Threads -> Lefts] /\ \A u \in Threads \ {t} : left'[u] = left[u]
    BY <1>2, <1>3 DEF LayerType
  <2>3. Throws(t, "error")
    BY <1>3 DEF Throws
  <2>4. IInv' /\ Ends(t, v)
    BY <1>3, <1>4, <1>8, <1>9, <2>1, <2>2, <2>3, PopStep
  <2> QED BY <2>4
<1>11. CASE ManualLockFails(t)
  <2> DEFINE w == TxAbort(b)
  <2>1. Becomes(t, w) /\ leaked' = leaked \union {t}
    BY <1>11 DEF ManualLockFails, LockFails
  <2>2. /\ w \in Views /\ w.misuse = b.misuse
        /\ w.tx.stage = "ONABORT" /\ w.tx.failed = TRUE
        /\ w.tx.entries = b.tx.entries /\ w.tx.locks = b.tx.locks
        /\ b.tx.entries > 1 => Same(b, w) /\ w.tx.outcome = b.tx.outcome
        /\ ~(b.tx.entries > 1) => Undone(b, w) /\ w.tx.outcome = "aborted"
    BY <1>1, <1>4, AbortResult
  <2>3. tx'[t] = w.tx
    BY <1>2, <2>1 DEF Becomes
  <2> HIDE DEF w, b
  <2>4. Ends(t, w)
    BY <1>1, <2>1, <2>2 DEF Ends, b
  <2>5. Matches(t)' /\ Failed(t)'
    <3>1. tx'[t].entries = Len(Popped(t)) + 1
      BY <1>1, <1>5, <1>6, <2>2, <2>3
    <3> QED BY <1>7, <2>1, <2>2, <2>3, <3>1 DEF Matches, Failed
  <2>6. Finished(t)' /\ OutcomeKnown(t)'
    BY <1>1, <1>2, <1>4, <1>5, <2>2, <2>3
       DEF ThreadOK, Finished, OutcomeKnown, Undone, Emptied
  <2>7. Layer(t)'
    BY <1>7 DEF Layer
  <2>8. GuardedUndo(t)'
    <3>1. CASE tx[t].entries > 1
      BY <1>1, <1>2, <2>2, <2>3, <3>1 DEF ThreadOK, GuardedUndo, Same
    <3>2. CASE ~(tx[t].entries > 1)
      BY <1>1, <2>2, <2>3, <3>2, NoUndoType DEF GuardedUndo, Undone, Emptied
    <3> QED BY <3>1, <3>2
  <2>9. ThreadOK(t)'
    BY <1>8, <2>5, <2>6, <2>7, <2>8 DEF ThreadOK
  <2>10. LayerType'
    <3>1. scopes' \in [Threads -> Seq(Kinds)]
          /\ \A u \in Threads : Len(scopes'[u]) <= MaxDepth
      <4>1. n <= MaxDepth /\ MaxDepth \in Nat /\ n \in Nat
        BY <1>2, <1>5, TxAssumption DEF LayerType
      <4> HIDE DEF n
      <4>2. Len(Popped(t)) <= MaxDepth
        BY <1>6, <4>1
      <4> QED BY <1>2, <1>3, <1>6, <4>2 DEF LayerType
    <3> QED BY <1>2, <1>3, <1>9, <2>1, <3>1 DEF LayerType
  <2>11. OthersKept(t)
    BY <1>2, <1>3, <2>1 DEF OthersKept, Becomes, LayerType
  <2> QED BY <2>4, <2>9, <2>10, <2>11, EndsStep
<1> QED BY <1>10, <1>11

(* Locks aside, the transactions stay as they are. *)
SameTxs == \A u \in Threads : /\ tx'[u].stage = tx[u].stage /\ tx'[u].undo = tx[u].undo
                              /\ tx'[u].allocs = tx[u].allocs /\ tx'[u].frees = tx[u].frees

(* A lock is added: it was the thread's already, or nobody's. *)
LEMMA AddLockStep ==
  ASSUME IInv, NEW t \in Threads, AddLock(t)
  PROVE  IInv' /\ SameTxs
<1> DEFINE l == Head(adding[t])
           x == [tx[t] EXCEPT !.locks = tx[t].locks \union {l}]
<1>1. ThreadOK(t) /\ TxType /\ LayerType /\ Disjoint /\ tx \in [Threads -> TxRecs]
  BY DEF IInv, TxType
<1>2. adding[t] # <<>> /\ adding[t] \in Seq(Locks)
  BY <1>1 DEF AddLock, LayerType
<1>3. l \in Locks /\ Tail(adding[t]) \in Seq(Locks)
  BY <1>2
<1>4. tx' = [tx EXCEPT ![t] = x]
  BY <1>1 DEF AddLock
<1>5. adding' = [adding EXCEPT ![t] = Tail(adding[t])] /\ (l \in tx[t].locks \/ ~Held(l))
      /\ UNCHANGED <<pm, scopes, exc, leaked, byHand, left, misuse>>
  BY <1>1 DEF AddLock, LayerType
<1> HIDE DEF l
<1>6. /\ x \in TxRecs /\ x.stage = tx[t].stage /\ x.entries = tx[t].entries
      /\ x.failed = tx[t].failed /\ x.undo = tx[t].undo /\ x.allocs = tx[t].allocs
      /\ x.frees = tx[t].frees /\ x.locks = tx[t].locks \union {l}
      /\ x.outcome = tx[t].outcome
  BY <1>1, <1>3 DEF TxRecs
<1> HIDE DEF x
<1>7. tx'[t] = x /\ \A u \in Threads \ {t} : tx'[u] = tx[u]
  BY <1>1, <1>4
<1>8. SameTxs
  BY <1>6, <1>7 DEF SameTxs
<1>9. TxType' /\ ScopesRespectStages'
  BY <1>1, <1>4, <1>5, <1>6 DEF IInv, TxType, ScopesRespectStages
<1>10. Disjoint'
  <2>1. \A u \in Threads \ {t} : l \notin tx[u].locks
    BY <1>1, <1>5 DEF Disjoint, Held
  <2> QED BY <1>1, <1>5, <1>6, <1>7, <2>1 DEF Disjoint
<1>11. ThreadOK(t)'
  <2>1. tx[t].stage = "WORK" /\ exc[t] = "none" /\ t \notin leaked
    BY <1>1, <1>2 DEF ThreadOK, Layer, Matches
  <2>2. Matches(t)' /\ Failed(t)' /\ Finished(t)'
    BY <1>1, <1>5, <1>6, <1>7, <2>1 DEF ThreadOK, Matches, Failed, Finished
  <2>3. OutcomeKnown(t)' /\ Layer(t)' /\ LeftTells(t)' /\ GuardedUndo(t)'
    BY <1>1, <1>5, <1>6, <1>7, <2>1
       DEF ThreadOK, OutcomeKnown, Layer, LeftTells, GuardedUndo
  <2> QED BY <2>2, <2>3 DEF ThreadOK
<1>12. LayerType'
  BY <1>1, <1>3, <1>5 DEF LayerType
<1>13. OthersKept(t)
  BY <1>1, <1>5, <1>7 DEF OthersKept, LayerType
<1> QED BY <1>8, <1>9, <1>10, <1>11, <1>12, <1>13, OthersOK DEF IInv

-----------------------------------------------------------------------------
(* What a body does.                                                       *)

(* The cells C are stored to; in stage WORK they are in the undo log.      *)
Wrote(t, C, w) ==
  /\ w \in Views /\ Becomes(t, w) /\ w.misuse = misuse
  /\ w.tx.stage = tx[t].stage /\ w.tx.entries = tx[t].entries
  /\ w.tx.failed = tx[t].failed /\ w.tx.allocs = tx[t].allocs
  /\ w.tx.frees = tx[t].frees /\ w.tx.locks = tx[t].locks
  /\ w.tx.outcome = tx[t].outcome
  /\ w.pm.medium = pm.medium /\ w.pm.heap = pm.heap
  /\ C \subseteq Cells /\ \A c \in C : Guarded(t, c)
  /\ \A c \in Cells \ C : w.pm.mem[c] = pm.mem[c]
  /\ tx[t].stage # "WORK" => w.tx.undo = tx[t].undo
  /\ tx[t].stage = "WORK" =>
       /\ DOMAIN w.tx.undo = DOMAIN tx[t].undo \union C
       /\ \A c \in DOMAIN tx[t].undo : w.tx.undo[c] = tx[t].undo[c]
       /\ \A c \in C \ DOMAIN tx[t].undo : w.tx.undo[c] = pm.mem[c]

LEMMA WroteStep ==
  ASSUME IInv, NEW t \in Threads, NEW C, NEW w, Wrote(t, C, w),
         UNCHANGED <<scopes, adding, exc, leaked, byHand, left>>
  PROVE  IInv'
<1>1. ThreadOK(t) /\ TxType /\ LayerType /\ Disjoint /\ tx \in [Threads -> TxRecs]
  BY DEF IInv, TxType
<1>2. tx'[t] = w.tx /\ pm' = w.pm /\ misuse' = misuse /\ \A u \in Threads \ {t} : tx'[u] = tx[u]
  BY <1>1 DEF Wrote, Becomes
<1>3. TxType' /\ ScopesRespectStages'
  BY <1>1 DEF Wrote, Becomes, IInv, TxType, Views, ScopesRespectStages
<1>4. Disjoint'
  BY <1>1, <1>2 DEF Wrote, Disjoint
<1>5. Matches(t)' /\ Failed(t)'
  BY <1>1, <1>2 DEF Wrote, ThreadOK, Matches, Failed
<1>6. Finished(t)' /\ OutcomeKnown(t)'
  BY <1>1, <1>2 DEF Wrote, ThreadOK, Finished, OutcomeKnown
<1>7. Layer(t)' /\ LeftTells(t)'
  BY <1>1, <1>2 DEF Wrote, ThreadOK, Layer, LeftTells
<1>8. GuardedUndo(t)'
  <2>1. CASE tx[t].stage # "WORK"
    BY <1>1, <1>2, <2>1 DEF Wrote, ThreadOK, GuardedUndo
  <2>2. CASE tx[t].stage = "WORK"
    <3>1. scopes[t] # <<>>
      BY <1>1, <2>2 DEF ThreadOK, Matches
    <3>2. \A c \in C : guard[c] \in tx[t].locks
      BY <3>1 DEF Wrote, Guarded
    <3> QED BY <1>1, <1>2, <2>2, <3>2 DEF Wrote, ThreadOK, GuardedUndo
  <2> QED BY <2>1, <2>2
<1>9. ThreadOK(t)'
  BY <1>5, <1>6, <1>7, <1>8 DEF ThreadOK
<1>10. LayerType'
  BY <1>1 DEF LayerType
<1>11. OthersKept(t)
  BY <1>2 DEF OthersKept
<1> QED BY <1>3, <1>4, <1>9, <1>10, <1>11, OthersOK DEF IInv

(* conditional_add_to_tx *)
LEMMA ConditionalAddResult ==
  ASSUME NEW v \in Views, NEW c \in Cells
  PROVE  LET w == ConditionalAdd(v, c)
         IN  /\ w \in Views /\ w.misuse = v.misuse /\ w.pm = v.pm
             /\ w.tx.stage = v.tx.stage /\ w.tx.entries = v.tx.entries
             /\ w.tx.failed = v.tx.failed /\ w.tx.allocs = v.tx.allocs
             /\ w.tx.frees = v.tx.frees /\ w.tx.locks = v.tx.locks
             /\ w.tx.outcome = v.tx.outcome
             /\ v.tx.stage # "WORK" => w.tx.undo = v.tx.undo
             /\ v.tx.stage = "WORK" =>
                  /\ DOMAIN w.tx.undo = DOMAIN v.tx.undo \union {c}
                  /\ \A d \in DOMAIN v.tx.undo : w.tx.undo[d] = v.tx.undo[d]
                  /\ c \notin DOMAIN v.tx.undo => w.tx.undo[c] = v.pm.mem[c]
<1>1. CASE v.tx.stage = "WORK"
  BY <1>1, AddRangeResult DEF ConditionalAdd
<1>2. CASE v.tx.stage # "WORK"
  BY <1>2 DEF ConditionalAdd
<1> QED BY <1>1, <1>2

(* a store to a cell *)
LEMMA StoreResult ==
  ASSUME NEW v \in Views, NEW c \in Cells, NEW x \in Vals
  PROVE  LET w == Store(v, c, x)
         IN  /\ w \in Views /\ w.misuse = v.misuse /\ w.tx = v.tx
             /\ w.pm.medium = v.pm.medium /\ w.pm.heap = v.pm.heap
             /\ w.pm.mem = [v.pm.mem EXCEPT ![c] = x]
<1> DEFINE m == [v.pm.mem EXCEPT ![c] = x]
           q == [v.pm EXCEPT !.mem = m]
<1>1. v.pm \in Pools /\ v.pm.mem \in Contents
  BY DEF Views, Pools
<1>2. m \in Contents
  BY <1>1 DEF Contents
<1>3. Store(v, c, x) = [v EXCEPT !.pm = q]
  BY <1>1 DEF Store, Views, Pools
<1> HIDE DEF m
<1>4. q \in Pools /\ q.mem = m /\ q.medium = v.pm.medium /\ q.heap = v.pm.heap
  BY <1>1, <1>2 DEF Pools
<1> HIDE DEF q
<1>5. Store(v, c, x) \in Views /\ Store(v, c, x).pm = q /\ Store(v, c, x).tx = v.tx
      /\ Store(v, c, x).misuse = v.misuse
  BY <1>3, <1>4 DEF Views
<1> QED BY <1>4, <1>5 DEF m

LEMMA AssignWrote ==
  ASSUME IInv, NEW t \in Threads, NEW c \in Cells, NEW x \in Vals, Guarded(t, c),
         Becomes(t, AddAndStore(View(t), c, x))
  PROVE  \E w : Wrote(t, {c}, w)
<1> DEFINE b == View(t)
           a == ConditionalAdd(b, c)
           w == Store(a, c, x)
<1>1. b \in Views /\ b.tx = tx[t] /\ b.pm = pm /\ b.misuse = misuse
  BY ViewType DEF IInv
<1>2. Becomes(t, w)
  BY DEF AddAndStore
<1> HIDE DEF b
<1>3. /\ a \in Views /\ a.misuse = b.misuse /\ a.pm = b.pm
      /\ a.tx.stage = b.tx.stage /\ a.tx.entries = b.tx.entries
      /\ a.tx.failed = b.tx.failed /\ a.tx.allocs = b.tx.allocs
      /\ a.tx.frees = b.tx.frees /\ a.tx.locks = b.tx.locks
      /\ a.tx.outcome = b.tx.outcome
      /\ b.tx.stage # "WORK" => a.tx.undo = b.tx.undo
      /\ b.tx.stage = "WORK" =>
           /\ DOMAIN a.tx.undo = DOMAIN b.tx.undo \union {c}
           /\ \A d \in DOMAIN b.tx.undo : a.tx.undo[d] = b.tx.undo[d]
           /\ c \notin DOMAIN b.tx.undo => a.tx.undo[c] = b.pm.mem[c]
  BY <1>1, ConditionalAddResult
<1> HIDE DEF a
<1>4. /\ w \in Views /\ w.misuse = a.misuse /\ w.tx = a.tx
      /\ w.pm.medium = a.pm.medium /\ w.pm.heap = a.pm.heap
      /\ w.pm.mem = [a.pm.mem EXCEPT ![c] = x]
  BY <1>3, StoreResult
<1> HIDE DEF w
<1>5. \A d \in Cells \ {c} : w.pm.mem[d] = pm.mem[d]
  BY <1>1, <1>3, <1>4 DEF IInv, TxType, Pools, Contents
<1>6. Wrote(t, {c}, w)
  BY <1>1, <1>2, <1>3, <1>4, <1>5 DEF Wrote
<1> QED BY <1>6

LEMMA SwapWrote ==
  ASSUME IInv, NEW t \in Threads, NEW c \in Cells, NEW d \in Cells, Swap(t, c, d)
  PROVE  \E w : Wrote(t, {c, d}, w)
<1> DEFINE b == View(t)
           a == ConditionalAdd(b, c)
           e == ConditionalAdd(a, d)
           f == Store(e, c, pm.mem[d])
           w == Store(f, d, pm.mem[c])
<1>1. b \in Views /\ b.tx = tx[t] /\ b.pm = pm /\ b.misuse = misuse
  BY ViewType DEF IInv
<1>2. Becomes(t, w) /\ Guarded(t, c) /\ Guarded(t, d)
  BY DEF Swap
<1>3. pm.mem[c] \in Vals /\ pm.mem[d] \in Vals /\ pm.mem \in Contents
  BY DEF IInv, TxType, Pools, Contents
<1> HIDE DEF b
<1>4. /\ a \in Views /\ a.misuse = b.misuse /\ a.pm = b.pm
      /\ a.tx.stage = b.tx.stage /\ a.tx.entries = b.tx.entries
      /\ a.tx.failed = b.tx.failed /\ a.tx.allocs = b.tx.allocs
      /\ a.tx.frees = b.tx.frees /\ a.tx.locks = b.tx.locks
      /\ a.tx.outcome = b.tx.outcome
      /\ b.tx.stage # "WORK" => a.tx.undo = b.tx.undo
      /\ b.tx.stage = "WORK" =>
           /\ DOMAIN a.tx.undo = DOMAIN b.tx.undo \union {c}
           /\ \A r \in DOMAIN b.tx.undo : a.tx.undo[r] = b.tx.undo[r]
           /\ c \notin DOMAIN b.tx.undo => a.tx.undo[c] = b.pm.mem[c]
  BY <1>1, ConditionalAddResult
<1> HIDE DEF a
<1>5. /\ e \in Views /\ e.misuse = a.misuse /\ e.pm = a.pm
      /\ e.tx.stage = a.tx.stage /\ e.tx.entries = a.tx.entries
      /\ e.tx.failed = a.tx.failed /\ e.tx.allocs = a.tx.allocs
      /\ e.tx.frees = a.tx.frees /\ e.tx.locks = a.tx.locks
      /\ e.tx.outcome = a.tx.outcome
      /\ a.tx.stage # "WORK" => e.tx.undo = a.tx.undo
      /\ a.tx.stage = "WORK" =>
           /\ DOMAIN e.tx.undo = DOMAIN a.tx.undo \union {d}
           /\ \A r \in DOMAIN a.tx.undo : e.tx.undo[r] = a.tx.undo[r]
           /\ d \notin DOMAIN a.tx.undo => e.tx.undo[d] = a.pm.mem[d]
  BY <1>4, ConditionalAddResult
<1> HIDE DEF e
<1>6. /\ f \in Views /\ f.misuse = e.misuse /\ f.tx = e.tx
      /\ f.pm.medium = e.pm.medium /\ f.pm.heap = e.pm.heap
      /\ f.pm.mem = [e.pm.mem EXCEPT ![c] = pm.mem[d]]
  BY <1>3, <1>5, StoreResult
<1> HIDE DEF f
<1>7. /\ w \in Views /\ w.misuse = f.misuse /\ w.tx = f.tx
      /\ w.pm.medium = f.pm.medium /\ w.pm.heap = f.pm.heap
      /\ w.pm.mem = [f.pm.mem EXCEPT ![d] = pm.mem[c]]
  BY <1>3, <1>6, StoreResult
<1> HIDE DEF w
<1>8. \A r \in Cells \ {c, d} : w.pm.mem[r] = pm.mem[r]
  BY <1>1, <1>3, <1>4, <1>5, <1>6, <1>7 DEF Contents
<1>9. tx[t].stage # "WORK" => w.tx.undo = tx[t].undo
  BY <1>1, <1>4, <1>5, <1>6, <1>7
<1>10. tx[t].stage = "WORK" =>
         /\ DOMAIN w.tx.undo = DOMAIN tx[t].undo \union {c, d}
         /\ \A r \in DOMAIN tx[t].undo : w.tx.undo[r] = tx[t].undo[r]
         /\ \A r \in {c, d} \ DOMAIN tx[t].undo : w.tx.undo[r] = pm.mem[r]
  BY <1>1, <1>4, <1>5, <1>6, <1>7
<1>11. Wrote(t, {c, d}, w)
  BY <1>1, <1>2, <1>4, <1>5, <1>6, <1>7, <1>8, <1>9, <1>10 DEF Wrote
<1> QED BY <1>11

LEMMA GetRwWrote ==
  ASSUME IInv, NEW t \in Threads, NEW c \in Cells, GetRw(t, c)
  PROVE  \E w : Wrote(t, {c}, w)
<1> DEFINE b == View(t)
           w == ConditionalAdd(b, c)
<1>1. b \in Views /\ b.tx = tx[t] /\ b.pm = pm /\ b.misuse = misuse
  BY ViewType DEF IInv
<1>2. Becomes(t, w) /\ Guarded(t, c)
  BY DEF GetRw
<1> HIDE DEF b
<1>3. /\ w \in Views /\ w.misuse = b.misuse /\ w.pm = b.pm
      /\ w.tx.stage = b.tx.stage /\ w.tx.entries = b.tx.entries
      /\ w.tx.failed = b.tx.failed /\ w.tx.allocs = b.tx.allocs
      /\ w.tx.frees = b.tx.frees /\ w.tx.locks = b.tx.locks
      /\ w.tx.outcome = b.tx.outcome
      /\ b.tx.stage # "WORK" => w.tx.undo = b.tx.undo
      /\ b.tx.stage = "WORK" =>
           /\ DOMAIN w.tx.undo = DOMAIN b.tx.undo \union {c}
           /\ \A d \in DOMAIN b.tx.undo : w.tx.undo[d] = b.tx.undo[d]
           /\ c \notin DOMAIN b.tx.undo => w.tx.undo[c] = b.pm.mem[c]
  BY <1>1, ConditionalAddResult
<1> HIDE DEF w
<1>4. Wrote(t, {c}, w)
  BY <1>1, <1>2, <1>3 DEF Wrote
<1> QED BY <1>4

(* Allocation and deallocation in a transaction: no two transactions come  *)
(* to hold the same object.                                                *)
LEMMA ObjectStep ==
  ASSUME IInv, NEW t \in Threads, NEW o \in Objects, Allocate(t, o) \/ Deallocate(t, o)
  PROVE  IInv'
<1>1. ThreadOK(t) /\ TxType /\ LayerType /\ Disjoint /\ tx \in [Threads -> TxRecs]
      /\ tx[t] \in TxRecs
  BY DEF IInv, TxType
<1>2. View(t) \in Views /\ View(t).tx = tx[t] /\ View(t).pm = pm /\ View(t).misuse = misuse
  BY ViewType DEF IInv
<1>3. tx[t].stage = "WORK" /\ UNCHANGED <<scopes, adding, exc, leaked, byHand, left>>
  BY DEF Allocate, Deallocate, BodyStep
<1>4. ASSUME NEW x \in TxRecs, tx' = [tx EXCEPT ![t] = x], pm' = pm, misuse' = misuse,
             x.stage = tx[t].stage, x.entries = tx[t].entries, x.failed = tx[t].failed,
             x.undo = tx[t].undo, x.locks = tx[t].locks, x.outcome = tx[t].outcome,
             Disjoint'
      PROVE  IInv'
  <2>1. tx'[t] = x /\ \A u \in Threads \ {t} : tx'[u] = tx[u]
    BY <1>1, <1>4
  <2>2. TxType' /\ ScopesRespectStages'
    BY <1>1, <1>4 DEF IInv, TxType, ScopesRespectStages
  <2>3. Matches(t)' /\ Failed(t)' /\ Finished(t)'
    BY <1>1, <1>3, <1>4, <2>1 DEF ThreadOK, Matches, Failed, Finished
  <2>4. OutcomeKnown(t)' /\ Layer(t)' /\ LeftTells(t)' /\ GuardedUndo(t)'
    BY <1>1, <1>3, <1>4, <2>1 DEF ThreadOK, OutcomeKnown, Layer, LeftTells, GuardedUndo
  <2>5. ThreadOK(t)'
    BY <2>3, <2>4 DEF ThreadOK
  <2>6. LayerType' /\ OthersKept(t)
    BY <1>1, <1>3, <2>1 DEF LayerType, OthersKept
  <2> QED BY <1>4, <2>2, <2>5, <2>6, OthersOK DEF IInv
<1>5. ASSUME NEW A \in SUBSET Objects, Becomes(t, [View(t) EXCEPT !.tx.allocs = A]),
             A \intersect pm.heap = {},
             \A u \in Threads \ {t} : A \intersect tx[u].allocs = {}
      PROVE  IInv'
  <2> DEFINE x == [tx[t] EXCEPT !.allocs = A]
  <2>1. tx' = [tx EXCEPT ![t] = x] /\ pm' = pm /\ misuse' = misuse
    BY <1>2, <1>5 DEF Becomes, Views
  <2>2. /\ x \in TxRecs /\ x.stage = tx[t].stage /\ x.entries = tx[t].entries
        /\ x.failed = tx[t].failed /\ x.undo = tx[t].undo /\ x.allocs = A
        /\ x.frees = tx[t].frees /\ x.locks = tx[t].locks /\ x.outcome = tx[t].outcome
    BY <1>1, <1>5 DEF TxRecs
  <2> HIDE DEF x
  <2>3. tx'[t] = x /\ \A u \in Threads \ {t} : tx'[u] = tx[u]
    BY <1>1, <2>1
  <2>4. Disjoint'
    BY <1>1, <1>5, <2>1, <2>2, <2>3 DEF Disjoint
  <2> QED BY <1>4, <2>1, <2>2, <2>4
<1>6. ASSUME NEW F \in SUBSET Objects, Becomes(t, [View(t) EXCEPT !.tx.frees = F]),
             F \subseteq pm.heap, \A u \in Threads \ {t} : F \intersect tx[u].frees = {}
      PROVE  IInv'
  <2> DEFINE x == [tx[t] EXCEPT !.frees = F]
  <2>1. tx' = [tx EXCEPT ![t] = x] /\ pm' = pm /\ misuse' = misuse
    BY <1>2, <1>6 DEF Becomes, Views
  <2>2. /\ x \in TxRecs /\ x.stage = tx[t].stage /\ x.entries = tx[t].entries
        /\ x.failed = tx[t].failed /\ x.undo = tx[t].undo /\ x.allocs = tx[t].allocs
        /\ x.frees = F /\ x.locks = tx[t].locks /\ x.outcome = tx[t].outcome
    BY <1>1, <1>6 DEF TxRecs
  <2> HIDE DEF x
  <2>3. tx'[t] = x /\ \A u \in Threads \ {t} : tx'[u] = tx[u]
    BY <1>1, <2>1
  <2>4. Disjoint'
    BY <1>1, <1>6, <2>1, <2>2, <2>3 DEF Disjoint
  <2> QED BY <1>4, <2>1, <2>2, <2>4
<1>7. tx[t].allocs \subseteq Objects /\ tx[t].frees \subseteq Objects
  BY <1>1 DEF TxRecs
<1>8. CASE Allocate(t, o)
  <2> DEFINE A == tx[t].allocs \union {o}
  <2>1. Becomes(t, [View(t) EXCEPT !.tx.allocs = A]) /\ ~Allocated(o)
    BY <1>2, <1>8 DEF Allocate, Views
  <2>2. A \in SUBSET Objects /\ A \intersect pm.heap = {}
        /\ \A u \in Threads \ {t} : A \intersect tx[u].allocs = {}
    BY <1>1, <1>7, <2>1 DEF Allocated, Disjoint
  <2> QED BY <1>5, <2>1, <2>2
<1>9. CASE Deallocate(t, o) /\ Becomes(t, [View(t) EXCEPT !.tx.allocs = @ \ {o}])
  <2> DEFINE A == tx[t].allocs \ {o}
  <2>1. Becomes(t, [View(t) EXCEPT !.tx.allocs = A])
    BY <1>2, <1>9 DEF Views
  <2>2. A \in SUBSET Objects /\ A \intersect pm.heap = {}
        /\ \A u \in Threads \ {t} : A \intersect tx[u].allocs = {}
    BY <1>1, <1>7 DEF Disjoint
  <2> QED BY <1>5, <2>1, <2>2
<1>10. CASE Becomes(t, [View(t) EXCEPT !.tx.frees = @ \union {o}]) /\ o \in pm.heap
            /\ \A u \in Threads : o \notin tx[u].frees
  <2> DEFINE F == tx[t].frees \union {o}
  <2>1. Becomes(t, [View(t) EXCEPT !.tx.frees = F])
    BY <1>2, <1>10 DEF Views
  <2>2. F \in SUBSET Objects /\ F \subseteq pm.heap
        /\ \A u \in Threads \ {t} : F \intersect tx[u].frees = {}
    BY <1>1, <1>7, <1>10 DEF Disjoint
  <2> QED BY <1>6, <2>1, <2>2
<1> QED BY <1>8, <1>9, <1>10 DEF Deallocate

(* A step that changes the pool alone. *)
LEMMA PoolStep ==
  ASSUME IInv, UNCHANGED <<tx, scopes, adding, exc, leaked, byHand, left, misuse>>,
         pm' \in Pools,
         \A t \in Threads : tx[t].allocs \intersect pm'.heap = {} /\ tx[t].frees \subseteq pm'.heap
  PROVE  IInv'
<1>1. TxType' /\ LayerType' /\ ScopesRespectStages' /\ Disjoint'
  BY DEF IInv, TxType, LayerType, ScopesRespectStages, Disjoint
<1>2. ASSUME NEW t \in Threads PROVE ThreadOK(t)'
  <2>1. ThreadOK(t)
    BY DEF IInv
  <2>2. Matches(t)' /\ Failed(t)' /\ Finished(t)'
    BY <2>1 DEF ThreadOK, Matches, Failed, Finished
  <2>3. OutcomeKnown(t)' /\ Layer(t)' /\ LeftTells(t)' /\ GuardedUndo(t)'
    BY <2>1 DEF ThreadOK, OutcomeKnown, Layer, LeftTells, GuardedUndo
  <2> QED BY <2>2, <2>3 DEF ThreadOK
<1> QED BY <1>1, <1>2 DEF IInv

(* make_persistent_atomic and delete_persistent_atomic *)
Atomically(t, c) ==
  DeletePersistentAtomic(t, c) \/ \E o \in Objects : MakePersistentAtomic(t, c, o)

LEMMA AtomicallyIs ==
  ASSUME IInv, NEW t \in Threads, NEW c \in Cells, Atomically(t, c)
  PROVE  /\ scopes[t] = <<>> /\ Guarded(t, c)
         /\ UNCHANGED <<tx, scopes, adding, exc, leaked, byHand, left, misuse>>
         /\ \E x \in Vals, H \in SUBSET Objects :
              /\ pm' = [mem |-> [pm.mem EXCEPT ![c] = x],
                        medium |-> [pm.medium EXCEPT ![c] = x], heap |-> H]
              /\ H \in {pm.heap \union {x}, pm.heap \ {pm.mem[c]}}
              /\ \A u \in Threads : tx[u].allocs \intersect H = {} /\ tx[u].frees \subseteq H
<1>1. scopes[t] = <<>> /\ Guarded(t, c)
      /\ UNCHANGED <<tx, scopes, adding, exc, leaked, byHand, left, misuse>>
  BY DEF Atomically, DeletePersistentAtomic, MakePersistentAtomic, BodyStep
<1>2. Disjoint /\ pm.heap \subseteq Objects
  BY DEF IInv, TxType, Pools
<1>3. CASE DeletePersistentAtomic(t, c)
  <2> DEFINE H == pm.heap \ {pm.mem[c]}
  <2>1. pm' = [mem |-> [pm.mem EXCEPT ![c] = Null],
               medium |-> [pm.medium EXCEPT ![c] = Null], heap |-> H]
        /\ \A u \in Threads : pm.mem[c] \notin tx[u].frees
    BY <1>3 DEF DeletePersistentAtomic, Durably
  <2>2. \A u \in Threads : tx[u].allocs \intersect H = {} /\ tx[u].frees \subseteq H
    BY <1>2, <2>1 DEF Disjoint
  <2>3. Null \in Vals /\ H \in SUBSET Objects
    BY <1>2, TxAssumption
  <2> HIDE DEF H
  <2>4. H \in {pm.heap \union {Null}, pm.heap \ {pm.mem[c]}}
    BY DEF H
  <2> QED BY <1>1, <2>1, <2>2, <2>3, <2>4
<1>4. ASSUME NEW o \in Objects, MakePersistentAtomic(t, c, o)
      PROVE  \E x \in Vals, H \in SUBSET Objects :
               /\ pm' = [mem |-> [pm.mem EXCEPT ![c] = x],
                         medium |-> [pm.medium EXCEPT ![c] = x], heap |-> H]
               /\ H \in {pm.heap \union {x}, pm.heap \ {pm.mem[c]}}
               /\ \A u \in Threads : tx[u].allocs \intersect H = {} /\ tx[u].frees \subseteq H
  <2> DEFINE H == pm.heap \union {o}
  <2>1. pm' = [mem |-> [pm.mem EXCEPT ![c] = o],
               medium |-> [pm.medium EXCEPT ![c] = o], heap |-> H] /\ ~Allocated(o)
    BY <1>4 DEF MakePersistentAtomic, Durably
  <2>2. \A u \in Threads : tx[u].allocs \intersect H = {} /\ tx[u].frees \subseteq H
    BY <1>2, <2>1 DEF Disjoint, Allocated
  <2>3. o \in Vals /\ H \in SUBSET Objects
    BY <1>2, TxAssumption
  <2> HIDE DEF H
  <2>4. H \in {pm.heap \union {o}, pm.heap \ {pm.mem[c]}}
    BY DEF H
  <2> QED BY <2>1, <2>2, <2>3, <2>4
<1> QED BY <1>1, <1>3, <1>4 DEF Atomically

LEMMA AtomicallyStep ==
  ASSUME IInv, NEW t \in Threads, NEW c \in Cells, Atomically(t, c)
  PROVE  IInv'
<1>1. PICK x \in Vals, H \in SUBSET Objects :
        /\ pm' = [mem |-> [pm.mem EXCEPT ![c] = x],
                  medium |-> [pm.medium EXCEPT ![c] = x], heap |-> H]
        /\ \A u \in Threads : tx[u].allocs \intersect H = {} /\ tx[u].frees \subseteq H
  BY AtomicallyIs
<1>2. UNCHANGED <<tx, scopes, adding, exc, leaked, byHand, left, misuse>>
  BY AtomicallyIs
<1>3. [pm.mem EXCEPT ![c] = x] \in Contents /\ [pm.medium EXCEPT ![c] = x] \in Contents
  BY DEF IInv, TxType, Pools, Contents
<1>4. pm' \in Pools /\ pm'.heap = H
  BY <1>1, <1>3 DEF Pools
<1> QED BY <1>1, <1>2, <1>4, PoolStep

LEMMA PersistStep ==
  ASSUME IInv, NEW c \in Cells, Persist(c)
  PROVE  /\ IInv'
         /\ pm' = [pm EXCEPT !.medium = [pm.medium EXCEPT ![c] = pm.mem[c]]]
<1>1. pm \in Pools /\ pm.mem \in Contents /\ pm.medium \in Contents
  BY DEF IInv, TxType, Pools
<1>2. pm' = [pm EXCEPT !.medium = [pm.medium EXCEPT ![c] = pm.mem[c]]]
  BY <1>1 DEF Persist, Pools
<1>3. [pm.medium EXCEPT ![c] = pm.mem[c]] \in Contents
  BY <1>1 DEF Contents
<1>4. pm' \in Pools /\ pm'.heap = pm.heap
  BY <1>1, <1>2, <1>3 DEF Pools
<1>5. IInv'
  BY <1>4, PoolStep DEF Persist, IInv, Disjoint
<1> QED BY <1>2, <1>5

-----------------------------------------------------------------------------
(* Recovery.                                                               *)

(* What the next process finds in a cell: the value in the only undo log   *)
(* that has one, and otherwise what has reached the medium.                *)
RecoveredIs ==
  /\ Recovered \in Contents
  /\ \A c \in Cells :
       /\ \A t \in Threads : c \in DOMAIN tx[t].undo => Recovered[c] = tx[t].undo[c]
       /\ (\A t \in Threads : c \notin DOMAIN tx[t].undo) => Recovered[c] = pm.medium[c]

(* A cell is in one undo log, since its lock is. *)
LEMMA OneOwner ==
  ASSUME IInv, NEW t \in Threads, NEW u \in Threads, NEW c,
         c \in DOMAIN tx[t].undo, c \in DOMAIN tx[u].undo
  PROVE  t = u
<1>1. ThreadOK(t) /\ ThreadOK(u) /\ Disjoint
  BY DEF IInv
<1>2. guard[c] \in tx[t].locks /\ guard[c] \in tx[u].locks
  BY <1>1 DEF ThreadOK, GuardedUndo
<1> QED BY <1>1, <1>2 DEF Disjoint

LEMMA Recovery == IInv => RecoveredIs
<1> SUFFICES ASSUME IInv PROVE RecoveredIs
  OBVIOUS
<1>1. \A t \in Threads : /\ DOMAIN tx[t].undo \subseteq Cells
                         /\ \A c \in DOMAIN tx[t].undo : tx[t].undo[c] \in Vals
  BY UndoValues DEF IInv, TxType, TxRecs
<1>2. \A c \in Cells : pm.medium[c] \in Vals
  BY DEF IInv, TxType, Pools, Contents
<1>3. ASSUME NEW c \in Cells, NEW t \in Threads, c \in DOMAIN tx[t].undo
      PROVE  Recovered[c] = tx[t].undo[c]
  <2> DEFINE u == CHOOSE r \in Threads : c \in DOMAIN tx[r].undo
  <2>1. u \in Threads /\ c \in DOMAIN tx[u].undo
    BY <1>3
  <2>2. Recovered[c] = tx[u].undo[c]
    BY <1>3 DEF Recovered
  <2> HIDE DEF u
  <2>3. t = u
    BY <1>3, <2>1, OneOwner
  <2> QED BY <2>2, <2>3
<1>4. ASSUME NEW c \in Cells, \A t \in Threads : c \notin DOMAIN tx[t].undo
      PROVE  Recovered[c] = pm.medium[c]
  BY <1>4 DEF Recovered
<1>5. \A c \in Cells : Recovered[c] \in Vals
  <2>1. SUFFICES ASSUME NEW c \in Cells PROVE Recovered[c] \in Vals
    OBVIOUS
  <2>2. CASE \E t \in Threads : c \in DOMAIN tx[t].undo
    BY <1>1, <1>3, <2>2
  <2>3. CASE \A t \in Threads : c \notin DOMAIN tx[t].undo
    BY <1>2, <1>4, <2>3
  <2> QED BY <2>2, <2>3
<1>6. Recovered = [c \in Cells |-> Recovered[c]]
  BY DEF Recovered
<1>7. Recovered \in Contents
  BY <1>5, <1>6 DEF Contents
<1> QED BY <1>3, <1>4, <1>7 DEF RecoveredIs

(* The same in the next state. *)
LEMMA RecoveryNext == IInv' => RecoveredIs'
BY Recovery, PTL

(* Threads that have done nothing yet. *)
Fresh ==
  /\ tx = [t \in Threads |-> NoTx] /\ scopes = [t \in Threads |-> <<>>]
  /\ adding = [t \in Threads |-> <<>>] /\ exc = [t \in Threads |-> "none"]
  /\ leaked = {} /\ byHand = {} /\ left = [t \in Threads |-> NotLeft]

LEMMA FreshInv ==
  ASSUME Fresh, pm \in Pools, misuse \subseteq {"pmemobj_tx_free"}
  PROVE  IInv
<1>1. /\ NoTx.stage = "NONE" /\ NoTx.entries = 0 /\ NoTx.failed = FALSE /\ NoTx.undo = NoUndo
      /\ NoTx.allocs = {} /\ NoTx.frees = {} /\ NoTx.locks = {} /\ NoTx.outcome = "none"
  BY DEF NoTx
<1>2. NotLeft \in Lefts /\ NotLeft.by = "none"
  BY DEF NotLeft, Lefts, Kinds
<1>3. TxType /\ ScopesRespectStages
  <2>1. misuse \in SUBSET Calls
    BY DEF Calls
  <2>2. tx \in [Threads -> TxRecs]
    BY NoTxType DEF Fresh
  <2> QED BY <2>1, <2>2 DEF TxType, ScopesRespectStages
<1>4. LayerType
  <2>1. MaxDepth \in Nat
    BY TxAssumption
  <2> QED BY <1>2, <2>1 DEF Fresh, LayerType, Excs
<1>5. Disjoint
  BY <1>1 DEF Fresh, Disjoint
<1>6. ASSUME NEW t \in Threads PROVE ThreadOK(t)
  <2>1. Matches(t) /\ Failed(t) /\ Finished(t)
    BY <1>1 DEF Fresh, Matches, Failed, Finished
  <2>2. OutcomeKnown(t) /\ Layer(t) /\ LeftTells(t)
    BY <1>1, <1>2 DEF Fresh, OutcomeKnown, Layer, LeftTells
  <2>3. GuardedUndo(t)
    BY <1>1, NoUndoType DEF Fresh, GuardedUndo
  <2> QED BY <2>1, <2>2, <2>3 DEF ThreadOK
<1> QED BY <1>3, <1>4, <1>5, <1>6 DEF IInv

LEMMA FreshNext == (Fresh /\ pm \in Pools /\ misuse \subseteq {"pmemobj_tx_free"} => IInv)'
BY FreshInv, PTL

LEMMA InitInv == Init => IInv
<1> SUFFICES ASSUME Init PROVE IInv
  OBVIOUS
<1>1. PICK m \in [Cells -> {Null}] : pm = [mem |-> m, medium |-> m, heap |-> {}]
  BY DEF Init
<1>2. m \in Contents
  BY TxAssumption DEF Contents
<1>3. pm \in Pools
  BY <1>1, <1>2 DEF Pools
<1>4. Fresh /\ misuse \subseteq {"pmemobj_tx_free"}
  BY DEF Init, Fresh
<1> QED BY <1>3, <1>4, FreshInv

LEMMA DiesStep ==
  ASSUME IInv, Dies, misuse' \in {misuse, misuse \union {"pmemobj_tx_free"}}
  PROVE  IInv' /\ Fresh' /\ pm'.mem = Recovered /\ pm'.medium = Recovered
         /\ pm'.heap = pm.heap
<1>1. Recovered \in Contents
  BY Recovery DEF RecoveredIs
<1>2. Fresh'
  BY DEF Dies, Fresh
<1> DEFINE r == Recovered
<1>3. pm' = [pm EXCEPT !.mem = r, !.medium = r] /\ r \in Contents /\ pm \in Pools
  BY <1>1 DEF Dies, IInv, TxType
<1> HIDE DEF r
<1>4. pm' \in Pools /\ pm'.mem = r /\ pm'.medium = r /\ pm'.heap = pm.heap
  BY <1>3 DEF Pools
<1>5. misuse' \subseteq {"pmemobj_tx_free"}
  BY DEF IInv, ScopesRespectStages, TxType, Calls
<1>6. IInv'
  BY <1>2, <1>4, <1>5, FreshNext
<1> QED BY <1>2, <1>4, <1>6 DEF r

-----------------------------------------------------------------------------
(* Every step is one of these, and keeps the invariant.                    *)

LibraryStep(t) ==
  \/ \E v : Ends(t, v)
  \/ \E C, w : Wrote(t, C, w)
  \/ \E o \in Objects : Allocate(t, o) \/ Deallocate(t, o)
  \/ \E c \in Cells : Atomically(t, c)
  \/ SameTxs /\ UNCHANGED pm
  \/ Dies /\ misuse' \in {misuse, misuse \union {"pmemobj_tx_free"}}

LEMMA ScopeNextStep ==
  ASSUME IInv, NEW t \in Threads, ScopeNext(t)
  PROVE  IInv' /\ LibraryStep(t)
<1>1. ASSUME NEW locks \in {<<>>} \union {<<l>> : l \in Locks},
             ExecTx(t, locks) \/ Manual(t, locks) \/ Automatic(t, locks)
      PROVE  IInv' /\ \E v : Ends(t, v)
  <2>1. locks \in Seq(Locks)
    <3>1. CASE locks = <<>>
      BY <3>1
    <3>2. ASSUME NEW l \in Locks, locks = <<l>> PROVE locks \in Seq(Locks)
      BY <3>2
    <3> QED BY <1>1, <3>1, <3>2
  <2>2. PICK kind \in Kinds : Begins(t, kind, locks)
    BY <1>1 DEF ExecTx, Manual, Automatic, Kinds
  <2> QED BY <2>1, <2>2, BeginsStep
<1>2. CASE BeginFails(t)
  BY <1>2, BeginFailsStep DEF LibraryStep
<1>3. CASE AddLock(t)
  BY <1>3, AddLockStep DEF AddLock, LibraryStep
<1>4. CASE ExecTxLockFails(t) \/ ManualLockFails(t)
  BY <1>4, LockFailsStep DEF LibraryStep
<1>5. CASE ScopeEnds(t)
  BY <1>5, ScopeEndsStep DEF LibraryStep
<1> QED BY <1>1, <1>2, <1>3, <1>4, <1>5 DEF ScopeNext, ScopeEnds, LibraryStep

LEMMA BodyNextStep ==
  ASSUME IInv, NEW t \in Threads, BodyNext(t)
  PROVE  IInv' /\ LibraryStep(t)
<1>1. View(t).tx = tx[t] /\ View(t).pm = pm /\ View(t).misuse = misuse
      /\ tx \in [Threads -> TxRecs]
  BY ViewType DEF IInv, TxType
<1>2. {"none", "abort", "error"} \subseteq Excs /\ exc[t] \in Excs
      /\ exc \in [Threads -> Excs]
  BY DEF Excs, IInv, LayerType
<1>3. CASE Abort(t)
  <2>1. CASE tx[t].stage = "WORK"
    BY <1>2, <1>3, <2>1, AbortsStep DEF Abort, BodyStep, InBody, Throws, LibraryStep
  <2>2. CASE tx[t].stage # "WORK"
    <3>1. UNCHANGED <<pm, tx, misuse>>
      BY <1>1, <1>3, <2>2 DEF Abort, Becomes
    <3>2. /\ adding[t] = <<>> /\ exc' = [exc EXCEPT ![t] = "error"]
          /\ UNCHANGED <<scopes, adding, leaked, left, byHand>>
      BY <1>3, <2>2 DEF Abort, BodyStep, InBody, Throws
    <3> QED BY <3>1, <3>2, ExcStep DEF LibraryStep
  <2> QED BY <2>1, <2>2
<1>4. CASE Commit(t)
  BY <1>4, CommitStep DEF LibraryStep
<1>5. CASE Throw(t) \/ ScopeError(t)
  <2>1. /\ adding[t] = <<>> /\ exc' = [exc EXCEPT ![t] = "error"]
        /\ UNCHANGED <<pm, tx, misuse, scopes, adding, leaked, left, byHand>>
    BY <1>5 DEF Throw, ScopeError, BodyStep, InBody, Throws
  <2> QED BY <2>1, ExcStep DEF LibraryStep
<1>6. CASE Catch(t)
  <2>1. /\ exc' = [exc EXCEPT ![t] = "none"]
        /\ UNCHANGED <<pm, tx, misuse, scopes, adding, leaked, left, byHand>>
    BY <1>6 DEF Catch, Throws
  <2> QED BY <2>1, ExcStep DEF LibraryStep
<1>7. ASSUME NEW c \in Cells, NEW x \in Vals,
             Assign(t, c, x) \/ Construct(t, c, x) \/ Compute(t, c, x) \/ ComputeBits(t, c, x)
      PROVE  IInv' /\ LibraryStep(t)
  <2>1. Assign(t, c, x)
    BY <1>7 DEF Construct, Compute, ComputeBits
  <2>2. UNCHANGED <<scopes, adding, exc, leaked, byHand, left>> /\ Guarded(t, c)
        /\ Becomes(t, AddAndStore(View(t), c, x))
    BY <2>1 DEF Assign, BodyStep
  <2>3. PICK w : Wrote(t, {c}, w)
    BY <2>2, AssignWrote
  <2> QED BY <2>2, <2>3, WroteStep DEF LibraryStep
<1>8. ASSUME NEW c \in Cells, NEW d \in Cells, Swap(t, c, d)
      PROVE  IInv' /\ LibraryStep(t)
  <2>1. UNCHANGED <<scopes, adding, exc, leaked, byHand, left>>
    BY <1>8 DEF Swap, BodyStep
  <2>2. PICK w : Wrote(t, {c, d}, w)
    BY <1>8, SwapWrote
  <2> QED BY <2>1, <2>2, WroteStep DEF LibraryStep
<1>9. ASSUME NEW c \in Cells, GetRw(t, c)
      PROVE  IInv' /\ LibraryStep(t)
  <2>1. UNCHANGED <<scopes, adding, exc, leaked, byHand, left>>
    BY <1>9 DEF GetRw, BodyStep
  <2>2. PICK w : Wrote(t, {c}, w)
    BY <1>9, GetRwWrote
  <2> QED BY <2>1, <2>2, WroteStep DEF LibraryStep
<1>10. CASE AbortedSilently(t)
  <2>1. exc' = [exc EXCEPT ![t] = exc[t]]
    BY <1>2, <1>10 DEF AbortedSilently
  <2> QED BY <1>2, <1>10, <2>1, AbortsStep DEF AbortedSilently, InBody, LibraryStep
<1>11. CASE AddFails(t) \/ MakePersistentFails(t) \/ DeletePersistentFails(t)
  BY <1>2, <1>11, AbortsStep
     DEF AddFails, MakePersistentFails, DeletePersistentFails, InBody, Throws, LibraryStep
<1>12. ASSUME NEW o \in Objects, MakePersistent(t, o) \/ DeletePersistent(t, o)
       PROVE  IInv' /\ LibraryStep(t)
  BY <1>12, ObjectStep DEF MakePersistent, DeletePersistent, LibraryStep
<1>13. CASE ConstructorThrows(t)
  <2>1. CASE Dies /\ misuse' = misuse \union {"pmemobj_tx_free"}
    BY <2>1, DiesStep DEF LibraryStep
  <2>2. CASE Counts("faults") /\ Throws(t, "error")
             /\ UNCHANGED <<pm, tx, scopes, adding, leaked, left, byHand, misuse>>
    <3>1. adding[t] = <<>> /\ exc' = [exc EXCEPT ![t] = "error"]
      BY <1>13, <2>2 DEF ConstructorThrows, InBody, Throws
    <3> QED BY <2>2, <3>1, ExcStep DEF LibraryStep
  <2> QED BY <1>13, <2>1, <2>2 DEF ConstructorThrows
<1>14. CASE MakePersistentAtomicFails(t)
  <2>1. /\ adding[t] = <<>> /\ exc' = [exc EXCEPT ![t] = "error"]
        /\ UNCHANGED <<pm, tx, misuse, scopes, adding, leaked, left, byHand>>
    BY <1>14 DEF MakePersistentAtomicFails, InBody, Throws
  <2> QED BY <2>1, ExcStep DEF LibraryStep
<1>15. ASSUME NEW c \in Cells, Atomically(t, c)
       PROVE  IInv' /\ LibraryStep(t)
  BY <1>15, AtomicallyStep DEF LibraryStep
<1> QED BY <1>3, <1>4, <1>5, <1>6, <1>7, <1>8, <1>9, <1>10, <1>11, <1>12, <1>13, <1>14,
           <1>15 DEF BodyNext, Destroy, AllocateFails, Atomically

LEMMA NextInv == IInv /\ [Next]_vars => IInv'
<1> SUFFICES ASSUME IInv, [Next]_vars PROVE IInv'
  OBVIOUS
<1>1. ASSUME NEW t \in Threads, ScopeNext(t) \/ BodyNext(t) PROVE IInv'
  BY <1>1, ScopeNextStep, BodyNextStep
<1>2. ASSUME NEW c \in Cells, Persist(c) PROVE IInv'
  BY <1>2, PersistStep
<1>3. CASE Crash
  BY <1>3, DiesStep DEF Crash
<1>4. CASE UNCHANGED vars
  <2>1. UNCHANGED <<tx, scopes, adding, exc, leaked, byHand, left, misuse>> /\ pm' = pm
    BY <1>4 DEF vars
  <2> QED BY <2>1, PoolStep DEF IInv, TxType, Disjoint
<1> QED BY <1>1, <1>2, <1>3, <1>4 DEF Next

LEMMA Invariant == Spec => []IInv
BY InitInv, NextInv, PTL DEF Spec

-----------------------------------------------------------------------------
(* With any nesting, failed calls and exceptions caught in between, the    *)
(* scopes call pmemobj_tx_abort, _commit and _end in the stages that allow *)
(* them: their tests of pmemobj_tx_stage() are enough                      *)
(* (transaction.hpp:109-146, 391-436).  Nothing is claimed of              *)
(* pmemobj_tx_free, which make_persistent.hpp:91 calls without a test.     *)
THEOREM ScopesAlwaysRespectStages == Spec => []ScopesRespectStages
<1>1. IInv => ScopesRespectStages
  BY DEF IInv
<1> QED BY <1>1, Invariant, PTL

(* How the outermost scope is left tells whether its transaction has       *)
(* committed (transaction.hpp:219-233, 408-435).                           *)
THEOREM LeavingTellsOutcome == Spec => []LeftTellsOutcome
<1>1. IInv => LeftTellsOutcome
  BY DEF IInv, ThreadOK, LeftTells, LeftTellsOutcome
<1> QED BY <1>1, Invariant, PTL

(* Out of every scope a thread holds no lock and has no transaction open,  *)
(* unless a begin or a constructor of manual has failed on it              *)
(* (transaction.hpp:109-120).                                              *)
THEOREM ReleasedAtEnd == Spec => []ReleasedUnlessLeaked
<1>1. ASSUME IInv, NEW t \in Threads, scopes[t] = <<>>, t \notin leaked
      PROVE  /\ tx[t].stage = "NONE" /\ tx[t].entries = 0 /\ tx[t].locks = {}
             /\ tx[t].undo = NoUndo /\ tx[t].allocs = {} /\ tx[t].frees = {}
  <2>1. ThreadOK(t)
    BY <1>1 DEF IInv
  <2>2. tx[t].stage = "NONE" /\ tx[t].entries = Len(scopes[t])
    BY <1>1, <2>1 DEF ThreadOK, Matches
  <2>3. tx[t].entries = 0
    BY <1>1, <2>2
  <2> QED BY <2>1, <2>2, <2>3 DEF ThreadOK, Finished
<1>2. IInv => ReleasedUnlessLeaked
  BY <1>1 DEF ReleasedUnlessLeaked
<1> QED BY <1>2, Invariant, PTL

(* The bounds of the model. *)
UsedType == used \in [ops : 0..MaxOps, faults : 0..MaxFaults, crashes : 0..MaxCrashes]

LEMMA UsedStep == UsedType /\ [Next]_vars => UsedType'
<1> SUFFICES ASSUME UsedType, [Next]_vars PROVE UsedType'
  OBVIOUS
<1>1. CASE Counts("ops")
  BY <1>1, TxAssumption DEF Counts, UsedType
<1>2. CASE Counts("faults")
  BY <1>2, TxAssumption DEF Counts, UsedType
<1>3. CASE Counts("crashes")
  BY <1>3, TxAssumption DEF Counts, UsedType
<1>4. CASE UNCHANGED used
  BY <1>4 DEF UsedType
<1> DEFINE Bounded == Counts("ops") \/ Counts("faults") \/ Counts("crashes") \/ UNCHANGED used
<1>5. ASSUME NEW t \in Threads, ScopeNext(t) PROVE Bounded
  BY <1>5 DEF ScopeNext, ExecTx, Manual, Automatic, Begins, BeginFails, AddLock,
       ExecTxLockFails, ManualLockFails, LockFails, ExecReturns, ExecThrows, ManualEnds,
       AutomaticEnds, Leave
<1>6. ASSUME NEW t \in Threads, BodyNext(t) PROVE Bounded
  BY <1>6 DEF BodyNext, Abort, Commit, Throw, Catch, ScopeError, Assign, Construct, Compute,
       ComputeBits, Swap, GetRw, Destroy, AddFails, AllocateFails, AbortedSilently,
       MakePersistent, DeletePersistent, Allocate, Deallocate, MakePersistentFails,
       ConstructorThrows, DeletePersistentFails, MakePersistentAtomicFails,
       MakePersistentAtomic, DeletePersistentAtomic, BodyStep, Dies
<1>7. ASSUME NEW c \in Cells, Persist(c) PROVE Bounded
  BY <1>7 DEF Persist
<1>8. ASSUME Crash PROVE Bounded
  BY <1>8 DEF Crash, Dies
<1>9. ASSUME UNCHANGED vars PROVE Bounded
  BY <1>9 DEF vars
<1> QED BY <1>1, <1>2, <1>3, <1>4, <1>5, <1>6, <1>7, <1>8, <1>9 DEF Next

(* Every variable keeps its type; the library never counts more than one   *)
(* transaction over the scopes that are open, the one a failed constructor *)
(* of manual leaves behind.                                                *)
THEOREM TxTypeCorrect == Spec => []TypeOK
<1>1. Init => UsedType
  BY TxAssumption DEF Init, UsedType
<1>2. ASSUME IInv, UsedType PROVE TypeOK
  <2>1. pm.mem \in [Cells -> Vals] /\ pm.medium \in [Cells -> Vals] /\ pm.heap \subseteq Objects
    BY <1>2 DEF IInv, TxType, Pools, Contents
  <2>2. ASSUME NEW t \in Threads
        PROVE  /\ tx[t].stage \in Stages /\ tx[t].failed \in BOOLEAN
               /\ tx[t].undo \in Undos
               /\ tx[t].allocs \subseteq Objects /\ tx[t].frees \subseteq Objects
               /\ tx[t].locks \subseteq Locks
               /\ tx[t].outcome \in {"none", "committed", "aborted"}
    BY <1>2 DEF IInv, TxType, TxRecs, Outcomes
  <2>3. ASSUME NEW t \in Threads
        PROVE  /\ DOMAIN tx[t].undo \subseteq Cells
               /\ \A c \in DOMAIN tx[t].undo : tx[t].undo[c] \in Vals
    BY <2>2, UndoValues
  <2>4. ASSUME NEW t \in Threads
        PROVE  /\ scopes[t] \in Seq(Kinds) /\ Len(scopes[t]) <= MaxDepth
               /\ adding[t] \in Seq(Locks) /\ exc[t] \in {"none", "abort", "error"}
               /\ left[t] \in [kind : Kinds, by : {"none", "return", "throw"}]
    BY <1>2 DEF IInv, LayerType, Excs, Lefts
  <2>5. ASSUME NEW t \in Threads PROVE tx[t].entries \in 0..(MaxDepth + 1)
    <3>1. tx[t].entries \in Nat /\ MaxDepth \in Nat /\ Len(scopes[t]) \in Nat
      BY <1>2, <2>4, TxAssumption DEF IInv, TxType, TxRecs
    <3>2. \/ tx[t].entries = 0 \/ tx[t].entries = Len(scopes[t])
          \/ tx[t].entries = Len(scopes[t]) + 1
      BY <1>2 DEF IInv, ThreadOK, Matches
    <3> QED BY <2>4, <3>1, <3>2
  <2>6. leaked \subseteq Threads /\ byHand \subseteq Threads
    BY <1>2 DEF IInv, LayerType
  <2>7. used.ops \in 0..MaxOps /\ used.faults \in 0..MaxFaults
        /\ used.crashes \in 0..MaxCrashes
    BY <1>2 DEF UsedType
  <2> QED BY <2>1, <2>2, <2>3, <2>4, <2>5, <2>6, <2>7, Zenon DEF TypeOK
<1> QED BY <1>1, <1>2, UsedStep, Invariant, PTL DEF Spec

-----------------------------------------------------------------------------
(* The refinement: the abstract variables, and each abstract step in terms *)
(* of them.                                                                *)

Active == {t \in Threads : tx[t].stage = "WORK"}
Pending == [t \in Threads |-> DOMAIN tx[t].undo]
Reserved == [t \in Threads |-> tx[t].allocs]
Released == [t \in Threads |-> tx[t].frees]
Kept == pm'.mem = pm.mem /\ Recovered' = Recovered /\ pm'.heap = pm.heap
Promised == Promise!Next \/ UNCHANGED Promise!vars

(* The abstract transactions when the library's one of t becomes x. *)
BecomesAbstract(t, x) ==
  /\ Active' = (IF x.stage = "WORK" THEN Active \union {t} ELSE Active \ {t})
  /\ Pending' = [Pending EXCEPT ![t] = DOMAIN x.undo]
  /\ Reserved' = [Reserved EXCEPT ![t] = x.allocs]
  /\ Released' = [Released EXCEPT ![t] = x.frees]

LEMMA AbstractTx ==
  ASSUME NEW t \in Threads, NEW x, tx \in [Threads -> TxRecs], tx' = [tx EXCEPT ![t] = x]
  PROVE  BecomesAbstract(t, x)
<1>1. tx'[t] = x /\ \A u \in Threads \ {t} : tx'[u] = tx[u]
  OBVIOUS
<1>2. Active' = (IF x.stage = "WORK" THEN Active \union {t} ELSE Active \ {t})
  BY <1>1 DEF Active
<1>3. Pending' = [Pending EXCEPT ![t] = DOMAIN x.undo]
  BY <1>1 DEF Pending
<1>4. Reserved' = [Reserved EXCEPT ![t] = x.allocs]
  BY <1>1 DEF Reserved
<1>5. Released' = [Released EXCEPT ![t] = x.frees]
  BY <1>1 DEF Released
<1> QED BY <1>2, <1>3, <1>4, <1>5 DEF BecomesAbstract

(* What survives, when nothing that recovery looks at changes. *)
LEMMA SameRecovered ==
  ASSUME IInv, IInv', pm'.medium = pm.medium,
         \A u \in Threads : tx'[u].undo = tx[u].undo
  PROVE  Recovered' = Recovered
<1>1. RecoveredIs /\ RecoveredIs'
  BY Recovery, RecoveryNext
<1>2. ASSUME NEW c \in Cells PROVE Recovered'[c] = Recovered[c]
  <2>1. CASE \E t \in Threads : c \in DOMAIN tx[t].undo
    BY <1>1, <2>1 DEF RecoveredIs
  <2>2. CASE \A t \in Threads : c \notin DOMAIN tx[t].undo
    BY <1>1, <2>2 DEF RecoveredIs
  <2> QED BY <2>1, <2>2
<1> QED BY <1>1, <1>2 DEF RecoveredIs, Contents

(* A call that leaves the data of the transaction alone enters or suspends *)
(* it; one that undoes it is an abort, one that makes it durable a commit. *)
LEMMA EndsPromised ==
  ASSUME IInv, IInv', NEW t \in Threads, NEW w, Ends(t, w)
  PROVE  Promised
<1>1. tx \in [Threads -> TxRecs] /\ pm \in Pools /\ RecoveredIs /\ RecoveredIs'
  BY Recovery, RecoveryNext DEF IInv, TxType
<1>2. tx' = [tx EXCEPT ![t] = w.tx] /\ pm' = w.pm
  BY DEF Ends, Becomes
<1>3. tx'[t] = w.tx /\ \A u \in Threads \ {t} : tx'[u] = tx[u]
  BY <1>1, <1>2
<1>4. BecomesAbstract(t, w.tx)
  BY <1>1, <1>2, AbstractTx
<1>5. View(t).tx = tx[t] /\ View(t).pm = pm
  BY ViewType DEF IInv
<1>6. CASE Same(View(t), w)
  <2>1. pm' = pm /\ w.tx.undo = tx[t].undo /\ w.tx.allocs = tx[t].allocs
        /\ w.tx.frees = tx[t].frees
    BY <1>2, <1>5, <1>6 DEF Same
  <2>2. Kept
    BY <1>3, <2>1, SameRecovered DEF Kept
  <2>3. Pending' = Pending /\ Reserved' = Reserved /\ Released' = Released
    <3>1. \A u \in Threads : tx'[u].undo = tx[u].undo /\ tx'[u].allocs = tx[u].allocs
                              /\ tx'[u].frees = tx[u].frees
      BY <1>3, <2>1
    <3> QED BY <3>1 DEF Pending, Reserved, Released
  <2>4. CASE w.tx.stage = "WORK"
    <3>1. Active' = Active \union {t}
      BY <1>4, <2>4 DEF BecomesAbstract
    <3>2. Promise!Enter(t)
      BY <2>2, <2>3, <3>1 DEF Promise!Enter, Kept, Active, Pending, Reserved, Released
    <3> QED BY <3>2 DEF Promised, Promise!Next
  <2>5. CASE w.tx.stage # "WORK"
    <3>1. Active' = Active \ {t}
      BY <1>4, <2>5 DEF BecomesAbstract
    <3>2. Promise!Suspend(t)
      BY <2>2, <2>3, <3>1 DEF Promise!Suspend, Kept, Active, Pending, Reserved, Released
    <3> QED BY <3>2 DEF Promised, Promise!Next
  <2> QED BY <2>4, <2>5
<1>7. ASSUME Emptied(w), w.tx.stage # "WORK" PROVE Promise!Finish(t)
  <2>1. /\ Active' = Active \ {t} /\ Pending' = [Pending EXCEPT ![t] = {}]
        /\ Reserved' = [Reserved EXCEPT ![t] = {}] /\ Released' = [Released EXCEPT ![t] = {}]
    BY <1>4, <1>7, NoUndoType DEF BecomesAbstract, Emptied
  <2> QED BY <2>1 DEF Promise!Finish, Active, Pending, Reserved, Released
<1>8. Emptied(w) => \A u \in Threads, c \in Cells :
        c \in DOMAIN tx'[u].undo <=> (u # t /\ c \in DOMAIN tx[u].undo)
  BY <1>3, NoUndoType DEF Emptied
<1>9. CASE Undone(View(t), w) /\ w.tx.stage # "WORK"
  <2>1. /\ Emptied(w) /\ pm'.heap = pm.heap
        /\ pm'.mem = Overlay(tx[t].undo, pm.mem)
        /\ pm'.medium = Overlay(tx[t].undo, pm.medium)
    BY <1>2, <1>5, <1>9 DEF Undone
  <2>2. tx[t].undo \in Undos /\ pm.mem \in Contents /\ pm.medium \in Contents
    BY <1>1 DEF TxRecs, Pools
  <2>3. \A c \in Cells :
          /\ pm'.mem[c] = IF c \in DOMAIN tx[t].undo THEN tx[t].undo[c] ELSE pm.mem[c]
          /\ pm'.medium[c] = IF c \in DOMAIN tx[t].undo THEN tx[t].undo[c] ELSE pm.medium[c]
    BY <2>1, <2>2, OverlayType
  <2>4. pm'.mem \in Contents
    BY <2>1, <2>2, OverlayType
  <2>5. ASSUME NEW c \in Cells PROVE Recovered'[c] = Recovered[c]
    <3>1. CASE c \in DOMAIN tx[t].undo
      <4>1. \A u \in Threads : c \notin DOMAIN tx'[u].undo
        BY <1>8, <2>1, <3>1, OneOwner
      <4> QED BY <1>1, <2>3, <3>1, <4>1 DEF RecoveredIs
    <3>2. ASSUME NEW u \in Threads, u # t, c \in DOMAIN tx[u].undo
          PROVE  Recovered'[c] = Recovered[c]
      BY <1>1, <1>3, <3>2 DEF RecoveredIs
    <3>3. CASE \A u \in Threads : c \notin DOMAIN tx[u].undo
      BY <1>1, <1>8, <2>1, <2>3, <3>3 DEF RecoveredIs
    <3> QED BY <3>1, <3>2, <3>3
  <2>6. Recovered' = Recovered
    BY <1>1, <2>5 DEF RecoveredIs, Contents
  <2>7. \A c \in Cells : pm'.mem[c] = IF c \in Pending[t] THEN Recovered[c] ELSE pm.mem[c]
    BY <1>1, <2>3 DEF RecoveredIs, Pending
  <2>8. pm'.mem = [c \in Cells |-> IF c \in Pending[t] THEN Recovered[c] ELSE pm.mem[c]]
    BY <2>4, <2>7 DEF Contents
  <2>9. Promise!Abort(t)
    BY <1>7, <1>9, <2>1, <2>6, <2>8 DEF Promise!Abort, Pending
  <2> QED BY <2>9 DEF Promised, Promise!Next
<1>10. CASE Done(View(t), w) /\ tx[t].stage = "WORK" /\ w.tx.stage # "WORK"
  <2>1. /\ Emptied(w) /\ pm'.mem = pm.mem
        /\ pm'.heap = (pm.heap \union tx[t].allocs) \ tx[t].frees
        /\ \A c \in Cells : pm'.medium[c] = IF c \in DOMAIN tx[t].undo THEN pm.mem[c]
                                            ELSE pm.medium[c]
    BY <1>2, <1>5, <1>10 DEF Done
  <2>2. ASSUME NEW c \in Cells
        PROVE  Recovered'[c] = IF c \in Pending[t] THEN pm.mem[c] ELSE Recovered[c]
    <3>1. CASE c \in DOMAIN tx[t].undo
      <4>1. \A u \in Threads : c \notin DOMAIN tx'[u].undo
        BY <1>8, <2>1, <3>1, OneOwner
      <4> QED BY <1>1, <2>1, <3>1, <4>1 DEF RecoveredIs, Pending
    <3>2. ASSUME NEW u \in Threads, u # t, c \in DOMAIN tx[u].undo, c \notin DOMAIN tx[t].undo
          PROVE  Recovered'[c] = IF c \in Pending[t] THEN pm.mem[c] ELSE Recovered[c]
      BY <1>1, <1>3, <3>2 DEF RecoveredIs, Pending
    <3>3. CASE \A u \in Threads : c \notin DOMAIN tx[u].undo
      BY <1>1, <1>8, <2>1, <3>3 DEF RecoveredIs, Pending
    <3> QED BY <3>1, <3>2, <3>3
  <2>3. Recovered' = [c \in Cells |-> IF c \in Pending[t] THEN pm.mem[c] ELSE Recovered[c]]
    BY <1>1, <2>2 DEF RecoveredIs, Contents
  <2>4. pm'.heap = (pm.heap \union Reserved[t]) \ Released[t] /\ t \in Active
    BY <1>10, <2>1 DEF Reserved, Released, Active
  <2>5. Promise!Commit(t)
    BY <1>7, <1>10, <2>1, <2>3, <2>4
       DEF Promise!Commit, Pending, Reserved, Released, Active
  <2> QED BY <2>5 DEF Promised, Promise!Next
<1> QED BY <1>6, <1>9, <1>10 DEF Ends

(* What another thread has pending is guarded by a lock of that thread. *)
LEMMA GuardedIsOwn ==
  ASSUME IInv, NEW t \in Threads, NEW c \in Cells, Guarded(t, c), NEW u \in Threads, u # t
  PROVE  c \notin DOMAIN tx[u].undo
<1>1. ThreadOK(u) /\ Disjoint
  BY DEF IInv
<1> SUFFICES ASSUME c \in DOMAIN tx[u].undo PROVE FALSE
  OBVIOUS
<1>2. guard[c] \in tx[u].locks
  BY <1>1 DEF ThreadOK, GuardedUndo
<1> QED BY <1>1, <1>2 DEF Guarded, Held, Disjoint

(* A store in stage WORK is a write of the transaction, and otherwise one  *)
(* without a promise.                                                      *)
LEMMA WrotePromised ==
  ASSUME IInv, IInv', NEW t \in Threads, NEW C, NEW w, Wrote(t, C, w)
  PROVE  Promised
<1>1. tx \in [Threads -> TxRecs] /\ pm \in Pools /\ RecoveredIs /\ RecoveredIs'
  BY Recovery, RecoveryNext DEF IInv, TxType
<1>2. tx' = [tx EXCEPT ![t] = w.tx] /\ pm' = w.pm /\ w \in Views
  BY DEF Wrote, Becomes
<1>3. tx'[t] = w.tx /\ \A u \in Threads \ {t} : tx'[u] = tx[u]
  BY <1>1, <1>2
<1>4. BecomesAbstract(t, w.tx)
  BY <1>1, <1>2, AbstractTx
<1>5. C \subseteq Cells \ UNION {Pending[u] : u \in Threads \ {t}}
  BY GuardedIsOwn DEF Wrote, Pending
<1>6. pm'.mem \in Contents /\ (\A c \in Cells \ C : pm'.mem[c] = pm.mem[c])
      /\ pm'.medium = pm.medium /\ pm'.heap = pm.heap
  BY <1>2 DEF Wrote, Views, Pools
<1>7. Reserved' = Reserved /\ Released' = Released /\ Active' = Active
  <2>1. \A u \in Threads : tx'[u].stage = tx[u].stage /\ tx'[u].allocs = tx[u].allocs
                            /\ tx'[u].frees = tx[u].frees
    BY <1>3 DEF Wrote
  <2> QED BY <2>1 DEF Reserved, Released, Active
<1>8. CASE tx[t].stage = "WORK"
  <2>1. /\ DOMAIN w.tx.undo = DOMAIN tx[t].undo \union C
        /\ \A c \in DOMAIN tx[t].undo : w.tx.undo[c] = tx[t].undo[c]
        /\ \A c \in C \ DOMAIN tx[t].undo : w.tx.undo[c] = pm.mem[c]
    BY <1>8 DEF Wrote
  <2>2. Pending' = [Pending EXCEPT ![t] = @ \union C]
    BY <1>4, <2>1 DEF BecomesAbstract, Pending
  <2>3. ASSUME NEW c \in Cells
        PROVE  Recovered'[c] = IF c \in C \ Pending[t] THEN pm.mem[c] ELSE Recovered[c]
    <3>1. CASE c \in C \ DOMAIN tx[t].undo
      BY <1>1, <1>3, <2>1, <3>1 DEF RecoveredIs, Pending
    <3>2. CASE c \in DOMAIN tx[t].undo
      BY <1>1, <1>3, <2>1, <3>2 DEF RecoveredIs, Pending
    <3>3. ASSUME c \notin C, NEW u \in Threads, u # t, c \in DOMAIN tx[u].undo
          PROVE  Recovered'[c] = IF c \in C \ Pending[t] THEN pm.mem[c] ELSE Recovered[c]
      BY <1>1, <1>3, <3>3 DEF RecoveredIs
    <3>4. CASE c \notin C /\ \A u \in Threads : c \notin DOMAIN tx[u].undo
      BY <1>1, <1>3, <1>6, <2>1, <3>4 DEF RecoveredIs
    <3> QED BY <3>1, <3>2, <3>3, <3>4
  <2>4. Recovered' = [c \in Cells |-> IF c \in C \ Pending[t] THEN pm.mem[c] ELSE Recovered[c]]
    BY <1>1, <2>3 DEF RecoveredIs, Contents
  <2>5. t \in Active
    BY <1>8 DEF Active
  <2>6. Promise!OnlyChanges(C)
    BY <1>6 DEF Promise!OnlyChanges, Contents
  <2>7. C \in SUBSET Promise!Own(t)
    BY <1>5 DEF Promise!Own, Pending
  <2>8. Promise!Write(t)
    BY <1>6, <1>7, <2>2, <2>4, <2>5, <2>6, <2>7
       DEF Promise!Write, Active, Pending, Reserved, Released
  <2> QED BY <2>8 DEF Promised, Promise!Next
<1>9. CASE tx[t].stage # "WORK"
  <2>1. w.tx.undo = tx[t].undo
    BY <1>9 DEF Wrote
  <2>2. Recovered' = Recovered
    BY <1>3, <1>6, <2>1, SameRecovered
  <2>3. Pending' = Pending /\ t \notin Active
    BY <1>4, <1>9, <2>1 DEF BecomesAbstract, Pending, Active
  <2>4. \A c \in Cells \ Promise!Own(t) : pm'.mem[c] = pm.mem[c]
    BY <1>5, <1>6 DEF Promise!Own, Pending
  <2>5. Promise!OnlyChanges(Promise!Own(t))
    BY <1>6, <2>4 DEF Promise!OnlyChanges, Contents
  <2>6. Promise!Direct(t)
    BY <1>6, <1>7, <2>2, <2>3, <2>5
       DEF Promise!Direct, Active, Pending, Reserved, Released
  <2> QED BY <2>6 DEF Promised, Promise!Next
<1> QED BY <1>8, <1>9

(* An allocated object is nobody's before, and a freed one is the heap's   *)
(* or the transaction's own.                                               *)
LEMMA ObjectPromised ==
  ASSUME IInv, IInv', NEW t \in Threads, NEW o \in Objects, Allocate(t, o) \/ Deallocate(t, o)
  PROVE  Promised
<1>1. tx \in [Threads -> TxRecs] /\ tx[t] \in TxRecs
  BY DEF IInv, TxType
<1>2. View(t) \in Views /\ View(t).tx = tx[t] /\ View(t).pm = pm
  BY ViewType DEF IInv
<1>3. t \in Active
  BY DEF Allocate, Deallocate, Active
<1>4. ASSUME NEW A, Becomes(t, [View(t) EXCEPT !.tx.allocs = A])
      PROVE  /\ Kept /\ Active' = Active /\ Pending' = Pending /\ Released' = Released
             /\ Reserved' = [Reserved EXCEPT ![t] = A]
  <2> DEFINE x == [tx[t] EXCEPT !.allocs = A]
  <2>1. tx' = [tx EXCEPT ![t] = x] /\ pm' = pm
    BY <1>2, <1>4 DEF Becomes, Views
  <2>2. x.stage = tx[t].stage /\ x.undo = tx[t].undo /\ x.allocs = A /\ x.frees = tx[t].frees
    BY <1>1 DEF TxRecs
  <2> HIDE DEF x
  <2>3. tx'[t] = x /\ \A u \in Threads \ {t} : tx'[u] = tx[u]
    BY <1>1, <2>1
  <2>4. \A u \in Threads : tx'[u].stage = tx[u].stage /\ tx'[u].undo = tx[u].undo
                           /\ tx'[u].frees = tx[u].frees
    BY <2>2, <2>3
  <2>5. Active' = Active /\ Pending' = Pending /\ Released' = Released
    BY <2>4 DEF Active, Pending, Released
  <2>6. Kept
    BY <2>1, <2>4, SameRecovered DEF Kept
  <2>7. Reserved' = [Reserved EXCEPT ![t] = A]
    BY <1>1, <2>1, <2>2, AbstractTx DEF BecomesAbstract
  <2> QED BY <2>5, <2>6, <2>7
<1>5. ASSUME NEW F, Becomes(t, [View(t) EXCEPT !.tx.frees = F])
      PROVE  /\ Kept /\ Active' = Active /\ Pending' = Pending /\ Reserved' = Reserved
             /\ Released' = [Released EXCEPT ![t] = F]
  <2> DEFINE x == [tx[t] EXCEPT !.frees = F]
  <2>1. tx' = [tx EXCEPT ![t] = x] /\ pm' = pm
    BY <1>2, <1>5 DEF Becomes, Views
  <2>2. x.stage = tx[t].stage /\ x.undo = tx[t].undo /\ x.frees = F /\ x.allocs = tx[t].allocs
    BY <1>1 DEF TxRecs
  <2> HIDE DEF x
  <2>3. tx'[t] = x /\ \A u \in Threads \ {t} : tx'[u] = tx[u]
    BY <1>1, <2>1
  <2>4. \A u \in Threads : tx'[u].stage = tx[u].stage /\ tx'[u].undo = tx[u].undo
                           /\ tx'[u].allocs = tx[u].allocs
    BY <2>2, <2>3
  <2>5. Active' = Active /\ Pending' = Pending /\ Reserved' = Reserved
    BY <2>4 DEF Active, Pending, Reserved
  <2>6. Kept
    BY <2>1, <2>4, SameRecovered DEF Kept
  <2>7. Released' = [Released EXCEPT ![t] = F]
    BY <1>1, <2>1, <2>2, AbstractTx DEF BecomesAbstract
  <2> QED BY <2>5, <2>6, <2>7
<1>6. Reserved[t] = tx[t].allocs /\ Released[t] = tx[t].frees
  BY DEF Reserved, Released
<1>7. CASE Allocate(t, o)
  <2>1. Becomes(t, [View(t) EXCEPT !.tx.allocs = tx[t].allocs \union {o}])
    BY <1>2, <1>7 DEF Allocate, Views
  <2>2. o \notin pm.heap /\ \A u \in Threads : o \notin Reserved[u]
    BY <1>7 DEF Allocate, Allocated, Reserved
  <2>3. Reserved' = [Reserved EXCEPT ![t] = @ \union {o}]
    BY <1>4, <1>6, <2>1
  <2>4. Promise!Allocate(t, o)
    BY <1>3, <1>4, <2>1, <2>2, <2>3
       DEF Promise!Allocate, Kept, Active, Pending, Reserved, Released
  <2> QED BY <2>4 DEF Promised, Promise!Next
<1>8. CASE Becomes(t, [View(t) EXCEPT !.tx.allocs = @ \ {o}]) /\ o \in tx[t].allocs
  <2>1. Becomes(t, [View(t) EXCEPT !.tx.allocs = tx[t].allocs \ {o}])
    BY <1>2, <1>8 DEF Views
  <2>2. Reserved' = [Reserved EXCEPT ![t] = @ \ {o}]
    BY <1>4, <1>6, <2>1
  <2>3. o \in Reserved[t] /\ o \notin Released[t]
    BY <1>6, <1>8 DEF IInv, Disjoint
  <2>4. Promise!Delete(t, o)
    BY <1>3, <1>4, <2>1, <2>2, <2>3
       DEF Promise!Delete, Kept, Active, Pending, Reserved, Released
  <2> QED BY <2>4 DEF Promised, Promise!Next
<1>9. CASE Becomes(t, [View(t) EXCEPT !.tx.frees = @ \union {o}]) /\ o \in pm.heap
           /\ \A u \in Threads : o \notin tx[u].frees
  <2>1. Becomes(t, [View(t) EXCEPT !.tx.frees = tx[t].frees \union {o}])
    BY <1>2, <1>9 DEF Views
  <2>2. Released' = [Released EXCEPT ![t] = @ \union {o}]
    BY <1>5, <1>6, <2>1
  <2>3. o \notin Released[t]
    BY <1>6, <1>9
  <2>4. Promise!Delete(t, o)
    BY <1>3, <1>5, <1>9, <2>1, <2>2, <2>3
       DEF Promise!Delete, Kept, Active, Pending, Reserved, Released
  <2> QED BY <2>4 DEF Promised, Promise!Next
<1> QED BY <1>7, <1>8, <1>9 DEF Deallocate

SameAbstract == Active' = Active /\ Pending' = Pending /\ Reserved' = Reserved
                /\ Released' = Released

LEMMA SameTxsAbstract == SameTxs => SameAbstract
BY DEF SameTxs, SameAbstract, Active, Pending, Reserved, Released

LEMMA AtomicallyPromised ==
  ASSUME IInv, IInv', NEW t \in Threads, NEW c \in Cells, Atomically(t, c)
  PROVE  Promised
<1>1. scopes[t] = <<>> /\ Guarded(t, c) /\ tx' = tx
  BY AtomicallyIs
<1>2. PICK x \in Vals, H \in SUBSET Objects :
        /\ pm' = [mem |-> [pm.mem EXCEPT ![c] = x],
                  medium |-> [pm.medium EXCEPT ![c] = x], heap |-> H]
        /\ H \in {pm.heap \union {x}, pm.heap \ {pm.mem[c]}}
  BY AtomicallyIs
<1>3. ThreadOK(t) /\ RecoveredIs /\ RecoveredIs' /\ pm.mem \in Contents /\ pm.medium \in Contents
      /\ tx[t].entries \in Nat
  BY Recovery, RecoveryNext DEF IInv, TxType, TxRecs, Pools
<1>4. tx[t].stage # "WORK" /\ DOMAIN tx[t].undo = {}
  <2>1. Len(scopes[t]) = 0
    BY <1>1
  <2>2. tx[t].stage # "WORK" /\ tx[t].entries <= 1
    BY <1>1, <1>3, <2>1 DEF ThreadOK, Matches
  <2> QED BY <1>3, <2>2, NoUndoType DEF ThreadOK, Finished
<1>5. \A u \in Threads : c \notin DOMAIN tx[u].undo
  BY <1>1, <1>4, GuardedIsOwn
<1>6. pm'.mem = [pm.mem EXCEPT ![c] = x] /\ pm'.medium = [pm.medium EXCEPT ![c] = x]
      /\ pm'.heap = H /\ pm'.mem[c] = x
  BY <1>2, <1>3 DEF Contents
<1>7. ASSUME NEW d \in Cells PROVE Recovered'[d] = IF d = c THEN x ELSE Recovered[d]
  <2>1. CASE \E u \in Threads : d \in DOMAIN tx[u].undo
    BY <1>1, <1>3, <1>5, <2>1 DEF RecoveredIs
  <2>2. CASE \A u \in Threads : d \notin DOMAIN tx[u].undo
    BY <1>1, <1>3, <1>6, <2>2 DEF RecoveredIs, Contents
  <2> QED BY <2>1, <2>2
<1>8. Recovered' = [Recovered EXCEPT ![c] = x]
  BY <1>3, <1>7 DEF RecoveredIs, Contents
<1>9. Active' = Active /\ Pending' = Pending /\ Reserved' = Reserved /\ Released' = Released
  BY <1>1, SameTxsAbstract DEF SameTxs, SameAbstract
<1>10. t \notin Active /\ \A u \in Threads : c \notin Pending[u]
  BY <1>4, <1>5 DEF Active, Pending
<1>11. pm'.heap \in {pm.heap \union {pm'.mem[c]}, pm.heap \ {pm.mem[c]}}
  BY <1>2, <1>6
<1>12. Promise!Atomic(t, c)
  BY <1>6, <1>8, <1>9, <1>10, <1>11
     DEF Promise!Atomic, Promise!Settled, Active, Pending, Reserved, Released
<1> QED BY <1>12 DEF Promised, Promise!Next

(* A cell that leaves the cache settles, or is in a log that restores it. *)
LEMMA PersistPromised ==
  ASSUME IInv, IInv', NEW c \in Cells, Persist(c)
  PROVE  Promised
<1>1. pm' = [pm EXCEPT !.medium = [pm.medium EXCEPT ![c] = pm.mem[c]]] /\ tx' = tx
  BY PersistStep DEF Persist
<1>2. RecoveredIs /\ RecoveredIs' /\ pm \in Pools /\ pm.medium \in Contents /\ pm.mem \in Contents
  BY Recovery, RecoveryNext DEF IInv, TxType, Pools
<1>3. pm'.mem = pm.mem /\ pm'.heap = pm.heap /\ pm'.medium = [pm.medium EXCEPT ![c] = pm.mem[c]]
  BY <1>1, <1>2 DEF Pools
<1>4. Active' = Active /\ Pending' = Pending /\ Reserved' = Reserved /\ Released' = Released
  BY <1>1, SameTxsAbstract DEF SameTxs, SameAbstract
<1>5. ASSUME NEW d \in Cells, d # c \/ \E u \in Threads : c \in DOMAIN tx[u].undo
      PROVE  Recovered'[d] = Recovered[d]
  <2>1. CASE \E u \in Threads : d \in DOMAIN tx[u].undo
    BY <1>1, <1>2, <2>1 DEF RecoveredIs
  <2>2. CASE \A u \in Threads : d \notin DOMAIN tx[u].undo
    BY <1>1, <1>2, <1>3, <1>5, <2>2 DEF RecoveredIs, Contents
  <2> QED BY <2>1, <2>2
<1>6. CASE \E u \in Threads : c \in DOMAIN tx[u].undo
  <2>1. Recovered' = Recovered
    BY <1>2, <1>5, <1>6 DEF RecoveredIs, Contents
  <2>2. UNCHANGED Promise!vars
    BY <1>3, <1>4, <2>1 DEF Promise!vars, Active, Pending, Reserved, Released
  <2> QED BY <2>2 DEF Promised
<1>7. CASE \A u \in Threads : c \notin DOMAIN tx[u].undo
  <2>1. Recovered'[c] = pm.mem[c]
    BY <1>1, <1>2, <1>3, <1>7 DEF RecoveredIs, Contents
  <2>2. Recovered' = [Recovered EXCEPT ![c] = pm.mem[c]]
    BY <1>2, <1>5, <2>1 DEF RecoveredIs, Contents
  <2>3. \A u \in Threads : c \notin Pending[u]
    BY <1>7 DEF Pending
  <2>4. Promise!Settle(c)
    BY <1>3, <1>4, <2>2, <2>3
       DEF Promise!Settle, Promise!Settled, Active, Pending, Reserved, Released
  <2> QED BY <2>4 DEF Promised, Promise!Next
<1> QED BY <1>6, <1>7

(* After the death of the process, every transaction is gone and the undo  *)
(* logs have been applied: what survives is what survived before.          *)
LEMMA DiesPromised ==
  ASSUME IInv, IInv', Dies, misuse' \in {misuse, misuse \union {"pmemobj_tx_free"}}
  PROVE  Promised
<1>1. Fresh' /\ pm'.mem = Recovered /\ pm'.medium = Recovered /\ pm'.heap = pm.heap
  BY DiesStep
<1>2. RecoveredIs /\ RecoveredIs'
  BY Recovery, RecoveryNext
<1>3. ASSUME NEW t \in Threads
      PROVE  tx'[t].stage = "NONE" /\ DOMAIN tx'[t].undo = {} /\ tx'[t].allocs = {}
             /\ tx'[t].frees = {}
  BY <1>1, NoUndoType DEF Fresh, NoTx
<1>4. Recovered' = Recovered
  BY <1>1, <1>2, <1>3 DEF RecoveredIs, Contents
<1>5. Active' = {}
  BY <1>3 DEF Active
<1>6. /\ Pending' = [t \in Threads |-> {}] /\ Reserved' = [t \in Threads |-> {}]
      /\ Released' = [t \in Threads |-> {}]
  BY <1>3 DEF Pending, Reserved, Released
<1>7. Promise!Crash
  BY <1>1, <1>4, <1>5, <1>6
     DEF Promise!Crash, Promise!None, Active, Pending, Reserved, Released
<1> QED BY <1>7 DEF Promised, Promise!Next

LEMMA NextPromised == IInv /\ IInv' /\ [Next]_vars => Promised
<1> SUFFICES ASSUME IInv, IInv', [Next]_vars PROVE Promised
  OBVIOUS
<1>1. ASSUME SameTxs, pm' = pm PROVE Promised
  <2>1. Recovered' = Recovered
    BY <1>1, SameRecovered DEF SameTxs
  <2>2. SameAbstract
    BY <1>1, SameTxsAbstract
  <2>3. UNCHANGED Promise!vars
    BY <1>1, <2>1, <2>2 DEF Promise!vars, SameAbstract, Active, Pending, Reserved, Released
  <2> QED BY <2>3 DEF Promised
<1>2. ASSUME NEW t \in Threads, ScopeNext(t) \/ BodyNext(t) PROVE Promised
  <2>1. LibraryStep(t)
    BY <1>2, ScopeNextStep, BodyNextStep
  <2>2. CASE SameTxs /\ UNCHANGED pm
    BY <1>1, <2>2
  <2>3. CASE Dies /\ misuse' \in {misuse, misuse \union {"pmemobj_tx_free"}}
    BY <2>3, DiesPromised
  <2> QED BY <2>1, <2>2, <2>3, EndsPromised, WrotePromised, ObjectPromised,
             AtomicallyPromised DEF LibraryStep
<1>3. ASSUME NEW c \in Cells, Persist(c) PROVE Promised
  BY <1>3, PersistPromised
<1>4. CASE Crash
  BY <1>4, DiesPromised DEF Crash
<1>5. CASE UNCHANGED vars
  BY <1>1, <1>5 DEF vars, SameTxs
<1> QED BY <1>2, <1>3, <1>4, <1>5 DEF Next

(* All or nothing: whatever the nesting, the failures, the exceptions and  *)
(* the deaths of the process, what survives changes as TxStore allows.     *)
THEOREM TransactionsAreAtomic == Spec => ImplementsTxStore
<1>1. Init => Promise!Init
  <2> SUFFICES ASSUME Init PROVE Promise!Init
    OBVIOUS
  <2>1. IInv /\ RecoveredIs
    BY InitInv, Recovery
  <2>2. pm.mem = pm.medium /\ pm.heap = {} /\ pm.mem \in Contents
    BY <2>1 DEF Init, IInv, TxType, Pools
  <2>3. \A t \in Threads : tx[t].stage = "NONE" /\ DOMAIN tx[t].undo = {}
                           /\ tx[t].allocs = {} /\ tx[t].frees = {}
    BY NoUndoType DEF Init, NoTx
  <2>4. Recovered = pm.mem
    BY <2>1, <2>2, <2>3 DEF RecoveredIs, Contents
  <2>5. Active = {} /\ Pending = [t \in Threads |-> {}] /\ Reserved = [t \in Threads |-> {}]
        /\ Released = [t \in Threads |-> {}]
    BY <2>3 DEF Active, Pending, Reserved, Released
  <2> QED BY <2>2, <2>4, <2>5
          DEF Promise!Init, Promise!None, Contents, Active, Pending, Reserved, Released
<1>2. IInv /\ IInv' /\ [Next]_vars => [Promise!Next]_(Promise!vars)
  BY NextPromised DEF Promised
<1> QED BY <1>1, <1>2, Invariant, PTL DEF Spec, ImplementsTxStore, Promise!Spec

=============================================================================
