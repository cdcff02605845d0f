------------------------------- MODULE PmemTx -------------------------------
(***************************************************************************)
(* Transactions of libpmemobj++ (transaction.hpp, p.hpp, persistent_ptr,   *)
(* make_persistent), the layer on which every persistent structure of the  *)
(* repository is built: closures run by exec_tx, manual and automatic      *)
(* scopes, nested in each other, over the calls pmemobj_tx_* of the C      *)
(* library.  Those calls are external: they are modelled from the contract *)
(* that libpmemobj/tx_base.h states and from how the C++ layer uses them.  *)
(*                                                                         *)
(* Threads run bodies that may do anything the layer offers, in any order: *)
(* write and allocate, abort or commit by hand, throw, catch an exception  *)
(* and carry on.  A body writes a cell only under the lock that guards it, *)
(* which is what the lock arguments of a transaction are for.  The process *)
(* may die at any point; a store that was not flushed may be lost then.    *)
(***************************************************************************)
EXTENDS Naturals, Sequences, FiniteSets

CONSTANTS
  Threads,
  Cells,      \* p<> and persistent_ptr<> variables in the pool
  Objects,    \* the objects the allocator can hand out
  Vals,       \* values of cells
  Null,       \* the null pointer
  Locks,      \* pmem-resident mutexes
  guard,      \* the lock that guards a cell
  Faults,     \* the calls that may fail: begin, lock, add, alloc, free,
              \* constructor
  MaxDepth,   \* bound: nested scopes
  MaxOps,     \* bound: operations of all bodies, scopes included
  MaxFaults,  \* bound: failed calls
  MaxCrashes  \* bound: deaths of the process

ASSUME TxAssumption ==
  /\ Objects \union {Null} \subseteq Vals /\ Null \notin Objects
  /\ guard \in [Cells -> Locks]
  /\ {MaxDepth, MaxOps, MaxFaults, MaxCrashes} \subseteq Nat

VARIABLES
  pm,       \* the pool: mem as the process sees it, medium, the allocated heap
  tx,       \* the library's transaction of each thread
  scopes,   \* each thread's open C++ scopes, innermost last
  adding,   \* the locks the innermost scope has still to add
  exc,      \* the exception in flight: "none", "abort" (manual_tx_abort), "error"
  leaked,   \* threads that met a failed pmemobj_tx_begin or manual constructor
  byHand,   \* threads whose body has called transaction::commit itself
  left,     \* history: how a thread's last outermost scope was left
  misuse,   \* history: library calls made in a stage that forbids them
  used      \* bounds: operations, faults and crashes so far

vars == <<pm, tx, scopes, adding, exc, leaked, byHand, left, misuse, used>>

Kinds == {"exec_tx", "manual", "automatic"}
Stages == {"NONE", "WORK", "ONCOMMIT", "ONABORT"}
NoUndo == <<>>
NoTx == [stage |-> "NONE", entries |-> 0, failed |-> FALSE, undo |-> NoUndo,
         allocs |-> {}, frees |-> {}, locks |-> {}, outcome |-> "none"]
NotLeft == [kind |-> "exec_tx", by |-> "none"]

OverlayLogOnly(f, g) == f
Overlay(f, g) == [c \in DOMAIN g |-> IF c \in DOMAIN f THEN f[c] ELSE g[c]]

(* What the next process finds: the undo logs are applied on recovery.     *)
Recovered == [c \in Cells |->
  IF \E t \in Threads : c \in DOMAIN tx[t].undo
  THEN tx[CHOOSE t \in Threads : c \in DOMAIN tx[t].undo].undo[c]
  ELSE pm.medium[c]]

TypeOK ==
  /\ pm.mem \in [Cells -> Vals] /\ pm.medium \in [Cells -> Vals]
  /\ pm.heap \subseteq Objects
  /\ \A t \in Threads :
       /\ tx[t].stage \in Stages /\ tx[t].entries \in 0..(MaxDepth + 1)
       /\ tx[t].failed \in BOOLEAN
       /\ DOMAIN tx[t].undo \subseteq Cells
       /\ \A c \in DOMAIN tx[t].undo : tx[t].undo[c] \in Vals
       /\ tx[t].allocs \subseteq Objects /\ tx[t].frees \subseteq Objects
       /\ tx[t].locks \subseteq Locks
       /\ tx[t].outcome \in {"none", "committed", "aborted"}
       /\ scopes[t] \in Seq(Kinds) /\ Len(scopes[t]) <= MaxDepth
       /\ adding[t] \in Seq(Locks)
       /\ exc[t] \in {"none", "abort", "error"}
       /\ left[t] \in [kind : Kinds, by : {"none", "return", "throw"}]
  /\ leaked \subseteq Threads /\ byHand \subseteq Threads
  /\ used.ops \in 0..MaxOps /\ used.faults \in 0..MaxFaults
  /\ used.crashes \in 0..MaxCrashes

Init ==
  /\ \E m \in [Cells -> {Null}] : pm = [mem |-> m, medium |-> m, heap |-> {}]
  /\ tx = [t \in Threads |-> NoTx] /\ scopes = [t \in Threads |-> <<>>]
  /\ adding = [t \in Threads |-> <<>>] /\ exc = [t \in Threads |-> "none"]
  /\ leaked = {} /\ byHand = {} /\ left = [t \in Threads |-> NotLeft]
  /\ misuse = {} /\ used = [ops |-> 0, faults |-> 0, crashes |-> 0]

-----------------------------------------------------------------------------
(* The library, as functions of what a thread sees of it.                  *)

View(t) == [tx |-> tx[t], pm |-> pm, misuse |-> misuse]
Becomes(t, v) ==
  tx' = [tx EXCEPT ![t] = v.tx] /\ pm' = v.pm /\ misuse' = v.misuse
Misused(v, call) == [v EXCEPT !.misuse = @ \union {call}]

(* pmemobj_tx_begin, in stage NONE or WORK                                 *)
TxBegin(v) ==
  IF v.tx.stage = "NONE"
  THEN [v EXCEPT !.tx = [NoTx EXCEPT !.stage = "WORK", !.entries = 1]]
  ELSE [v EXCEPT !.tx.entries = @ + 1, !.tx.failed = FALSE]

(* pmemobj_tx_abort: the undo log is applied by the outermost transaction  *)
TxAbort(v) ==
  IF v.tx.stage # "WORK" THEN Misused(v, "pmemobj_tx_abort")
  ELSE IF v.tx.entries > 1
  THEN [v EXCEPT !.tx.stage = "ONABORT", !.tx.failed = TRUE]
  ELSE [v EXCEPT !.tx = [@ EXCEPT !.stage = "ONABORT", !.failed = TRUE, !.undo = NoUndo,
                           !.allocs = {}, !.frees = {}, !.outcome = "aborted"],
                 !.pm.mem = Overlay(v.tx.undo, @), !.pm.medium = Overlay(v.tx.undo, @)]

(* pmemobj_tx_commit: what the outermost transaction wrote is flushed      *)
TxCommit(v) ==
  IF v.tx.stage # "WORK" THEN Misused(v, "pmemobj_tx_commit")
  ELSE IF v.tx.entries > 1 THEN [v EXCEPT !.tx.stage = "ONCOMMIT"]
  ELSE [v EXCEPT !.tx = [@ EXCEPT !.stage = "ONCOMMIT", !.undo = NoUndo,
                           !.allocs = {}, !.frees = {}, !.outcome = "committed"],
                 !.pm.medium = [c \in Cells |-> IF c \in DOMAIN v.tx.undo
                                                THEN v.pm.mem[c] ELSE @[c]],
                 !.pm.heap = (@ \union v.tx.allocs) \ v.tx.frees]

(* pmemobj_tx_end: the locks go with the outermost transaction; an error   *)
(* of a nested one aborts the one around it                                *)
TxEnd(v) ==
  IF v.tx.stage = "WORK" THEN Misused(v, "pmemobj_tx_end")
  ELSE IF v.tx.entries <= 1
  THEN [v EXCEPT !.tx = [NoTx EXCEPT !.outcome = v.tx.outcome]]
  ELSE LET resumed == [v EXCEPT !.tx.stage = "WORK", !.tx.entries = @ - 1]
       IN IF v.tx.failed THEN TxAbort(resumed) ELSE resumed

(* pmemobj_tx_add_range and pmemobj_tx_add_range_direct                    *)
AddRange(v, c) ==
  IF c \in DOMAIN v.tx.undo THEN v
  ELSE [v EXCEPT !.tx.undo = [d \in DOMAIN @ \union {c} |->
                                IF d = c THEN v.pm.mem[c] ELSE @[d]]]

Held(l) == \E t \in Threads : l \in tx[t].locks
Allocated(o) == o \in pm.heap \/ \E t \in Threads : o \in tx[t].allocs

-----------------------------------------------------------------------------
(* The start of a scope.                                                   *)

Counts(what) == /\ used[what] < [ops |-> MaxOps, faults |-> MaxFaults,
                                 crashes |-> MaxCrashes][what]
                /\ used' = [used EXCEPT ![what] = @ + 1]
InBody(t) == adding[t] = <<>> /\ exc[t] = "none"
Throws(t, e) == exc' = [exc EXCEPT ![t] = e]
Inner(t) == scopes[t][Len(scopes[t])]
Popped(t) == SubSeq(scopes[t], 1, Len(scopes[t]) - 1)

(* A scope begins, in one of the two stages in which the library does not  *)
(* end the process (which is a Crash); its locks are still to be added.    *)
Begins(t, kind, locks) ==
  /\ InBody(t) /\ Len(scopes[t]) < MaxDepth /\ Counts("ops")
  /\ tx[t].stage \in {"NONE", "WORK"}
  /\ Becomes(t, TxBegin(View(t)))
  /\ scopes' = [scopes EXCEPT ![t] = Append(@, kind)]
  /\ adding' = [adding EXCEPT ![t] = locks]
  /\ IF scopes[t] = <<>>
     THEN byHand' = byHand \ {t} /\ left' = [left EXCEPT ![t] = NotLeft]
     ELSE UNCHANGED <<byHand, left>>
  /\ UNCHANGED <<exc, leaked>>
ExecTx(t, locks) == Begins(t, "exec_tx", locks)
Manual(t, locks) == Begins(t, "manual", locks)
Automatic(t, locks) == Begins(t, "automatic", locks)

(* a failed begin leaves stage ONABORT and, in all three, calls no tx_end  *)
BeginFails(t) ==
  /\ "begin" \in Faults /\ Counts("faults")
  /\ InBody(t) /\ Len(scopes[t]) < MaxDepth /\ tx[t].stage \in {"NONE", "WORK"}
  /\ IF tx[t].stage = "WORK"
     THEN Becomes(t, TxAbort(View(t))) /\ UNCHANGED leaked
     ELSE /\ Becomes(t, [View(t) EXCEPT !.tx.stage = "ONABORT"])
          /\ leaked' = leaked \union {t}
  /\ Throws(t, "error")
  /\ UNCHANGED <<scopes, adding, byHand, left>>

(* add_lock: a lock the transaction has already is not taken again         *)
AddLock(t) ==
  /\ adding[t] # <<>>
  /\ Head(adding[t]) \in tx[t].locks \/ ~Held(Head(adding[t]))
  /\ tx' = [tx EXCEPT ![t].locks = @ \union {Head(adding[t])}]
  /\ adding' = [adding EXCEPT ![t] = Tail(@)]
  /\ UNCHANGED <<pm, scopes, exc, leaked, byHand, left, misuse, used>>

(* pmemobj_tx_lock fails, and the scope is left with the library at v      *)
LockFails(t, v) ==
  /\ "lock" \in Faults /\ Counts("faults")
  /\ adding[t] # <<>>
  /\ Becomes(t, v) /\ Throws(t, "error")
  /\ scopes' = [scopes EXCEPT ![t] = Popped(t)]
  /\ adding' = [adding EXCEPT ![t] = <<>>]
  /\ UNCHANGED <<byHand, left>>

(* exec_tx ends the transaction                                            *)
ExecTxLockFailsOpen(t) ==
  /\ LockFails(t, TxAbort(View(t)))
  /\ Inner(t) = "exec_tx" /\ UNCHANGED leaked
ExecTxLockFails(t) ==
  /\ LockFails(t, TxEnd(TxAbort(View(t))))
  /\ Inner(t) = "exec_tx" /\ UNCHANGED leaked

(* the constructor of manual, also the one in automatic, does not          *)
ManualLockFails(t) ==
  /\ LockFails(t, TxAbort(View(t)))
  /\ Inner(t) \in {"manual", "automatic"} /\ leaked' = leaked \union {t}

-----------------------------------------------------------------------------
(* The end of a scope.                                                     *)

(* The innermost scope is left with the library at v and exception e.      *)
Leave(t, v, e) ==
  /\ adding[t] = <<>> /\ scopes[t] # <<>>
  /\ Becomes(t, v) /\ Throws(t, e)
  /\ scopes' = [scopes EXCEPT ![t] = Popped(t)]
  /\ left' = IF Len(scopes[t]) > 1 THEN left
             ELSE [left EXCEPT ![t] = [kind |-> Inner(t),
                     by |-> IF e = "none" THEN "return" ELSE "throw"]]
  /\ UNCHANGED <<adding, leaked, byHand, used>>

(* exec_tx when the closure has returned; the stage is never NONE here     *)
ExecReturnsQuietly(t) ==
  /\ scopes[t] # <<>> /\ Inner(t) = "exec_tx" /\ exc[t] = "none"
  /\ \/ tx[t].stage = "WORK" /\ Leave(t, TxEnd(TxCommit(View(t))), "none")
     \/ tx[t].stage # "WORK" /\ Leave(t, TxEnd(View(t)), "none")
ExecReturns(t) ==
  /\ scopes[t] # <<>> /\ Inner(t) = "exec_tx" /\ exc[t] = "none"
  /\ \/ tx[t].stage = "WORK" /\ Leave(t, TxEnd(TxCommit(View(t))), "none")
     \/ tx[t].stage = "ONABORT" /\ Leave(t, TxEnd(View(t)), "error")
     \/ tx[t].stage = "ONCOMMIT" /\ Leave(t, TxEnd(View(t)), "none")

(* exec_tx when the closure throws: manual_tx_abort, or anything else      *)
ExecThrows(t) ==
  /\ scopes[t] # <<>> /\ Inner(t) = "exec_tx"
  /\ \/ exc[t] = "abort" /\ Leave(t, TxEnd(View(t)), "abort")
     \/ /\ exc[t] = "error"
        /\ Leave(t, TxEnd(IF tx[t].stage = "WORK" THEN TxAbort(View(t)) ELSE View(t)),
                 "error")

(* ~manual, with or without an exception in flight                         *)
UnwoundUnchecked(t) == TxEnd(TxAbort(View(t)))
Unwound(t) == TxEnd(IF tx[t].stage = "WORK" THEN TxAbort(View(t)) ELSE View(t))
ManualEnds(t) ==
  /\ scopes[t] # <<>> /\ Inner(t) = "manual"
  /\ Leave(t, Unwound(t), exc[t])

(* ~automatic: with an exception the member tx_worker does what ~manual    *)
(* does; without one it commits, or throws because the transaction failed, *)
(* and tx_worker ends the transaction in both cases.  Stage FINALLY is     *)
(* reached through pmemobj_tx_process alone, which C++ code does not call. *)
(* A scope begins with no exception in flight, so that the count of them   *)
(* has grown when there is one.                                            *)
new_uncaught_exception(t) == exc[t] # "none"
AutomaticEnds(t) ==
  /\ scopes[t] # <<>> /\ Inner(t) = "automatic"
  /\ IF new_uncaught_exception(t) THEN Leave(t, Unwound(t), exc[t])
     ELSE \/ tx[t].stage = "WORK" /\ Leave(t, TxEnd(TxCommit(View(t))), "none")
          \/ tx[t].stage = "ONABORT" /\ Leave(t, TxEnd(View(t)), "error")
          \/ tx[t].stage = "ONCOMMIT" /\ Leave(t, TxEnd(View(t)), "none")

-----------------------------------------------------------------------------
(* What a body does.                                                       *)

BodyStep(t) == InBody(t) /\ Counts("ops") /\ UNCHANGED <<scopes, adding, leaked, left>>

(* transaction::abort                                                      *)
Abort(t) ==
  /\ BodyStep(t) /\ scopes[t] # <<>> /\ UNCHANGED byHand
  /\ IF tx[t].stage = "WORK"
     THEN Becomes(t, TxAbort(View(t))) /\ Throws(t, "abort")
     ELSE Becomes(t, View(t)) /\ Throws(t, "error")

(* transaction::commit                                                     *)
Commit(t) ==
  /\ BodyStep(t) /\ scopes[t] # <<>>
  /\ byHand' = byHand \union {t}
  /\ IF tx[t].stage = "WORK"
     THEN Becomes(t, TxCommit(View(t))) /\ UNCHANGED exc
     ELSE Becomes(t, View(t)) /\ Throws(t, "error")

(* the body throws an exception of its own, or catches the one in flight   *)
Throw(t) ==
  /\ BodyStep(t) /\ scopes[t] # <<>> /\ Throws(t, "error")
  /\ UNCHANGED <<pm, tx, byHand, misuse>>
Catch(t) ==
  /\ exc[t] # "none" /\ Throws(t, "none")
  /\ UNCHANGED <<pm, tx, scopes, adding, leaked, byHand, left, misuse, used>>

(* Outside of all scopes the program takes the lock around a single write. *)
Guarded(t, c) ==
  guard[c] \in tx[t].locks \/ (scopes[t] = <<>> /\ ~Held(guard[c]))

(* detail::conditional_add_to_tx: only in stage WORK                       *)
ConditionalAddOutermost(v, c) ==
  IF v.tx.stage = "WORK" /\ v.tx.entries = 1 THEN AddRange(v, c) ELSE v
ConditionalAdd(v, c) == IF v.tx.stage = "WORK" THEN AddRange(v, c) ELSE v
Store(v, c, x) == [v EXCEPT !.pm.mem[c] = x]
AddAndStore(v, c, x) == Store(ConditionalAdd(v, c), c, x)

(* p::operator=, where the temporary it swaps with is in no pool; the      *)
(* arithmetic of persistent_ptr also adds the pointer and then changes it  *)
Assign(t, c, x) ==
  /\ BodyStep(t) /\ Guarded(t, c)
  /\ Becomes(t, AddAndStore(View(t), c, x))
  /\ UNCHANGED <<exc, byHand>>

(* object_traits::construct, into a cell of memory that is allocated       *)
Construct(t, c, x) == Assign(t, c, x)

(* swap of two cells: both are added before either is changed              *)
Swap(t, c, d) ==
  /\ BodyStep(t) /\ Guarded(t, c) /\ Guarded(t, d)
  /\ LET v == ConditionalAdd(ConditionalAdd(View(t), c), d)
     IN Becomes(t, Store(Store(v, c, pm.mem[d]), d, pm.mem[c]))
  /\ UNCHANGED <<exc, byHand>>

(* the operators of pext.hpp store through the reference of get_rw: ++ and *)
(* the compound assignments of arithmetic, and those of the bits           *)
Compute(t, c, x) == Assign(t, c, x)
ComputeBits(t, c, x) == Assign(t, c, x)

(* p::get_rw adds the cell and hands out a reference                       *)
GetRw(t, c) ==
  /\ BodyStep(t) /\ Guarded(t, c)
  /\ Becomes(t, ConditionalAdd(View(t), c))
  /\ UNCHANGED <<exc, byHand>>

(* pmemobj_tx_add_range fails and aborts; in a swap the first cell may     *)
(* have been added, which is a GetRw of that cell                          *)
AddFails(t) ==
  /\ "add" \in Faults /\ Counts("faults") /\ InBody(t) /\ tx[t].stage = "WORK"
  /\ Becomes(t, TxAbort(View(t))) /\ Throws(t, "error")
  /\ UNCHANGED <<scopes, adding, leaked, left, byHand>>

(* object_traits::destroy adds the object as well, as many bytes as its    *)
(* pointer has, which a cell does not exceed, and does not look at the     *)
(* answer; standard_alloc_policy::allocate returns a null pointer when the *)
(* library fails.  Neither throws, and the body goes on.                   *)
AbortedSilently(t) ==
  /\ Counts("faults") /\ InBody(t) /\ tx[t].stage = "WORK"
  /\ Becomes(t, TxAbort(View(t)))
  /\ UNCHANGED <<scopes, adding, exc, leaked, left, byHand>>
Destroy(t, c) ==
  /\ Guarded(t, c)
  /\ \/ GetRw(t, c)
     \/ "add" \in Faults /\ AbortedSilently(t)
AllocateFails(t) == "alloc" \in Faults /\ AbortedSilently(t)

(* allocation and deallocation outside of stage WORK                       *)
ScopeError(t) ==
  /\ BodyStep(t) /\ tx[t].stage # "WORK" /\ Throws(t, "error")
  /\ UNCHANGED <<pm, tx, byHand, misuse>>

(* standard_alloc_policy::allocate                                         *)
Allocate(t, o) ==
  /\ BodyStep(t) /\ tx[t].stage = "WORK" /\ ~Allocated(o)
  /\ Becomes(t, [View(t) EXCEPT !.tx.allocs = @ \union {o}])
  /\ UNCHANGED <<exc, byHand>>

(* make_persistent allocates; the constructor's stores are Assigns         *)
MakePersistent(t, o) == Allocate(t, o)

MakePersistentFails(t) ==
  /\ "alloc" \in Faults /\ Counts("faults") /\ InBody(t) /\ tx[t].stage = "WORK"
  /\ Becomes(t, TxAbort(View(t))) /\ Throws(t, "error")
  /\ UNCHANGED <<scopes, adding, leaked, left, byHand>>

(* Everything the process had is gone, and recovery has run.               *)
Dies ==
  /\ Counts("crashes")
  /\ pm' = [pm EXCEPT !.mem = Recovered, !.medium = Recovered]
  /\ tx' = [t \in Threads |-> NoTx] /\ scopes' = [t \in Threads |-> <<>>]
  /\ adding' = [t \in Threads |-> <<>>] /\ exc' = [t \in Threads |-> "none"]
  /\ leaked' = {} /\ byHand' = {} /\ left' = [t \in Threads |-> NotLeft]

(* The constructor of the new object throws.  The object is freed again,   *)
(* which the library allows in stage WORK only: when it was a failed call  *)
(* of the constructor that aborted the transaction, the process ends.      *)
ConstructorThrows(t) ==
  /\ "constructor" \in Faults /\ InBody(t) /\ tx[t].stage = "WORK"
  /\ \/ /\ Counts("faults") /\ Throws(t, "error")
        /\ UNCHANGED <<pm, tx, scopes, adding, leaked, left, byHand, misuse>>
     \/ Dies /\ misuse' = misuse \union {"pmemobj_tx_free"}

(* standard_alloc_policy::deallocate                                       *)
Deallocate(t, o) ==
  /\ BodyStep(t) /\ tx[t].stage = "WORK"
  /\ \/ /\ o \in tx[t].allocs
        /\ Becomes(t, [View(t) EXCEPT !.tx.allocs = @ \ {o}])
     \/ /\ o \in pm.heap /\ \A u \in Threads : o \notin tx[u].frees
        /\ Becomes(t, [View(t) EXCEPT !.tx.frees = @ \union {o}])
  /\ UNCHANGED <<exc, byHand>>

(* delete_persistent runs the destructor, whose stores are Assigns, and    *)
(* frees the object, or fails to                                           *)
DeletePersistent(t, o) == Deallocate(t, o)
DeletePersistentFails(t) ==
  /\ "free" \in Faults /\ Counts("faults") /\ InBody(t) /\ tx[t].stage = "WORK"
  /\ Becomes(t, TxAbort(View(t))) /\ Throws(t, "error")
  /\ UNCHANGED <<scopes, adding, leaked, left, byHand>>

(* make_persistent_atomic and delete_persistent_atomic, which are not for  *)
(* use in transactions: pointer and heap change in one step of the library *)
Durably(c, x, heap) ==
  pm' = [mem |-> [pm.mem EXCEPT ![c] = x],
         medium |-> [pm.medium EXCEPT ![c] = x], heap |-> heap]
MakePersistentAtomic(t, c, o) ==
  /\ BodyStep(t) /\ scopes[t] = <<>> /\ Guarded(t, c) /\ ~Allocated(o)
  /\ Durably(c, o, pm.heap \union {o})
  /\ UNCHANGED <<tx, exc, byHand, misuse>>
(* a constructor that throws in create_object, or an allocation that fails *)
MakePersistentAtomicFails(t) ==
  /\ Faults \intersect {"alloc", "constructor"} # {} /\ Counts("faults")
  /\ InBody(t) /\ scopes[t] = <<>> /\ Throws(t, "error")
  /\ UNCHANGED <<pm, tx, scopes, adding, leaked, left, byHand, misuse>>
DeletePersistentAtomic(t, c) ==
  /\ BodyStep(t) /\ scopes[t] = <<>> /\ Guarded(t, c)
  /\ pm.mem[c] \in pm.heap /\ \A u \in Threads : pm.mem[c] \notin tx[u].frees
  /\ Durably(c, Null, pm.heap \ {pm.mem[c]})
  /\ UNCHANGED <<tx, exc, byHand, misuse>>

(* persist, or flush and drain; a cache line also leaves by itself         *)
Persist(c) ==
  /\ pm.medium[c] # pm.mem[c]
  /\ pm' = [pm EXCEPT !.medium[c] = pm.mem[c]]
  /\ UNCHANGED <<tx, scopes, adding, exc, leaked, byHand, left, misuse, used>>

Crash == Dies /\ UNCHANGED misuse

-----------------------------------------------------------------------------
BodyNext(t) ==
  \/ Abort(t) \/ Commit(t) \/ Throw(t) \/ Catch(t) \/ ScopeError(t)
  \/ \E c \in Cells, x \in Vals :
       \/ Assign(t, c, x) \/ Construct(t, c, x)
       \/ Compute(t, c, x) \/ ComputeBits(t, c, x)
  \/ \E c, d \in Cells : c # d /\ Swap(t, c, d)
  \/ \E c \in Cells : GetRw(t, c) \/ Destroy(t, c)
  \/ AddFails(t) \/ AllocateFails(t)
  \/ \E o \in Objects : MakePersistent(t, o) \/ DeletePersistent(t, o)
  \/ MakePersistentFails(t) \/ ConstructorThrows(t) \/ DeletePersistentFails(t)
  \/ MakePersistentAtomicFails(t)
  \/ \E c \in Cells, o \in Objects : MakePersistentAtomic(t, c, o)
  \/ \E c \in Cells : DeletePersistentAtomic(t, c)

ScopeNext(t) ==
  \/ \E locks \in {<<>>} \union {<<l>> : l \in Locks} :
       ExecTx(t, locks) \/ Manual(t, locks) \/ Automatic(t, locks)
  \/ BeginFails(t) \/ AddLock(t) \/ ExecTxLockFails(t) \/ ManualLockFails(t)
  \/ ExecReturns(t) \/ ExecThrows(t) \/ ManualEnds(t) \/ AutomaticEnds(t)

Next ==
  \/ \E t \in Threads : ScopeNext(t) \/ BodyNext(t)
  \/ \E c \in Cells : Persist(c)
  \/ Crash

Spec == Init /\ [][Next]_vars

-----------------------------------------------------------------------------
(* All or nothing: with any nesting, exceptions caught or not, failed      *)
(* calls and deaths of the process, what survives changes as TxStore says: *)
(* for the cells and objects of a transaction at once, when the outermost  *)
(* scope commits (transaction.hpp:391-436, common.hpp:65-79).              *)
Promise == INSTANCE TxStore WITH
  mem <- pm.mem, store <- Recovered, heap <- pm.heap,
  active <- {t \in Threads : tx[t].stage = "WORK"},
  pending <- [t \in Threads |-> DOMAIN tx[t].undo],
  reserved <- [t \in Threads |-> tx[t].allocs],
  released <- [t \in Threads |-> tx[t].frees]
ImplementsTxStore == Promise!Spec

(* How the outermost scope is left tells what became of the transaction:   *)
(* exec_tx and automatic return only after a commit, and no scope that is  *)
(* left by an exception has committed, unless its body called              *)
(* transaction::commit itself (transaction.hpp:219-233, 408-435).          *)
LeftTellsOutcome ==
  \A t \in Threads : scopes[t] = <<>> =>
    /\ left[t].by = "return" /\ left[t].kind # "manual" => tx[t].outcome = "committed"
    /\ left[t].by = "throw" /\ t \notin byHand => tx[t].outcome # "committed"

(* "The locks are released at the end of the scope": a thread outside of   *)
(* every scope holds no lock and has no transaction open, unless a begin   *)
(* or a constructor of manual has failed on it; these end nothing          *)
(* (transaction.hpp:109-120).                                              *)
ReleasedUnlessLeaked ==
  \A t \in Threads : scopes[t] = <<>> /\ t \notin leaked =>
    /\ tx[t].stage = "NONE" /\ tx[t].entries = 0 /\ tx[t].locks = {}
    /\ tx[t].undo = NoUndo /\ tx[t].allocs = {} /\ tx[t].frees = {}

(* The scopes call pmemobj_tx_abort, pmemobj_tx_commit and pmemobj_tx_end  *)
(* only in a stage that allows the call, however they are nested and left  *)
(* (transaction.hpp:130-147, 219-233, 391-436).  The pmemobj_tx_free of    *)
(* make_persistent (make_persistent.hpp:91) is not among these calls: a    *)
(* constructor that fails after an abort brings it about in a stage that   *)
(* forbids it.                                                             *)
ScopesRespectStages ==
  misuse \intersect {"pmemobj_tx_abort", "pmemobj_tx_commit", "pmemobj_tx_end"} = {}

=============================================================================
