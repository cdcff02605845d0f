------------------------------- MODULE TxStore -------------------------------
(***************************************************************************)
(* What transactions on persistent memory promise: cells and a heap that   *)
(* survive the death of the process, and threads that change them.  What a *)
(* thread writes while it is active survives as a whole, when it commits,  *)
(* or not at all.  A write outside of an active transaction has no such    *)
(* promise: it survives once it has settled, which may happen at any time. *)
(***************************************************************************)
CONSTANTS Threads, Cells, Vals, Objects

VARIABLES
  mem,      \* the cells, as the process sees them
  store,    \* the cells, as the next process would find them
  heap,     \* the allocated objects, as the next process would find them
  active,   \* the threads whose writes belong to a transaction
  pending,  \* for each thread, the cells it has written since it began
  reserved, \* for each thread, the objects it has allocated since it began
  released  \* for each thread, the objects it has freed since it began

vars == <<mem, store, heap, active, pending, reserved, released>>

None == [t \in Threads |-> {}]

Init ==
  /\ mem \in [Cells -> Vals] /\ store = mem /\ heap = {}
  /\ active = {} /\ pending = None /\ reserved = None /\ released = None

Settled(c) == \A t \in Threads : c \notin pending[t]

(* A thread enters or resumes a transaction, or suspends it.               *)
Enter(t) ==
  /\ active' = active \union {t}
  /\ UNCHANGED <<mem, store, heap, pending, reserved, released>>
Suspend(t) ==
  /\ active' = active \ {t}
  /\ UNCHANGED <<mem, store, heap, pending, reserved, released>>

(* Cells no other thread has pending.                                      *)
Own(t) == Cells \ UNION {pending[u] : u \in Threads \ {t}}
OnlyChanges(C) == mem' \in [Cells -> Vals] /\ \A c \in Cells \ C : mem'[c] = mem[c]

(* Cells are added to an active transaction and written in it.  The old    *)
(* value of a cell that was not pending is what survives from now on.      *)
Write(t) ==
  /\ t \in active
  /\ \E C \in SUBSET Own(t) :
       /\ OnlyChanges(C)
       /\ store' = [c \in Cells |-> IF c \in C \ pending[t] THEN mem[c] ELSE store[c]]
       /\ pending' = [pending EXCEPT ![t] = @ \union C]
  /\ UNCHANGED <<heap, active, reserved, released>>

Allocate(t, o) ==
  /\ t \in active /\ o \notin heap /\ \A u \in Threads : o \notin reserved[u]
  /\ reserved' = [reserved EXCEPT ![t] = @ \union {o}]
  /\ UNCHANGED <<mem, store, heap, active, pending, released>>
Delete(t, o) ==
  /\ t \in active /\ o \in heap \union reserved[t] /\ o \notin released[t]
  /\ \/ o \in heap /\ released' = [released EXCEPT ![t] = @ \union {o}]
                   /\ UNCHANGED reserved
     \/ o \in reserved[t] /\ reserved' = [reserved EXCEPT ![t] = @ \ {o}]
                          /\ UNCHANGED released
  /\ UNCHANGED <<mem, store, heap, active, pending>>

(* Everything the thread did since it began survives, or nothing of it.    *)
Finish(t) ==
  /\ active' = active \ {t}
  /\ pending' = [pending EXCEPT ![t] = {}]
  /\ reserved' = [reserved EXCEPT ![t] = {}]
  /\ released' = [released EXCEPT ![t] = {}]
Commit(t) ==
  /\ t \in active /\ Finish(t)
  /\ store' = [c \in Cells |-> IF c \in pending[t] THEN mem[c] ELSE store[c]]
  /\ heap' = (heap \union reserved[t]) \ released[t]
  /\ UNCHANGED mem
Abort(t) ==
  /\ Finish(t)
  /\ mem' = [c \in Cells |-> IF c \in pending[t] THEN store[c] ELSE mem[c]]
  /\ UNCHANGED <<store, heap>>

(* Outside of an active transaction: writes, which are discarded if the    *)
(* cell is pending in a transaction that failed and settle later if not,   *)
(* and atomic allocations, which survive with the pointer that names them. *)
Direct(t) ==
  /\ t \notin active
  /\ OnlyChanges(Own(t))
  /\ UNCHANGED <<store, heap, active, pending, reserved, released>>
Settle(c) ==
  /\ Settled(c)
  /\ store' = [store EXCEPT ![c] = mem[c]]
  /\ UNCHANGED <<mem, heap, active, pending, reserved, released>>
Atomic(t, c) ==
  /\ t \notin active /\ Settled(c)
  /\ \E v \in Vals : mem' = [mem EXCEPT ![c] = v] /\ store' = [store EXCEPT ![c] = v]
  /\ heap' \in {heap \union {mem'[c]}, heap \ {mem[c]}}
  /\ UNCHANGED <<active, pending, reserved, released>>

Crash ==
  /\ mem' = store /\ UNCHANGED <<store, heap>>
  /\ active' = {} /\ pending' = None /\ reserved' = None /\ released' = None

Next ==
  \/ \E t \in Threads :
       \/ Enter(t) \/ Suspend(t) \/ Write(t) \/ Commit(t) \/ Abort(t) \/ Direct(t)
       \/ \E o \in Objects : Allocate(t, o) \/ Delete(t, o)
       \/ \E c \in Cells : Atomic(t, c)
  \/ \E c \in Cells : Settle(c)
  \/ Crash

Spec == Init /\ [][Next]_vars
=============================================================================
