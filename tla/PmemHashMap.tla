---------------------------- MODULE PmemHashMap ----------------------------
(***************************************************************************)
(* The persistent map pmem_hash_map<T> (pmem_hash_map.h) in the hands of   *)
(* tests/test_pmem_hash_map.cc: a pool is created or opened, contents are  *)
(* allocated and put, getAll walks the buckets, and the process may die    *)
(* between any two steps.  One run of that program either puts or reads;   *)
(* the class itself takes no lock, so the model lets a reader overlap with *)
(* the one writer, which includes the program's behaviour.                 *)
(*                                                                         *)
(* What a libpmemobj transaction writes is visible to the process at once  *)
(* and is rolled back if the process dies before the commit.               *)
(*                                                                         *)
(* Persistent objects of type Node2 are numbered in the order of their     *)
(* allocation; 0 is the null pointer.                                      *)
(***************************************************************************)
EXTENDS Integers, Sequences, FiniteSets

CONSTANTS
  Contents,    \* the contents the program allocates, one after the other
  hashCode,    \* T::hashCode
  TabLen,      \* the tabLen the program passes to init
  MaxCrashes   \* bound: crashes and aborted transactions

ASSUME MapAssumption ==
  /\ hashCode \in [Contents -> Nat]
  /\ TabLen \in Nat \ {0} /\ MaxCrashes \in Nat

VARIABLES
  heap,       \* the Node2 objects
  tabLen_,    \* 0 in a pool that has just been created
  tab_,       \* bucket heads
  pool,       \* whether the pool file exists
  allocated,  \* contents that have been allocated persistently
  process,    \* "down", "created" or "running"
  failures,   \* crashes and aborts so far
  put,        \* the writer: where it is, its content, its bucketHeadNode
  getAll,     \* the reader: where it is, its loop variables, contentVec
  before      \* history: what the map held when getAll was called

persistent == <<heap, tabLen_, tab_, pool, allocated>>
vars == <<persistent, process, failures, put, getAll, before>>

Null == 0
NoContent == "none"
Buckets == 0..(TabLen - 1)

PutIdle  == [at |-> "idle", content |-> NoContent, head |-> Null]
ScanIdle == [at |-> "idle", i |-> 0, node |-> Null, vec |-> <<>>]

TypeOK ==
  /\ heap \in Seq([p_content : Contents, next : Nat])
  /\ tabLen_ \in {0, TabLen}
  /\ tab_ \in [Buckets -> 0..Len(heap)]
  /\ pool \in BOOLEAN /\ allocated \subseteq Contents
  /\ process \in {"down", "created", "running"}
  /\ failures \in 0..MaxCrashes
  /\ put.at \in {"idle", "put", "run", "commit"} /\ put.head \in 0..Len(heap)
  /\ getAll.at \in {"idle", "bucket", "walk", "done"}
  /\ getAll.i \in 0..TabLen /\ getAll.node \in 0..Len(heap)
  /\ before \subseteq Contents

-----------------------------------------------------------------------------
(* Pool and process.                                                       *)

Init ==
  /\ heap = <<>> /\ tabLen_ = 0 /\ tab_ = [b \in Buckets |-> Null]
  /\ pool = FALSE /\ allocated = {}
  /\ process = "down" /\ failures = 0
  /\ put = PutIdle /\ getAll = ScanIdle /\ before = {}

(* main: the pool is created, and initialised in a step of its own ...     *)
Create ==
  /\ process = "down" /\ ~pool
  /\ pool' = TRUE /\ process' = "created"
  /\ UNCHANGED <<heap, tabLen_, tab_, allocated, failures, put, getAll, before>>

(* pmem_hash_map::init, one transaction *)
MapInit ==
  /\ process = "created"
  /\ tabLen_' = TabLen /\ tab_' = [b \in Buckets |-> Null]
  /\ process' = "running"
  /\ UNCHANGED <<heap, pool, allocated, failures, put, getAll, before>>

(* ... or opened, and taken to be initialised. *)
Open ==
  /\ process = "down" /\ pool
  /\ process' = "running"
  /\ UNCHANGED <<persistent, failures, put, getAll, before>>

bucket == hashCode[put.content] % tabLen_

(* What of heap and tab_ a crash leaves: an open transaction is undone.    *)
durableHeap == IF put.at = "commit" THEN SubSeq(heap, 1, Len(heap) - 1) ELSE heap
durableTab  == IF put.at = "commit" THEN [tab_ EXCEPT ![bucket] = put.head] ELSE tab_

Dies ==
  /\ failures < MaxCrashes /\ failures' = failures + 1
  /\ process' = "down" /\ put' = PutIdle /\ getAll' = ScanIdle /\ before' = {}
  /\ heap' = durableHeap /\ tab_' = durableTab
  /\ UNCHANGED <<tabLen_, pool, allocated>>

Crash == process # "down" /\ Dies

-----------------------------------------------------------------------------
(* The writer.                                                             *)

(* main: the content is allocated in a transaction before put is called.   *)
NewContent ==
  /\ process = "running" /\ put.at = "idle"
  /\ \E c \in Contents \ allocated :
       /\ allocated' = allocated \cup {c}
       /\ put' = [PutIdle EXCEPT !.at = "put", !.content = c]
  /\ UNCHANGED <<heap, tabLen_, tab_, pool, process, failures, getAll, before>>

(* pmem_hash_map::put up to its transaction: the bucket head is read.  In  *)
(* a map that was never initialised the division by tabLen_ kills the      *)
(* process.                                                                *)
Put ==
  /\ put.at = "put" /\ tabLen_ # 0
  /\ put' = [put EXCEPT !.at = "run", !.head = tab_[bucket]]
  /\ UNCHANGED <<persistent, process, failures, getAll, before>>

PutDividesByZero == put.at = "put" /\ tabLen_ = 0 /\ Dies

NewHead(next) == heap' = Append(heap, [p_content |-> put.content, next |-> next])

PutRunFrame ==
  /\ put' = [put EXCEPT !.at = "commit"]
  /\ UNCHANGED <<tabLen_, pool, allocated, process, failures, getAll, before>>

(* Mutant: the old chain is not linked behind the new node. *)
PutRunDropsChain ==
  /\ put.at = "run"
  /\ NewHead(Null)
  /\ tab_' = [tab_ EXCEPT ![bucket] = Len(heap) + 1]
  /\ PutRunFrame

(* Mutant: only an empty bucket takes a content. *)
PutRunEmptyOnly ==
  /\ put.at = "run"
  /\ \/ /\ put.head = Null
        /\ NewHead(Null)
        /\ tab_' = [tab_ EXCEPT ![bucket] = Len(heap) + 1]
        /\ PutRunFrame
     \/ /\ put.head # Null /\ put' = PutIdle
        /\ UNCHANGED <<persistent, process, failures, getAll, before>>

(* Its transaction: the new node is filled and linked ...                  *)
PutRun ==
  /\ put.at = "run"
  /\ NewHead(put.head)
  /\ tab_' = [tab_ EXCEPT ![bucket] = Len(heap) + 1]
  /\ PutRunFrame

(* ... and committed.                                                      *)
PutCommit ==
  /\ put.at = "commit" /\ put' = PutIdle
  /\ UNCHANGED <<persistent, process, failures, getAll, before>>

(* When make_persistent fails the transaction aborts, the exception leaves *)
(* put and nothing catches it.                                             *)
PutAbort == put.at = "run" /\ Dies

-----------------------------------------------------------------------------
(* The reader: pmem_hash_map::getAll.                                      *)

ScanFrame == UNCHANGED <<persistent, process, failures, put>>

(* The contents from a node on: a node is linked to an older one, so that  *)
(* a chain ends at the first link that is not.                             *)
ChainOf[n \in 0..Len(heap)] ==
  IF n = Null THEN {}
  ELSE {heap[n].p_content} \cup
       (IF heap[n].next < n THEN ChainOf[heap[n].next] ELSE {})

Stored == UNION {ChainOf[durableTab[b]] : b \in Buckets}

ScanBegin ==
  /\ process = "running" /\ getAll.at = "idle"
  /\ getAll' = [ScanIdle EXCEPT !.at = "bucket"]
  /\ before' = Stored
  /\ ScanFrame

(* Mutant: an empty bucket is not stepped over. *)
ScanBucketStaysOnEmpty ==
  /\ getAll.at = "bucket"
  /\ \/ getAll.i < tabLen_ /\ tab_[getAll.i] = Null /\ UNCHANGED getAll
     \/ /\ getAll.i < tabLen_ /\ tab_[getAll.i] # Null
        /\ getAll' = [getAll EXCEPT !.at = "walk", !.node = tab_[getAll.i]]
     \/ /\ getAll.i >= tabLen_
        /\ getAll' = [getAll EXCEPT !.at = "done"]
  /\ UNCHANGED before /\ ScanFrame

(* The for loop: the next bucket, or the end. *)
ScanBucket ==
  /\ getAll.at = "bucket"
  /\ \/ /\ getAll.i < tabLen_
        /\ getAll' = [getAll EXCEPT !.at = "walk", !.node = tab_[getAll.i]]
     \/ /\ getAll.i >= tabLen_
        /\ getAll' = [getAll EXCEPT !.at = "done"]
  /\ UNCHANGED before /\ ScanFrame

(* Mutant: i is advanced in the inner loop. *)
ScanWalkAdvancesInside ==
  /\ getAll.at = "walk"
  /\ \/ /\ getAll.node # Null
        /\ getAll' = [getAll EXCEPT !.vec = Append(@, heap[getAll.node].p_content),
                                    !.node = heap[getAll.node].next, !.i = @ + 1]
     \/ /\ getAll.node = Null
        /\ getAll' = [getAll EXCEPT !.at = "bucket"]
  /\ UNCHANGED before /\ ScanFrame

(* The while loop over the chain. *)
ScanWalk ==
  /\ getAll.at = "walk"
  /\ \/ /\ getAll.node # Null
        /\ getAll' = [getAll EXCEPT !.vec = Append(@, heap[getAll.node].p_content),
                                    !.node = heap[getAll.node].next]
     \/ /\ getAll.node = Null
        /\ getAll' = [getAll EXCEPT !.at = "bucket", !.i = @ + 1]
  /\ UNCHANGED before /\ ScanFrame

ScanReturn ==
  /\ getAll.at = "done" /\ getAll' = ScanIdle /\ before' = {}
  /\ ScanFrame

-----------------------------------------------------------------------------

Scan == ScanBegin \/ ScanBucket \/ ScanWalk \/ ScanReturn

Next ==
  \/ Create \/ MapInit \/ Open \/ Crash
  \/ NewContent \/ Put \/ PutDividesByZero \/ PutRun \/ PutCommit \/ PutAbort
  \/ Scan

Spec == Init /\ [][Next]_vars

(* The reading thread runs on. *)
FairSpec == Spec /\ WF_vars(ScanBucket \/ ScanWalk)

-----------------------------------------------------------------------------

Abstract == INSTANCE ContentSet WITH stored <- Stored

(* Seen through its chains the map is a ContentSet: a committed put        *)
(* (pmem_hash_map.h:92-102) adds its content and nothing else, and no      *)
(* crash or abort ever takes a content away.                               *)
ImplementsContentSet == Abstract!Spec

(* A getAll that runs while contents are put returns each content at most  *)
(* once, everything that was stored when it was called, and nothing but    *)
(* what is stored when it returns or the content of a put that is about to *)
(* commit (pmem_hash_map.h:62-73).                                         *)
GetAllIsSnapshot ==
  getAll.at = "done" =>
    LET returned == {getAll.vec[n] : n \in 1..Len(getAll.vec)}
        inFlight == IF put.at = "commit" THEN {put.content} ELSE {}
    IN  /\ before \subseteq returned
        /\ returned \subseteq Stored \cup inFlight
        /\ Cardinality(returned) = Len(getAll.vec)

(* The program allocates a content and puts it in two transactions: a      *)
(* crash or an abort between them leaks one content, and nothing else does.*)
LeaksBounded ==
  Cardinality(allocated \ Stored) <= failures + (IF put.at = "idle" THEN 0 ELSE 1)

(* getAll ends, whatever is put at the heads of the chains it walks.       *)
GetAllEnds == (getAll.at \in {"bucket", "walk"}) ~> (getAll.at \notin {"bucket", "walk"})

=============================================================================
