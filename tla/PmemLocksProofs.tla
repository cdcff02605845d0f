-------------------------- MODULE PmemLocksProofs ---------------------------
(***************************************************************************)
(* Exclusion and AnswerIsCurrent for any number of threads, deadlines and  *)
(* runs of the pool.                                                       *)
(*                                                                         *)
(* The invariant says why a word that a dead process left locked means     *)
(* nothing: the run it names is never later than the run of the pool, and  *)
(* opening the pool leaves it behind.  A word that names this run was      *)
(* written in it, by a thread that is still there.                         *)
(***************************************************************************)
EXTENDS PmemLocks, TLAPS

Ops == {"idle", "lock", "timedlock", "wrlock", "rdlock", "waiting", "reacquire"}
CallRecs == [op : Ops, kind : WaitKinds \union {"none"}, expired : BOOLEAN]
Owners == Threads \union {NoThread}
Held == {"none", "mutex", "shared", "exclusive"}
Answers == {"none", "true", "false"}

(* No lock word is of a run that is still to come. *)
WordsOfPast == plock.run <= run /\ rwlock.run <= run

(* Before the locks are constructed, and while the pool is closed, nobody  *)
(* is in a call or holds anything.                                         *)
Quiet ==
  /\ file = "absent" => run = 0
  /\ file # "constructed" \/ pop = "null" =>
       \A t \in Threads : call[t] = Idle /\ held[t] = "none"

(* A thread inside a call that may block holds nothing. *)
BusyHoldsNothing == \A t \in Threads : call[t].op # "idle" => held[t] = "none"

(* A writer is alone in the word of the shared_mutex. *)
WriterAlone == shared_mutex.writer # NoThread => shared_mutex.readers = {}

IInv ==
  /\ TypeOK /\ WordsOfPast /\ Quiet /\ BusyHoldsNothing
  /\ pop = "open" => WriterAlone
  /\ Exclusion /\ AnswerIsCurrent

-----------------------------------------------------------------------------
(* The lock words, as the library reads them.                              *)

(* What a word of the mutex says once it is written in this run. *)
LEMMA MutexWritten ==
  ASSUME TypeOK, run' = run, NEW o \in Owners,
         plock' = [mutex EXCEPT !.owner = o]
  PROVE  /\ mutex'.owner = o
         /\ plock' \in [run : 0..MaxRuns, owner : Owners] /\ plock'.run = run
<1>1. mutex \in [run : 0..MaxRuns, owner : Owners] /\ mutex.run = run
  BY LocksAssumption DEF mutex, TypeOK, Owners
<1>2. plock' \in [run : 0..MaxRuns, owner : Owners] /\ plock'.run = run /\ plock'.owner = o
  BY <1>1
<1> QED BY <1>2 DEF mutex

(* The word of the shared_mutex, read in this run, is a word. *)
LEMMA SharedMutexType ==
  ASSUME TypeOK
  PROVE  /\ shared_mutex \in [run : 0..MaxRuns, writer : Owners, readers : SUBSET Threads]
         /\ shared_mutex.run = run
BY LocksAssumption DEF shared_mutex, TypeOK, Owners

(* What it says once a writer is written, and once the readers are. *)
LEMMA WriterWritten ==
  ASSUME TypeOK, run' = run, NEW o \in Owners, WriterTo(o)
  PROVE  /\ shared_mutex'.writer = o /\ shared_mutex'.readers = shared_mutex.readers
         /\ mutex' = mutex
         /\ rwlock' \in [run : 0..MaxRuns, writer : Owners, readers : SUBSET Threads]
         /\ rwlock'.run = run
<1>1. /\ rwlock' \in [run : 0..MaxRuns, writer : Owners, readers : SUBSET Threads]
      /\ rwlock'.run = run /\ rwlock'.writer = o /\ rwlock'.readers = shared_mutex.readers
  BY SharedMutexType DEF WriterTo
<1>2. mutex' = mutex
  BY DEF mutex, WriterTo
<1> QED BY <1>1, <1>2 DEF shared_mutex

LEMMA ReadersWritten ==
  ASSUME TypeOK, run' = run, NEW S \in SUBSET Threads, ReadersTo(S)
  PROVE  /\ shared_mutex'.writer = shared_mutex.writer /\ shared_mutex'.readers = S
         /\ mutex' = mutex
         /\ rwlock' \in [run : 0..MaxRuns, writer : Owners, readers : SUBSET Threads]
         /\ rwlock'.run = run
<1>1. /\ rwlock' \in [run : 0..MaxRuns, writer : Owners, readers : SUBSET Threads]
      /\ rwlock'.run = run /\ rwlock'.writer = shared_mutex.writer /\ rwlock'.readers = S
  BY SharedMutexType DEF ReadersTo
<1>2. mutex' = mutex
  BY DEF mutex, ReadersTo
<1> QED BY <1>1, <1>2 DEF shared_mutex

(* A run that no word names finds both locks free. *)
LEMMA FreshRun ==
  ASSUME plock'.run # run', rwlock'.run # run'
  PROVE  mutex'.owner = NoThread /\ shared_mutex'.writer = NoThread
         /\ shared_mutex'.readers = {}
BY DEF mutex, shared_mutex

(* Zeroed words are free in any run. *)
LEMMA ZeroedWords ==
  ASSUME ZeroMutex, ZeroSharedMutex
  PROVE  mutex'.owner = NoThread /\ shared_mutex'.writer = NoThread
         /\ shared_mutex'.readers = {}
BY DEF mutex, shared_mutex, ZeroMutex, ZeroSharedMutex

(* Two words that say the same say the same to every thread. *)
LEMMA NobodyHolds ==
  ASSUME \A t \in Threads : held'[t] = "none",
         mutex'.owner = NoThread, shared_mutex'.writer = NoThread,
         shared_mutex'.readers = {}
  PROVE  Exclusion' /\ WriterAlone'
BY LocksAssumption DEF Exclusion, WriterAlone

-----------------------------------------------------------------------------
(* The kinds of steps.                                                     *)

(* The mutex comes to a thread: lock, try_lock, and the end of a wait. *)
LEMMA TakesMutex ==
  ASSUME IInv, NEW t \in Threads, pop = "open", file = "constructed",
         call[t].op # "waiting", held[t] = "mutex" \/ (held[t] = "none" /\ MutexFree),
         MutexTo(t), NEW a \in Answers,
         a # "none" => a = (IF ready THEN "true" ELSE "false"),
         call' = [call EXCEPT ![t] = Idle], held' = [held EXCEPT ![t] = "mutex"],
         answer' = [answer EXCEPT ![t] = a], UNCHANGED <<pool, ready, telling>>
  PROVE  IInv'
<1> USE DEF pool
<1>1. /\ mutex'.owner = t /\ plock'.run = run
      /\ plock' \in [run : 0..MaxRuns, owner : Owners]
  BY MutexWritten DEF IInv, MutexTo, Owners
<1>2. shared_mutex' = shared_mutex
  BY DEF MutexTo, shared_mutex
<1>3. TypeOK'
  <2>1. call' \in [Threads -> CallRecs]
    <3>1. Idle \in CallRecs
      BY Zenon DEF Idle, CallRecs, Ops
    <3> QED BY <3>1, Zenon DEF IInv, TypeOK, CallRecs, Ops
  <2>2. pcond' = {u \in Threads : call'[u].op = "waiting"}
    BY DEF IInv, TypeOK, MutexTo, Idle
  <2>3. held' \in [Threads -> Held] /\ answer' \in [Threads -> Answers]
    BY DEF IInv, TypeOK, Held, Answers
  <2> QED BY <1>1, <2>1, <2>2, <2>3
          DEF IInv, TypeOK, MutexTo, CallRecs, Ops, Held, Answers, Owners
<1>4. WordsOfPast' /\ Quiet' /\ BusyHoldsNothing'
  <2>1. WordsOfPast'
    BY <1>1, LocksAssumption DEF IInv, TypeOK, WordsOfPast, MutexTo
  <2>2. Quiet'
    BY DEF IInv, Quiet
  <2>3. BusyHoldsNothing'
    BY DEF IInv, TypeOK, BusyHoldsNothing, Idle
  <2> QED BY <2>1, <2>2, <2>3
<1>5. WriterAlone' /\ Exclusion'
  <2>1. \A u \in Threads \ {t} : held[u] # "mutex"
    BY LocksAssumption DEF IInv, Exclusion, MutexFree
  <2> QED BY <1>1, <1>2, <2>1 DEF IInv, Exclusion, WriterAlone, TypeOK
<1>6. AnswerIsCurrent'
  BY DEF IInv, TypeOK, AnswerIsCurrent, Answers
<1> QED BY <1>3, <1>4, <1>5, <1>6 DEF IInv

(* The mutex is let go: unlock, and the wait that blocks. *)
LEMMA LeavesMutex ==
  ASSUME IInv, NEW t \in Threads, pop = "open", file = "constructed",
         call[t].op # "waiting", held[t] = "mutex" \/ (held[t] = "none" /\ MutexFree),
         plock' = [mutex EXCEPT !.owner = NoThread], UNCHANGED rwlock,
         NEW c \in CallRecs, call' = [call EXCEPT ![t] = c],
         c.op # "idle" \/ c = Idle,
         pcond' = pcond \union (IF c.op = "waiting" THEN {t} ELSE {}),
         held' = [held EXCEPT ![t] = "none"],
         answer' = [answer EXCEPT ![t] = "none"], UNCHANGED <<pool, ready, telling>>
  PROVE  IInv'
<1> USE DEF pool
<1>1. /\ mutex'.owner = NoThread /\ plock'.run = run
      /\ plock' \in [run : 0..MaxRuns, owner : Owners]
  BY MutexWritten DEF IInv, MutexTo, Owners
<1>2. shared_mutex' = shared_mutex
  BY DEF shared_mutex
<1>3. TypeOK'
  <2>1. call' \in [Threads -> CallRecs]
    BY Zenon DEF IInv, TypeOK, CallRecs, Ops
  <2>2. pcond' = {u \in Threads : call'[u].op = "waiting"}
    BY DEF IInv, TypeOK
  <2>3. held' \in [Threads -> Held] /\ answer' \in [Threads -> Answers]
    BY DEF IInv, TypeOK, Held, Answers
  <2> QED BY <1>1, <2>1, <2>2, <2>3
          DEF IInv, TypeOK, CallRecs, Ops, Held, Answers, Owners
<1>4. WordsOfPast' /\ Quiet' /\ BusyHoldsNothing'
  <2>1. WordsOfPast'
    BY <1>1, LocksAssumption DEF IInv, TypeOK, WordsOfPast
  <2>2. Quiet'
    BY DEF IInv, Quiet
  <2>3. BusyHoldsNothing'
    BY DEF IInv, TypeOK, BusyHoldsNothing
  <2> QED BY <2>1, <2>2, <2>3
<1>5. WriterAlone' /\ Exclusion'
  <2>1. \A u \in Threads \ {t} : held[u] # "mutex"
    BY LocksAssumption DEF IInv, Exclusion, MutexFree
  <2> QED BY <1>1, <1>2, <2>1, LocksAssumption DEF IInv, Exclusion, WriterAlone, TypeOK
<1>6. AnswerIsCurrent'
  BY DEF IInv, TypeOK, AnswerIsCurrent, Answers
<1> QED BY <1>3, <1>4, <1>5, <1>6 DEF IInv

(* The shared_mutex comes to a thread or leaves it, for writing or for     *)
(* reading: lock, lock_shared, their try forms, unlock.                    *)
LEMMA SharedMutexStep ==
  ASSUME IInv, NEW t \in Threads, pop = "open", file = "constructed",
         call[t].op # "waiting", NEW what \in Held, Gets(t, what),
         \/ what = "exclusive" /\ held[t] = "none" /\ MayWrite /\ WriterTo(t)
         \/ /\ what = "shared" /\ held[t] = "none" /\ MayRead
            /\ ReadersTo(shared_mutex.readers \union {t})
         \/ what = "none" /\ held[t] = "exclusive" /\ WriterTo(NoThread)
         \/ what = "none" /\ held[t] = "shared" /\ ReadersTo(shared_mutex.readers \ {t})
  PROVE  IInv'
<1> USE DEF pool, Gets
<1>1. PICK w \in Owners, S \in SUBSET Threads :
        /\ shared_mutex'.writer = w /\ shared_mutex'.readers = S /\ mutex' = mutex
        /\ rwlock' \in [run : 0..MaxRuns, writer : Owners, readers : SUBSET Threads]
        /\ rwlock'.run = run /\ UNCHANGED <<plock, pcond>>
        /\ \/ /\ what = "exclusive" /\ held[t] = "none" /\ MayWrite
              /\ w = t /\ S = shared_mutex.readers
           \/ /\ what = "shared" /\ held[t] = "none" /\ MayRead
              /\ w = shared_mutex.writer /\ S = shared_mutex.readers \union {t}
           \/ /\ what = "none" /\ held[t] = "exclusive"
              /\ w = NoThread /\ S = shared_mutex.readers
           \/ /\ what = "none" /\ held[t] = "shared"
              /\ w = shared_mutex.writer /\ S = shared_mutex.readers \ {t}
  <2> USE SharedMutexType DEF Owners, IInv
  <2>1. CASE what = "exclusive" /\ held[t] = "none" /\ MayWrite /\ WriterTo(t)
    BY <2>1, WriterWritten DEF WriterTo
  <2>2. CASE /\ what = "shared" /\ held[t] = "none" /\ MayRead
             /\ ReadersTo(shared_mutex.readers \union {t})
    <3>1. shared_mutex.readers \union {t} \in SUBSET Threads
      OBVIOUS
    <3> QED BY <3>1, <2>2, ReadersWritten DEF ReadersTo
  <2>3. CASE what = "none" /\ held[t] = "exclusive" /\ WriterTo(NoThread)
    BY <2>3, WriterWritten DEF WriterTo
  <2>4. CASE what = "none" /\ held[t] = "shared" /\ ReadersTo(shared_mutex.readers \ {t})
    <3>1. shared_mutex.readers \ {t} \in SUBSET Threads
      OBVIOUS
    <3> QED BY <3>1, <2>4, ReadersWritten DEF ReadersTo
  <2> QED BY <2>1, <2>2, <2>3, <2>4
<1>2. TypeOK'
  <2>1. call' \in [Threads -> CallRecs]
    <3>1. Idle \in CallRecs
      BY Zenon DEF Idle, CallRecs, Ops
    <3> QED BY <3>1, Zenon DEF IInv, TypeOK, CallRecs, Ops
  <2>2. pcond' = {u \in Threads : call'[u].op = "waiting"}
    BY <1>1 DEF IInv, TypeOK, Idle
  <2>3. held' \in [Threads -> Held]
    BY DEF IInv, TypeOK, Held
  <2> QED BY <1>1, <2>1, <2>2, <2>3
          DEF IInv, TypeOK, CallRecs, Ops, Held, Owners
<1>3. WordsOfPast' /\ Quiet' /\ BusyHoldsNothing'
  <2>1. WordsOfPast'
    BY <1>1, LocksAssumption DEF IInv, TypeOK, WordsOfPast
  <2>2. Quiet'
    BY DEF IInv, Quiet
  <2>3. BusyHoldsNothing'
    BY DEF IInv, TypeOK, BusyHoldsNothing, Idle
  <2> QED BY <2>1, <2>2, <2>3
<1>4. WriterAlone' /\ Exclusion'
  <2> USE LocksAssumption, <1>1 DEF IInv, Exclusion, WriterAlone, TypeOK, MayWrite, MayRead
  <2>1. WriterAlone'
    OBVIOUS
  <2>2. \A u \in Threads : /\ held'[u] = "exclusive" <=> w = u
                           /\ held'[u] = "shared" <=> u \in S
    OBVIOUS
  <2>3. \A u \in Threads : held'[u] = "mutex" <=> mutex'.owner = u
    OBVIOUS
  <2> QED BY <2>1, <2>2, <2>3
<1>5. AnswerIsCurrent'
  BY <1>1 DEF IInv, TypeOK, AnswerIsCurrent
<1> QED BY <1>2, <1>3, <1>4, <1>5 DEF IInv

(* Only the calls and the condition variable change: a call begins, times  *)
(* out or fails, and the waits that end.                                   *)
LEMMA CallStep ==
  ASSUME IInv, UNCHANGED <<pool, plock, rwlock, ready, held, answer>>,
         file = "constructed", pop = "open",
         call' \in [Threads -> CallRecs], telling' \in SUBSET Threads,
         pcond' = {u \in Threads : call'[u].op = "waiting"},
         \A u \in Threads : call'[u].op # "idle" => held[u] = "none"
  PROVE  IInv'
<1> USE DEF pool
<1>1. mutex' = mutex /\ shared_mutex' = shared_mutex
  BY DEF mutex, shared_mutex
<1>2. TypeOK'
  BY DEF IInv, TypeOK, CallRecs, Ops
<1>3. WordsOfPast' /\ Quiet' /\ BusyHoldsNothing'
  BY DEF IInv, WordsOfPast, Quiet, BusyHoldsNothing
<1>4. WriterAlone' /\ Exclusion'
  BY <1>1 DEF IInv, WriterAlone, Exclusion
<1>5. AnswerIsCurrent'
  BY DEF IInv, AnswerIsCurrent
<1> QED BY <1>2, <1>3, <1>4, <1>5 DEF IInv

(* The pool is created, opened, given its root and its locks. *)
LEMMA PoolStep ==
  ASSUME IInv, Create \/ Open \/ GetRoot \/ Construct
  PROVE  IInv'
<1> USE DEF Create, Open, BaseCreate, BaseOpen, GetRoot, Construct, ZeroMutex,
            ZeroSharedMutex, ZeroCond
<1>1. \A t \in Threads : call[t] = Idle /\ held[t] = "none"
  BY DEF IInv, Quiet
<1>2. mutex'.owner = NoThread /\ shared_mutex'.writer = NoThread
      /\ shared_mutex'.readers = {}
  <2>1. CASE Create \/ Open
    BY <2>1, FreshRun, LocksAssumption DEF IInv, TypeOK, WordsOfPast, Quiet
  <2>2. CASE GetRoot
    <3>1. mutex' = mutex /\ shared_mutex' = shared_mutex
      BY <2>2 DEF mutex, shared_mutex
    <3>2. mutex.owner \in Owners /\ shared_mutex.writer \in Owners
          /\ shared_mutex.readers \subseteq Threads
      BY LocksAssumption, SharedMutexType DEF IInv, TypeOK, mutex, Owners
    <3> QED BY <3>1, <3>2, <1>1, <2>2 DEF IInv, Exclusion, Owners
  <2>3. CASE Construct
    BY <2>3, ZeroedWords
  <2> QED BY <2>1, <2>2, <2>3
<1>3. TypeOK'
  <2>1. run' \in 0..MaxRuns
    BY LocksAssumption DEF IInv, TypeOK
  <2>2. plock' \in [run : 0..MaxRuns, owner : Threads \union {NoThread}]
    BY LocksAssumption DEF IInv, TypeOK
  <2>3. rwlock' \in [run : 0..MaxRuns, writer : Threads \union {NoThread},
                     readers : SUBSET Threads]
    BY LocksAssumption DEF IInv, TypeOK
  <2>4. pcond' = {u \in Threads : call'[u].op = "waiting"}
    BY <1>1 DEF IInv, TypeOK, Idle
  <2> QED BY <2>1, <2>2, <2>3, <2>4 DEF IInv, TypeOK
<1>4. WordsOfPast' /\ Quiet' /\ BusyHoldsNothing'
  <2>1. WordsOfPast'
    BY LocksAssumption DEF IInv, TypeOK, WordsOfPast, Quiet
  <2>2. Quiet' /\ BusyHoldsNothing'
    BY <1>1 DEF IInv, Quiet, BusyHoldsNothing
  <2> QED BY <2>1, <2>2
<1>5. WriterAlone' /\ Exclusion'
  BY <1>1, <1>2, NobodyHolds
<1>6. AnswerIsCurrent'
  BY <1>1 DEF IInv, AnswerIsCurrent
<1> QED BY <1>3, <1>4, <1>5, <1>6 DEF IInv

(* The pool is closed, or the process dies. *)
LEMMA ForgottenStep ==
  ASSUME IInv, Forgotten
  PROVE  IInv'
<1> USE DEF Forgotten
<1>1. TypeOK'
  <2>1. call' \in [Threads -> CallRecs]
    <3>1. Idle \in CallRecs
      BY Zenon DEF Idle, CallRecs, Ops
    <3> QED BY <3>1, Zenon
  <2>2. pcond' = {u \in Threads : call'[u].op = "waiting"}
    BY DEF Idle
  <2>3. pop' \in {"null", "open"} /\ telling' \subseteq Threads
        /\ held' \in [Threads -> Held] /\ answer' \in [Threads -> Answers]
    BY DEF Held, Answers
  <2> QED BY <2>1, <2>2, <2>3 DEF IInv, TypeOK, CallRecs, Ops, Held, Answers
<1>2. WordsOfPast' /\ Quiet' /\ BusyHoldsNothing'
  BY DEF IInv, WordsOfPast, Quiet, BusyHoldsNothing
<1>3. pop' = "null" /\ Exclusion' /\ AnswerIsCurrent'
  BY DEF Exclusion, AnswerIsCurrent
<1> QED BY <1>1, <1>2, <1>3 DEF IInv

(* The flag changes under the mutex: nobody else has an answer about it. *)
LEMMA SetReadyStep ==
  ASSUME IInv, NEW t \in Threads, SetReady(t)
  PROVE  IInv'
<1> USE DEF SetReady, MayCall, pool, locks
<1>1. mutex' = mutex /\ shared_mutex' = shared_mutex
  BY DEF mutex, shared_mutex
<1>2. TypeOK'
  <2>1. ready' \in BOOLEAN
    OBVIOUS
  <2>2. answer' \in [Threads -> Answers] /\ telling' \subseteq Threads
    BY DEF IInv, TypeOK, Answers
  <2> QED BY <2>1, <2>2 DEF IInv, TypeOK, Answers
<1>3. WordsOfPast' /\ Quiet' /\ BusyHoldsNothing'
  BY DEF IInv, WordsOfPast, Quiet, BusyHoldsNothing
<1>4. WriterAlone' /\ Exclusion'
  BY <1>1 DEF IInv, WriterAlone, Exclusion
<1>5. AnswerIsCurrent'
  <2>1. \A u \in Threads \ {t} : held[u] # "mutex"
    BY LocksAssumption DEF IInv, Exclusion
  <2>2. \A u \in Threads : answer'[u] = "none"
    BY <2>1 DEF IInv, TypeOK, AnswerIsCurrent
  <2> QED BY <2>2 DEF AnswerIsCurrent
<1> QED BY <1>2, <1>3, <1>4, <1>5 DEF IInv

-----------------------------------------------------------------------------
(* The actions.                                                            *)

(* A thread in a call is in one of the constructed locks of an open pool.  *)
LEMMA InCall ==
  ASSUME IInv, NEW t \in Threads, call[t].op # "idle"
  PROVE  pop = "open" /\ file = "constructed" /\ held[t] = "none"
BY DEF IInv, TypeOK, Quiet, BusyHoldsNothing, Idle

(* A record of a call, with another op. *)
LEMMA CallWithOp ==
  ASSUME TypeOK, NEW u \in Threads, NEW op \in Ops
  PROVE  /\ [call[u] EXCEPT !.op = op] \in CallRecs
         /\ [call[u] EXCEPT !.op = op, !.expired = TRUE] \in CallRecs
         /\ [call[u] EXCEPT !.op = op].op = op
         /\ [call[u] EXCEPT !.op = op, !.expired = TRUE].op = op
<1>1. call[u] \in CallRecs
  BY DEF TypeOK, CallRecs, Ops
<1>2. TRUE \in BOOLEAN
  OBVIOUS
<1>3. [call[u] EXCEPT !.op = op] \in CallRecs
  BY <1>1 DEF CallRecs
<1>4. [call[u] EXCEPT !.op = op, !.expired = TRUE] \in CallRecs
  BY <1>1, <1>2 DEF CallRecs
<1> QED BY <1>1, <1>3, <1>4 DEF CallRecs

LEMMA EntersStep ==
  ASSUME IInv, NEW t \in Threads,
         NEW op \in {"lock", "timedlock", "wrlock", "rdlock"}, Enters(t, op)
  PROVE  IInv'
<1> DEFINE c == [call[t] EXCEPT !.op = op]
<1>1. c \in CallRecs /\ c.op = op
  <2>1. TypeOK /\ op \in Ops
    BY DEF IInv, Ops
  <2> QED BY <2>1, CallWithOp, Zenon
<1>2. call' = [call EXCEPT ![t] = c]
  BY DEF Enters
<1> HIDE DEF c
<1>3. call' \in [Threads -> CallRecs]
  BY <1>1, <1>2, Zenon DEF IInv, TypeOK, CallRecs, Ops
<1>4. pcond' = {u \in Threads : call'[u].op = "waiting"}
  BY <1>1, <1>2 DEF IInv, TypeOK, Enters, Free, MayCall, Idle, locks
<1>5. \A u \in Threads : call'[u].op # "idle" => held[u] = "none"
  BY <1>2 DEF IInv, TypeOK, BusyHoldsNothing, Enters, Free
<1>6. telling' \in SUBSET Threads
  BY DEF IInv, TypeOK, Enters
<1> QED BY <1>3, <1>4, <1>5, <1>6, CallStep DEF Enters, Free, MayCall, pool, locks

(* A call that ends with nothing: a timeout or an exception. *)
LEMMA GivesUpStep ==
  ASSUME IInv, NEW t \in Threads, TryLockUntilExpires(t) \/ LockThrows(t)
  PROVE  IInv'
<1> USE DEF TryLockUntilExpires, LockThrows
<1>1. pop = "open" /\ file = "constructed"
  BY InCall
<1>2. call' \in [Threads -> CallRecs]
  <2>1. Idle \in CallRecs
    BY Zenon DEF Idle, CallRecs, Ops
  <2>2. call \in [Threads -> CallRecs]
    BY Zenon DEF IInv, TypeOK, CallRecs, Ops
  <2> QED BY <2>1, <2>2
<1>3. pcond' = {u \in Threads : call'[u].op = "waiting"}
  BY DEF IInv, TypeOK, locks, Idle
<1>4. \A u \in Threads : call'[u].op # "idle" => held[u] = "none"
  BY DEF IInv, TypeOK, BusyHoldsNothing, Idle
<1>5. telling' \in SUBSET Threads
  BY DEF IInv, TypeOK
<1> QED BY <1>1, <1>2, <1>3, <1>4, <1>5, CallStep DEF locks

(* Threads are woken: notify_one, notify_all, and the library by itself. *)
LEMMA WakesStep ==
  ASSUME IInv, NEW S \in SUBSET pcond, Wakes(S), telling' \in SUBSET Threads,
         pop = "open", file = "constructed"
  PROVE  IInv'
<1>1. \A u \in Threads : /\ u \in S => call'[u] \in CallRecs /\ call'[u].op = "reacquire"
                         /\ u \notin S => call'[u] = call[u]
  <2>1. SUFFICES ASSUME NEW u \in Threads
                 PROVE  /\ u \in S => call'[u] \in CallRecs /\ call'[u].op = "reacquire"
                        /\ u \notin S => call'[u] = call[u]
    BY <2>1
  <2>2. /\ [call[u] EXCEPT !.op = "reacquire"] \in CallRecs
        /\ [call[u] EXCEPT !.op = "reacquire"].op = "reacquire"
    <3>1. TypeOK /\ "reacquire" \in Ops
      BY DEF IInv, Ops
    <3> QED BY <3>1, CallWithOp, Zenon
  <2> QED BY <2>2, Zenon DEF Wakes
<1>2. call' \in [Threads -> CallRecs]
  <2>1. DOMAIN call' = Threads /\ call' = [u \in Threads |-> call'[u]]
    BY DEF Wakes
  <2>2. \A u \in Threads : call[u] \in CallRecs
    BY DEF IInv, TypeOK, CallRecs, Ops
  <2>3. \A u \in Threads : call'[u] \in CallRecs
    BY <1>1, <2>2
  <2> QED BY <2>1, <2>3
<1>3. pcond' = {u \in Threads : call'[u].op = "waiting"}
  BY <1>1 DEF IInv, TypeOK, Wakes
<1>4. \A u \in Threads : call'[u].op # "idle" => held[u] = "none"
  BY <1>1 DEF IInv, TypeOK, BusyHoldsNothing
<1> QED BY <1>2, <1>3, <1>4, CallStep DEF Wakes

LEMMA WaitExpiresStep ==
  ASSUME IInv, NEW t \in Threads, WaitExpires(t)
  PROVE  IInv'
<1> DEFINE c == [call[t] EXCEPT !.op = "reacquire", !.expired = TRUE]
<1>1. c \in CallRecs /\ c.op = "reacquire"
  <2>1. TypeOK /\ "reacquire" \in Ops
    BY DEF IInv, Ops
  <2> QED BY <2>1, CallWithOp, Zenon
<1>2. call' = [call EXCEPT ![t] = c]
  <2>1. call \in [Threads -> CallRecs]
    BY Zenon DEF IInv, TypeOK, CallRecs, Ops
  <2> QED BY <2>1 DEF WaitExpires
<1> HIDE DEF c
<1>3. call[t].op = "waiting" /\ pop = "open" /\ file = "constructed" /\ held[t] = "none"
  BY InCall DEF IInv, TypeOK, WaitExpires
<1>4. call' \in [Threads -> CallRecs]
  BY <1>1, <1>2, Zenon DEF IInv, TypeOK, CallRecs, Ops
<1>5. pcond' = {u \in Threads : call'[u].op = "waiting"}
  BY <1>1, <1>2 DEF IInv, TypeOK, WaitExpires
<1>6. \A u \in Threads : call'[u].op # "idle" => held[u] = "none"
  BY <1>2, <1>3 DEF IInv, TypeOK, BusyHoldsNothing
<1>7. telling' \in SUBSET Threads
  BY DEF IInv, TypeOK, WaitExpires
<1> QED BY <1>3, <1>4, <1>5, <1>6, <1>7, CallStep DEF WaitExpires

(* The mutex is taken when it is free and the thread had nothing. *)
LEMMA GetsMutexStep ==
  ASSUME IInv, NEW t \in Threads, pop = "open", file = "constructed",
         call[t].op # "waiting", held[t] = "none", MutexFree, MutexTo(t),
         Gets(t, "mutex")
  PROVE  IInv'
<1>1. answer' = [answer EXCEPT ![t] = "none"]
  BY DEF IInv, TypeOK, AnswerIsCurrent, Gets
<1> QED BY <1>1, TakesMutex DEF Gets, Answers

(* The ways out of a wait, and the way back into it. *)
LEMMA WaitReturnsStep ==
  ASSUME IInv, NEW t \in Threads, pop = "open", file = "constructed",
         call[t].op # "waiting", held[t] = "mutex" \/ (held[t] = "none" /\ MutexFree),
         \/ WaitReturns(t, "none")
         \/ ready /\ WaitReturns(t, "true")
         \/ ~ready /\ WaitReturns(t, "false")
  PROVE  IInv'
<1>1. CASE WaitReturns(t, "none")
  BY <1>1, TakesMutex DEF WaitReturns, Answers
<1>2. CASE ready /\ WaitReturns(t, "true")
  BY <1>2, TakesMutex DEF WaitReturns, Answers
<1>3. CASE ~ready /\ WaitReturns(t, "false")
  BY <1>3, TakesMutex DEF WaitReturns, Answers
<1> QED BY <1>1, <1>2, <1>3

LEMMA BlocksStep ==
  ASSUME IInv, NEW t \in Threads, pop = "open", file = "constructed",
         call[t].op # "waiting", held[t] = "mutex" \/ (held[t] = "none" /\ MutexFree),
         NEW kind \in WaitKinds, Blocks(t, kind)
  PROVE  IInv'
<1> DEFINE c == [op |-> "waiting", kind |-> kind, expired |-> FALSE]
<1>1. c \in CallRecs /\ c.op = "waiting"
  BY Zenon DEF CallRecs, Ops
<1>2. call' = [call EXCEPT ![t] = c]
  BY Zenon DEF Blocks
<1> HIDE DEF c
<1>3. pcond' = pcond \union (IF c.op = "waiting" THEN {t} ELSE {})
  BY <1>1 DEF Blocks
<1> QED BY <1>1, <1>2, <1>3, LeavesMutex DEF Blocks

LEMMA WaitsStep ==
  ASSUME IInv, NEW t \in Threads, NEW kind \in WaitKinds, Waits(t, kind)
  PROVE  IInv'
<1>1. pop = "open" /\ file = "constructed" /\ call[t].op # "waiting" /\ held[t] = "mutex"
  BY DEF Waits, MayCall, Idle
<1>2. CASE kind \in WithPredicate /\ ready
  <2>1. ready /\ WaitReturns(t, "true")
    BY <1>2, Zenon DEF Waits
  <2>2. \/ WaitReturns(t, "none")
        \/ ready /\ WaitReturns(t, "true")
        \/ ~ready /\ WaitReturns(t, "false")
    BY <2>1, Zenon
  <2> QED BY <1>1, <2>2, WaitReturnsStep, Zenon
<1>3. CASE ~(kind \in WithPredicate /\ ready)
  <2>1. Blocks(t, kind)
    BY <1>3, Zenon DEF Waits
  <2> QED BY <1>1, <2>1, BlocksStep, Zenon
<1> QED BY <1>2, <1>3

LEMMA UnlockStep ==
  ASSUME IInv, NEW t \in Threads, Unlock(t)
  PROVE  IInv'
<1>1. Idle \in CallRecs /\ Idle.op = "idle"
  BY Zenon DEF Idle, CallRecs, Ops
<1>2. call' = [call EXCEPT ![t] = Idle]
  BY DEF IInv, TypeOK, Unlock, MayCall
<1>3. call[t].op # "waiting"
  BY <1>1 DEF Unlock, MayCall
<1>4. pcond' = pcond \union (IF Idle.op = "waiting" THEN {t} ELSE {})
  BY <1>1 DEF Unlock, MutexTo
<1>5. /\ pop = "open" /\ file = "constructed" /\ held[t] = "mutex"
      /\ plock' = [mutex EXCEPT !.owner = NoThread] /\ UNCHANGED rwlock
      /\ held' = [held EXCEPT ![t] = "none"] /\ answer' = [answer EXCEPT ![t] = "none"]
      /\ UNCHANGED <<pool, ready, telling>>
  BY Zenon DEF Unlock, MayCall, MutexTo
<1>6. Idle.op # "idle" \/ Idle = Idle
  OBVIOUS
<1>7. held[t] = "mutex" \/ (held[t] = "none" /\ MutexFree)
  BY <1>5
<1> HIDE DEF Idle
<1> QED BY <1>1, <1>2, <1>3, <1>4, <1>5, <1>6, <1>7, LeavesMutex

LEMMA LockNextStep ==
  ASSUME IInv, NEW t \in Threads, LockNext(t)
  PROVE  IInv'
<1>1. CASE \E op \in {"lock", "timedlock", "wrlock", "rdlock"} : Enters(t, op)
  BY <1>1, EntersStep
<1>2. CASE TryLockUntilExpires(t) \/ LockThrows(t)
  BY <1>2, GivesUpStep
<1>3. CASE LockAcquires(t)
  BY <1>3, InCall, GetsMutexStep DEF LockAcquires
<1>4. CASE TryLock(t)
  BY <1>4, GetsMutexStep DEF TryLock, Free, MayCall, Idle
<1>5. CASE Unlock(t)
  BY <1>5, UnlockStep
<1>6. CASE SharedMutexAcquires(t)
  BY <1>6, InCall, SharedMutexStep DEF SharedMutexAcquires, Held
<1>7. CASE TryLockExclusive(t) \/ TryLockShared(t)
  <2>1. pop = "open" /\ file = "constructed" /\ held[t] = "none" /\ call[t].op # "waiting"
    BY <1>7 DEF TryLockExclusive, TryLockShared, Free, MayCall, Idle
  <2> QED BY <1>7, <2>1, SharedMutexStep DEF TryLockExclusive, TryLockShared, Held
<1>8. CASE UnlockShared(t)
  <2>1. pop = "open" /\ file = "constructed" /\ call[t].op # "waiting"
    BY <1>8 DEF UnlockShared, MayCall, Idle
  <2> QED BY <1>8, <2>1, SharedMutexStep DEF UnlockShared, Held
<1> QED
  BY <1>1, <1>2, <1>3, <1>4, <1>5, <1>6, <1>7, <1>8
     DEF LockNext, Lock, TryLockUntil, TryLockFor, TimedTryLock, TimedUnlock,
         LockExclusive, LockShared

LEMMA CondNextStep ==
  ASSUME IInv, NEW t \in Threads, CondNext(t)
  PROVE  IInv'
<1>1. CASE Wait(t) \/ WaitUntil(t) \/ WaitFor(t)
  <2>1. PICK kind \in WaitKinds : Waits(t, kind)
    BY <1>1 DEF Wait, WaitUntil, WaitFor, WaitKinds, Timed
  <2> QED BY <2>1, WaitsStep
<1>2. CASE call[t].op = "reacquire" /\ (WaitWakes(t) \/ WaitLoops(t) \/ WaitThrows(t))
  <2>1. pop = "open" /\ file = "constructed" /\ held[t] = "none" /\ MutexFree
    BY <1>2, InCall DEF WaitWakes, WaitLoops, WaitThrows
  <2>2. CASE WaitWakes(t) \/ WaitThrows(t)
    BY <1>2, <2>1, <2>2, WaitReturnsStep DEF WaitWakes, WaitThrows
  <2>3. CASE WaitLoops(t)
    <3>1. CASE ready /\ WaitReturns(t, "true")
      BY <1>2, <2>1, <3>1, WaitReturnsStep
    <3>2. CASE ~ready /\ WaitReturns(t, "false")
      BY <1>2, <2>1, <3>2, WaitReturnsStep
    <3>3. CASE Blocks(t, call[t].kind)
      <4>1. call[t].kind \in WaitKinds
        BY <2>3 DEF WaitLoops, WithPredicate, WaitKinds
      <4> QED BY <1>2, <2>1, <3>3, <4>1, BlocksStep
    <3> QED BY <2>3, <3>1, <3>2, <3>3 DEF WaitLoops
  <2> QED BY <1>2, <2>2, <2>3
<1>3. CASE NotifyOne(t)
  <2>1. PICK u \in pcond : Wakes({u})
    BY <1>3 DEF NotifyOne
  <2> QED BY <1>3, <2>1, WakesStep DEF NotifyOne, MayCall, IInv, TypeOK
<1>4. CASE NotifyAll(t)
  BY <1>4, WakesStep DEF NotifyAll, MayCall, IInv, TypeOK
<1>5. CASE WakesSpuriously(t)
  <2>1. pop = "open" /\ file = "constructed"
    BY <1>5, InCall DEF WakesSpuriously, IInv, TypeOK
  <2> QED BY <1>5, <2>1, WakesStep DEF WakesSpuriously, IInv, TypeOK
<1>6. CASE WaitExpires(t)
  BY <1>6, WaitExpiresStep
<1>7. CASE SetReady(t)
  BY <1>7, SetReadyStep
<1> QED
  BY <1>1, <1>2, <1>3, <1>4, <1>5, <1>6, <1>7
     DEF CondNext, WaitWakes, WaitLoops, WaitThrows

-----------------------------------------------------------------------------

LEMMA InitInv == Init => IInv
<1> SUFFICES ASSUME Init PROVE IInv
  OBVIOUS
<1> USE DEF Init
<1>1. TypeOK
  <2>1. call \in [Threads -> CallRecs]
    <3>1. Idle \in CallRecs
      BY Zenon DEF Idle, CallRecs, Ops
    <3> QED BY <3>1, Zenon
  <2>2. pcond = {u \in Threads : call[u].op = "waiting"}
    BY DEF Idle
  <2>3. ready \in BOOLEAN /\ held \in [Threads -> Held] /\ answer \in [Threads -> Answers]
    BY DEF Held, Answers
  <2> QED BY <2>1, <2>2, <2>3, LocksAssumption
          DEF TypeOK, CallRecs, Ops, Held, Answers
<1>2. WordsOfPast /\ Quiet /\ BusyHoldsNothing /\ Exclusion /\ AnswerIsCurrent
  BY DEF WordsOfPast, Quiet, BusyHoldsNothing, Exclusion, AnswerIsCurrent
<1> QED BY <1>1, <1>2 DEF IInv

LEMMA NextInv == IInv /\ [Next]_vars => IInv'
<1> SUFFICES ASSUME IInv, [Next]_vars PROVE IInv'
  OBVIOUS
<1>1. CASE Create \/ Open \/ GetRoot \/ Construct
  BY <1>1, PoolStep
<1>2. CASE Close \/ Crash
  BY <1>2, ForgottenStep DEF Close, Crash
<1>3. CASE \E t \in Threads : LockNext(t) \/ CondNext(t)
  BY <1>3, LockNextStep, CondNextStep
<1>4. CASE UNCHANGED vars
  BY <1>4 DEF vars, IInv, TypeOK, WordsOfPast, Quiet, BusyHoldsNothing, WriterAlone,
              Exclusion, AnswerIsCurrent, mutex, shared_mutex
<1> QED BY <1>1, <1>2, <1>3, <1>4 DEF Next

LEMMA LocksInvariant == Spec => []IInv
BY InitInv, NextInv, PTL DEF Spec

(* Whatever lock, try_lock, try_lock_until, unlock and the waits have told *)
(* the threads agrees with the lock words, and they exclude each other as  *)
(* promised, through every close, crash and reopening of the pool          *)
(* (mutex.hpp:97-147, timed_mutex.hpp:226-249, shared_mutex.hpp:98-218).   *)
THEOREM ExclusionHolds == Spec => []Exclusion
<1>1. IInv => Exclusion
  BY DEF IInv
<1> QED BY <1>1, LocksInvariant, PTL

(* A wait with a predicate returns with the mutex held and with what the   *)
(* predicate says then, and that stays so while the caller keeps the mutex *)
(* (condition_variable.hpp:517-523, 560-572).                              *)
THEOREM AnswerStaysCurrent == Spec => []AnswerIsCurrent
<1>1. IInv => AnswerIsCurrent
  BY DEF IInv
<1> QED BY <1>1, LocksInvariant, PTL

(* The state of the pool, its lock words and the threads' calls is always  *)
(* well-formed, and the threads the condition variable knows are the ones  *)
(* inside pmemobj_cond_wait (condition_variable.hpp:500-572).              *)
THEOREM LocksTypeCorrect == Spec => []TypeOK
<1>1. IInv => TypeOK
  BY DEF IInv
<1> QED BY <1>1, LocksInvariant, PTL

=============================================================================
