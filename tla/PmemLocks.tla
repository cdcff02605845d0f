----------------------------- MODULE PmemLocks -----------------------------
(***************************************************************************)
(* The locks of libpmemobj++ that live in a pool: mutex, timed_mutex and   *)
(* shared_mutex, the condition_variable, and the opening and closing of    *)
(* the pool (pool.hpp) that decides whether what a lock word holds still   *)
(* means anything.  A lock word outlives the process: the C library        *)
(* (libpmemobj/thread.h) takes a word of an earlier run of the pool for a  *)
(* lock that nobody holds.                                                 *)
(*                                                                         *)
(* The program around them: threads lock, unlock and wait in any order a   *)
(* correct program may, never two of the locks at a time.  The mutex       *)
(* guards the flag ready; who changes ready calls notify_all afterwards,   *)
(* before or after the unlock.                                             *)
(***************************************************************************)
EXTENDS Integers, FiniteSets

CONSTANTS
  Threads,
  NoThread,
  Deadlines,   \* points in time that callers pass, in ticks since the epoch
  TicksPerSec, \* bound: a billion, in the code
  MaxRuns      \* bound: how often the pool is opened

ASSUME LocksAssumption ==
  /\ NoThread \notin Threads /\ Deadlines \subseteq Int
  /\ TicksPerSec \in Nat \ {0} /\ MaxRuns \in Nat \ {0}

VARIABLES
  file,    \* the pool: absent, created, with its root, with its locks constructed
  pop,     \* pool_base::pop, null or not
  run,     \* the run of the pool, which the library counts
  plock,   \* the word of the mutex (mutex and timed_mutex have the same)
  rwlock,  \* the word of the shared_mutex
  pcond,   \* the threads that wait on the condition variable
  ready,   \* the flag the mutex guards
  call,    \* the call each thread is in
  held,    \* what each thread holds, to judge by what the calls returned
  answer,  \* what the last wait with a predicate told a thread that holds on
  telling  \* the threads that have changed ready and not notified yet

vars == <<file, pop, run, plock, rwlock, pcond, ready, call, held, answer, telling>>

WaitKinds == {"wait", "wait_pred", "wait_until", "wait_until_pred"}
WithPredicate == {"wait_pred", "wait_until_pred"}
Timed == {"wait_until", "wait_until_pred"}
Idle == [op |-> "idle", kind |-> "none", expired |-> FALSE]

TypeOK ==
  /\ file \in {"absent", "raw", "rooted", "constructed"} /\ pop \in {"null", "open"}
  /\ run \in 0..MaxRuns
  /\ plock \in [run : 0..MaxRuns, owner : Threads \union {NoThread}]
  /\ rwlock \in [run : 0..MaxRuns, writer : Threads \union {NoThread},
                 readers : SUBSET Threads]
  /\ pcond \subseteq Threads /\ ready \in BOOLEAN
  /\ call \in [Threads -> [op : {"idle", "lock", "timedlock", "wrlock", "rdlock",
                                 "waiting", "reacquire"},
                           kind : WaitKinds \union {"none"}, expired : BOOLEAN]]
  /\ pcond = {t \in Threads : call[t].op = "waiting"}
  /\ held \in [Threads -> {"none", "mutex", "shared", "exclusive"}]
  /\ answer \in [Threads -> {"none", "true", "false"}]
  /\ telling \subseteq Threads

Init ==
  /\ file = "absent" /\ pop = "null" /\ run = 0
  /\ plock = [run |-> 0, owner |-> NoThread]
  /\ rwlock = [run |-> 0, writer |-> NoThread, readers |-> {}]
  /\ pcond = {} /\ ready = FALSE
  /\ call = [t \in Threads |-> Idle] /\ held = [t \in Threads |-> "none"]
  /\ answer = [t \in Threads |-> "none"] /\ telling = {}

-----------------------------------------------------------------------------
(* The pool.                                                               *)

pool == <<file, pop, run>>
locks == <<plock, rwlock, pcond>>
threads == <<call, held, answer, telling>>

(* pool_base::create and open; when they fail they throw, and nothing has  *)
(* changed.  Those of pool<T> call them.                                   *)
BaseCreate ==
  /\ file = "absent" /\ file' = "raw"
  /\ pop' = "open" /\ run' = 1
  /\ UNCHANGED <<plock, rwlock, pcond, ready, call, held, answer, telling>>
BaseOpen ==
  /\ file # "absent" /\ pop = "null" /\ run < MaxRuns
  /\ pop' = "open" /\ run' = run + 1
  /\ UNCHANGED <<file, plock, rwlock, pcond, ready, call, held, answer, telling>>
Create == BaseCreate
Open == BaseOpen

(* get_root makes the root, zeroed, the first time; then it only returns   *)
GetRoot ==
  /\ pop = "open" /\ file = "raw" /\ file' = "rooted"
  /\ UNCHANGED <<pop, run, plock, rwlock, pcond, ready, call, held, answer, telling>>

Forgotten ==
  /\ pop' = "null" /\ pcond' = {}
  /\ call' = [t \in Threads |-> Idle] /\ held' = [t \in Threads |-> "none"]
  /\ answer' = [t \in Threads |-> "none"] /\ telling' = {}
  /\ UNCHANGED <<file, run, plock, rwlock, ready>>
(* pool_base::close, which throws when pop is null; no thread may be in a  *)
(* call, but a thread may still hold a lock: its word stays as it is       *)
Close ==
  /\ pop = "open" /\ \A t \in Threads : call[t] = Idle
  /\ Forgotten
(* the process dies                                                        *)
Crash == pop = "open" /\ Forgotten

(* the constructors of the locks, which throw for a lock that is in no     *)
(* pool, run in the program's first transaction: all of them or none       *)
ZeroMutex == plock' = [run |-> 0, owner |-> NoThread]
ZeroSharedMutex == rwlock' = [run |-> 0, writer |-> NoThread, readers |-> {}]
ZeroCond == pcond' = {}
Construct ==
  /\ pop = "open" /\ file = "rooted" /\ file' = "constructed"
  /\ ZeroMutex /\ ZeroSharedMutex /\ ZeroCond
  /\ UNCHANGED <<pop, run, ready, call, held, answer, telling>>

-----------------------------------------------------------------------------
(* The lock words, as the library reads them.                              *)

mutex == IF plock.run = run THEN plock ELSE [run |-> run, owner |-> NoThread]
shared_mutex == IF rwlock.run = run THEN rwlock
                ELSE [run |-> run, writer |-> NoThread, readers |-> {}]

MutexFree == mutex.owner = NoThread
MayWrite == shared_mutex.writer = NoThread /\ shared_mutex.readers = {}
MayRead == shared_mutex.writer = NoThread

MutexTo(owner) == plock' = [mutex EXCEPT !.owner = owner] /\ UNCHANGED <<rwlock, pcond>>
WriterTo(t) == rwlock' = [shared_mutex EXCEPT !.writer = t] /\ UNCHANGED <<plock, pcond>>
ReadersTo(S) == rwlock' = [shared_mutex EXCEPT !.readers = S] /\ UNCHANGED <<plock, pcond>>

-----------------------------------------------------------------------------
(* Locking and unlocking.                                                  *)

MayCall(t) == pop = "open" /\ file = "constructed" /\ call[t] = Idle
Free(t) == MayCall(t) /\ held[t] = "none" /\ t \notin telling
Enters(t, op) ==
  /\ Free(t)
  /\ call' = [call EXCEPT ![t].op = op]
  /\ UNCHANGED <<pool, locks, ready, held, answer, telling>>
Gets(t, what) ==
  /\ held' = [held EXCEPT ![t] = what] /\ call' = [call EXCEPT ![t] = Idle]
  /\ UNCHANGED <<pool, ready, answer, telling>>

(* lock of mutex and timed_mutex                                           *)
Lock(t) == Enters(t, "lock")

(* detail::timepoint_to_timespec: duration_cast cuts towards zero          *)
timepoint_to_timespec(d) ==
  LET sec == IF d >= 0 THEN d \div TicksPerSec ELSE -((-d) \div TicksPerSec)
  IN [tv_sec |-> sec, tv_nsec |-> d - sec * TicksPerSec]
(* A time before the epoch has negative nanoseconds, which the library     *)
(* answers with EINVAL: the call throws lock_error and does not time out.  *)
Accepted(d) == timepoint_to_timespec(d).tv_nsec \in 0..(TicksPerSec - 1)

(* try_lock_until, where a refused deadline leaves all as it is, and       *)
(* try_lock_for, whose deadline is counted from now                        *)
TryLockUntil(t) == \E d \in Deadlines : Accepted(d) /\ Enters(t, "timedlock")
TryLockFor(t) == Enters(t, "timedlock")

LockAcquires(t) ==
  /\ call[t].op \in {"lock", "timedlock"} /\ MutexFree
  /\ MutexTo(t) /\ Gets(t, "mutex")

TryLockUntilExpires(t) ==
  /\ call[t].op = "timedlock"
  /\ call' = [call EXCEPT ![t] = Idle]
  /\ UNCHANGED <<pool, locks, ready, held, answer, telling>>

(* Mutant: EBUSY is taken for success.                                     *)
TryLockIgnoresBusy(t) ==
  /\ Free(t)
  /\ MutexTo(IF MutexFree THEN t ELSE mutex.owner) /\ Gets(t, "mutex")
(* try_lock; the answer EBUSY changes nothing                              *)
TryLock(t) ==
  /\ Free(t) /\ MutexFree
  /\ MutexTo(t) /\ Gets(t, "mutex")

Unlock(t) ==
  /\ MayCall(t) /\ held[t] = "mutex"
  /\ MutexTo(NoThread)
  /\ held' = [held EXCEPT ![t] = "none"] /\ answer' = [answer EXCEPT ![t] = "none"]
  /\ UNCHANGED <<pool, ready, call, telling>>

(* try_lock and unlock when the lock word is that of a timed_mutex         *)
TimedTryLock(t) == TryLock(t)
TimedUnlock(t) == Unlock(t)

(* a blocking call fails and throws lock_error: the thread has no lock     *)
LockThrows(t) ==
  /\ call[t].op \in {"lock", "timedlock", "wrlock", "rdlock"}
  /\ call' = [call EXCEPT ![t] = Idle]
  /\ UNCHANGED <<pool, locks, ready, held, answer, telling>>

LockExclusive(t) == Enters(t, "wrlock")
LockShared(t) == Enters(t, "rdlock")
SharedMutexAcquires(t) ==
  \/ call[t].op = "wrlock" /\ MayWrite /\ WriterTo(t) /\ Gets(t, "exclusive")
  \/ /\ call[t].op = "rdlock" /\ MayRead
     /\ ReadersTo(shared_mutex.readers \union {t}) /\ Gets(t, "shared")
TryLockExclusive(t) ==
  /\ Free(t) /\ MayWrite
  /\ WriterTo(t) /\ Gets(t, "exclusive")
TryLockShared(t) ==
  /\ Free(t) /\ MayRead
  /\ ReadersTo(shared_mutex.readers \union {t}) /\ Gets(t, "shared")
(* unlock; unlock_shared is the same call                                  *)
UnlockShared(t) ==
  /\ MayCall(t)
  /\ \/ held[t] = "exclusive" /\ WriterTo(NoThread)
     \/ held[t] = "shared" /\ ReadersTo(shared_mutex.readers \ {t})
  /\ Gets(t, "none")

-----------------------------------------------------------------------------
(* The condition variable.                                                 *)

(* pmemobj_cond_wait: the mutex is released and the thread waits, at once  *)
Blocks(t, kind) ==
  /\ plock' = [mutex EXCEPT !.owner = NoThread] /\ pcond' = pcond \union {t}
  /\ call' = [call EXCEPT ![t] = [op |-> "waiting", kind |-> kind, expired |-> FALSE]]
  /\ held' = [held EXCEPT ![t] = "none"] /\ answer' = [answer EXCEPT ![t] = "none"]
  /\ UNCHANGED <<pool, rwlock, ready, telling>>
WaitReturns(t, a) ==
  /\ MutexTo(t)
  /\ call' = [call EXCEPT ![t] = Idle] /\ held' = [held EXCEPT ![t] = "mutex"]
  /\ answer' = [answer EXCEPT ![t] = a]
  /\ UNCHANGED <<pool, ready, telling>>

(* A wait with a predicate asks it first.                                  *)
Waits(t, kind) ==
  /\ MayCall(t) /\ held[t] = "mutex" /\ t \notin telling
  /\ IF kind \in WithPredicate /\ ready
     THEN WaitReturns(t, "true") ELSE Blocks(t, kind)

(* The overloads of wait, wait_until and wait_for.  With a refused         *)
(* deadline they throw, and so they do when the library fails: the caller  *)
(* still has the mutex.                                                    *)
Wait(t) == \E kind \in WaitKinds \ Timed : Waits(t, kind)
WaitUntil(t) == \E kind \in Timed, d \in Deadlines : Accepted(d) /\ Waits(t, kind)
WaitFor(t) == \E kind \in Timed : Waits(t, kind)

(* wait_impl and wait_until_impl without a predicate, woken                *)
WaitWakes(t) ==
  /\ call[t].op = "reacquire" /\ call[t].kind \notin WithPredicate /\ MutexFree
  /\ WaitReturns(t, "none")

(* Mutant: an expired wait returns false without asking the predicate.     *)
WaitLoopsAsksOnce(t) ==
  /\ call[t].op = "reacquire" /\ call[t].kind \in WithPredicate /\ MutexFree
  /\ \/ call[t].expired /\ WaitReturns(t, "false")
     \/ ready /\ ~call[t].expired /\ WaitReturns(t, "true")
     \/ ~ready /\ ~call[t].expired /\ Blocks(t, call[t].kind)
(* the loops of wait_impl and wait_until_impl over the predicate           *)
WaitLoops(t) ==
  /\ call[t].op = "reacquire" /\ call[t].kind \in WithPredicate /\ MutexFree
  /\ \/ ready /\ WaitReturns(t, "true")
     \/ ~ready /\ call[t].expired /\ WaitReturns(t, "false")
     \/ ~ready /\ ~call[t].expired /\ Blocks(t, call[t].kind)

(* the library fails when the loop waits again: lock_error                 *)
WaitThrows(t) ==
  /\ call[t].op = "reacquire" /\ call[t].kind \in WithPredicate /\ MutexFree
  /\ ~ready /\ ~call[t].expired
  /\ WaitReturns(t, "none")

Wakes(S) ==
  /\ pcond' = pcond \ S
  /\ call' = [u \in Threads |-> IF u \in S THEN [call[u] EXCEPT !.op = "reacquire"]
                                ELSE call[u]]
  /\ UNCHANGED <<pool, plock, rwlock, ready, held, answer>>
NotifyOne(t) ==
  /\ MayCall(t) /\ UNCHANGED telling
  /\ \E u \in pcond : Wakes({u})
(* Mutant: notify_all signals instead of broadcasting.                     *)
NotifyAllSignals(t) ==
  /\ MayCall(t) /\ telling' = telling \ {t}
  /\ \/ pcond = {} /\ Wakes({})
     \/ \E u \in pcond : Wakes({u})
(* notify_all; when it throws the program calls it again                   *)
NotifyAll(t) ==
  /\ MayCall(t) /\ telling' = telling \ {t}
  /\ Wakes(pcond)
(* the library ends a wait by itself                                       *)
WakesSpuriously(t) == t \in pcond /\ Wakes({t}) /\ UNCHANGED telling
(* Mutant: an expired waiter stays registered with the condition variable. *)
WaitExpiresStays(t) ==
  /\ t \in pcond /\ call[t].kind \in Timed
  /\ call' = [call EXCEPT ![t].op = "reacquire", ![t].expired = TRUE]
  /\ UNCHANGED <<pool, plock, rwlock, pcond, ready, held, answer, telling>>
WaitExpires(t) ==
  /\ t \in pcond /\ call[t].kind \in Timed
  /\ pcond' = pcond \ {t}
  /\ call' = [call EXCEPT ![t].op = "reacquire", ![t].expired = TRUE]
  /\ UNCHANGED <<pool, plock, rwlock, ready, held, answer, telling>>

(* the program changes the flag                                            *)
SetReady(t) ==
  /\ MayCall(t) /\ held[t] = "mutex"
  /\ ready' = ~ready /\ telling' = telling \union {t}
  /\ answer' = [answer EXCEPT ![t] = "none"]
  /\ UNCHANGED <<pool, locks, call, held>>

-----------------------------------------------------------------------------
LockNext(t) ==
  \/ Lock(t) \/ TryLockUntil(t) \/ TryLockFor(t) \/ LockAcquires(t) \/ TryLockUntilExpires(t)
  \/ TryLock(t) \/ Unlock(t) \/ TimedTryLock(t) \/ TimedUnlock(t) \/ LockThrows(t)
  \/ LockExclusive(t) \/ LockShared(t) \/ SharedMutexAcquires(t)
  \/ TryLockExclusive(t) \/ TryLockShared(t) \/ UnlockShared(t)
CondNext(t) ==
  \/ Wait(t) \/ WaitUntil(t) \/ WaitFor(t)
  \/ WaitWakes(t) \/ WaitLoops(t) \/ WaitThrows(t)
  \/ NotifyOne(t) \/ NotifyAll(t) \/ WakesSpuriously(t) \/ WaitExpires(t)
  \/ SetReady(t)

Next ==
  \/ Create \/ Open \/ GetRoot \/ Close \/ Crash \/ Construct
  \/ \E t \in Threads : LockNext(t) \/ CondNext(t)

(* The one promise of the program that liveness needs: who has changed     *)
(* ready does call notify_all.  No lock is assumed to be fair.             *)
Spec == /\ Init /\ [][Next]_vars
        /\ \A t \in Threads : WF_vars(t \in telling /\ NotifyAll(t))

-----------------------------------------------------------------------------
(* What the calls have told the threads is what the lock words say, in     *)
(* every run of the pool: a thread that lock, try_lock, try_lock_until or  *)
(* a wait has given a lock is the one that has it, nobody else does, and a *)
(* word that a dead process left locked blocks nobody (mutex.hpp:97-147,   *)
(* timed_mutex.hpp:226-249, shared_mutex.hpp:98-218).                      *)
Exclusion ==
  pop = "open" => \A t \in Threads :
    /\ held[t] = "mutex" <=> mutex.owner = t
    /\ held[t] = "exclusive" <=> shared_mutex.writer = t
    /\ held[t] = "shared" <=> t \in shared_mutex.readers
    /\ \A u \in Threads \ {t} :
         held[t] = "exclusive" => held[u] \notin {"exclusive", "shared"}

(* A wait with a predicate returns with the mutex held and the answer the  *)
(* predicate has at that moment, whatever woke it and whatever happened    *)
(* between its timeout and its return; the answer stays true while the     *)
(* caller keeps the mutex (condition_variable.hpp:517-523, 560-572).       *)
AnswerIsCurrent ==
  \A t \in Threads : answer[t] # "none" =>
    held[t] = "mutex" /\ answer[t] = (IF ready THEN "true" ELSE "false")

(* No wakeup is lost: a thread that waits for ready, and ready is set,     *)
(* stops waiting, or ready is taken back (condition_variable.hpp:110-123,  *)
(* 500-523).                                                               *)
NoLostWakeup ==
  \A t \in Threads :
    (call[t].op = "waiting" /\ call[t].kind \in WithPredicate /\ ready)
      ~> (call[t].op # "waiting" \/ ~ready)

=============================================================================
