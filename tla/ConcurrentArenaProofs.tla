----------------------- MODULE ConcurrentArenaProofs ------------------------
(***************************************************************************)
(* ConcurrentNVMArena for any number of threads, shards and calls.         *)
(*                                                                         *)
(* The assertion of concurrentnvmarena.h:85, if no thread had repicked in  *)
(* another arena before: while the copy of the counter differs from the    *)
(* arena's own, no thread has got past the arena's mutex.  A thread that   *)
(* failed to take it and went on to a shard did so because another one     *)
(* holds it, and that one calls Fixup before it lets go.                   *)
(*                                                                         *)
(* And, in the second half, what calls are given: no memory twice, and     *)
(* aligned memory for an aligned size.                                     *)
(***************************************************************************)
EXTENDS ConcurrentArena, TLAPS

Ats == {"idle", "entry", "tryArena", "lockArena", "inArena", "tryShard", "lockShard",
        "inShard", "reload", "reloading", "carve"}

ThreadType == thread \in [Threads -> [at : Ats, call : Int, bytes : Int, s : Shards, avail : Int]]

ShardType ==
  shards_ \in [Shards -> [mutex : Threads \cup {Free}, free_begin_ : Int,
                          allocated_and_unused_ : Int]]

ArenaType ==
  /\ arena \in [next : Int, unused : Int, isInInlineBlock : BOOLEAN]
  /\ arena_allocated_and_unused_ \in Int

CpuidType == tls_cpuid \in [Threads -> Nat] /\ calls \in Int

Shape == ThreadType /\ ShardType /\ ArenaType /\ CpuidType

(* A thread in a call has asked for something. *)
Positive == \A t \in Threads : thread[t].at # "idle" => thread[t].bytes > 0

(* The stages at which a thread is on its way through a shard. *)
OnShardPath == {"tryShard", "lockShard", "inShard", "reload"}

Stale == arena_allocated_and_unused_ # arena.unused

(* What is true as long as Fixup has not been called. *)
BeforeFixup ==
  (fresh /\ Stale) =>
    /\ \A s \in Shards : shards_[s].allocated_and_unused_ = 0
    /\ \A t \in Threads : thread[t].at \notin {"carve", "reloading"}
    /\ arena_mutex_ = Free =>
         \A t \in Threads : tls_cpuid[t] = 0 /\ thread[t].at \notin OnShardPath

IInv == Shape /\ Positive /\ BeforeFixup

-----------------------------------------------------------------------------

(* The shard of a thread is a shard. *)
LEMMA ShardOf ==
  ASSUME NEW n \in Nat
  PROVE  n % NumShards \in Shards
BY ConcurrentAssumption DEF Shards

(* What the arena returns is an address, and its state stays one. *)
LEMMA ArenaResults ==
  ASSUME ArenaType, NEW n \in Int, NEW aligned \in BOOLEAN
  PROVE  /\ Start(n, aligned) \in Int
         /\ ArenaAfter(n, aligned) \in [next : Int, unused : Int, isInInlineBlock : BOOLEAN]
<1>1. ASSUME NEW a \in Int PROVE RoundUp(a) \in Int
  <2>1. PtrSize \in Int /\ PtrSize > 0
    BY ConcurrentAssumption
  <2>2. a + PtrSize - 1 \in Int
    BY <2>1
  <2>3. ASSUME NEW x \in Int PROVE x \div PtrSize \in Int
    BY <2>1
  <2>4. ASSUME NEW q \in Int PROVE q * PtrSize \in Int
    BY <2>1
  <2> QED BY <2>2, <2>3, <2>4 DEF RoundUp
<1>2. Start(n, aligned) \in Int
  BY <1>1 DEF Start, ArenaType
<1>3. ArenaAfter(n, aligned) \in [next : Int, unused : Int, isInInlineBlock : BOOLEAN]
  <2> DEFINE addr == Start(n, aligned)
             end == arena.next + arena.unused
             block == IF n <= kBlockSize THEN kBlockSize ELSE n
  <2>1. addr + n \in Int /\ end - (addr + n) \in Int
    BY <1>2 DEF ArenaType
  <2>2. block - n \in Int
    BY ConcurrentAssumption
  <2>3. \/ ArenaAfter(n, aligned) = [arena EXCEPT !.next = addr + n, !.unused = end - (addr + n)]
        \/ ArenaAfter(n, aligned) = [next |-> addr + n, unused |-> block - n,
                                     isInInlineBlock |-> FALSE]
    BY DEF ArenaAfter
  <2> HIDE DEF addr, end, block
  <2>4. CASE ArenaAfter(n, aligned) = [arena EXCEPT !.next = addr + n, !.unused = end - (addr + n)]
    BY <2>1, <2>4, Zenon DEF ArenaType
  <2>5. CASE ArenaAfter(n, aligned) = [next |-> addr + n, unused |-> block - n,
                                       isInInlineBlock |-> FALSE]
    BY <2>1, <2>2, <2>5
  <2> QED BY <2>3, <2>4, <2>5
<1> QED BY <1>2, <1>3

(* The initial states: nobody is anywhere yet. *)
LEMMA InitIInv ==
  ASSUME Init
  PROVE  IInv
<1>1. Shape
  <2>1. ThreadType /\ ShardType /\ ArenaType
    BY ConcurrentAssumption DEF Init, ThreadType, ShardType, ArenaType, Idle, Ats, Shards
  <2>2. CpuidType
    <3>1. tls_cpuid \in [Threads -> InitialCpuid] /\ calls = 0
      BY DEF Init
    <3>2. InitialCpuid \subseteq Nat
      BY ConcurrentAssumption
    <3>3. \A t \in Threads : tls_cpuid[t] \in Nat
      BY <3>1, <3>2
    <3>4. tls_cpuid \in [Threads -> Nat]
      BY <3>1, <3>3
    <3> QED BY <3>1, <3>4 DEF CpuidType
  <2> QED BY <2>1, <2>2 DEF Shape
<1>2. Positive
  BY DEF Init, Positive, Idle
<1>3. BeforeFixup
  BY DEF Init, BeforeFixup, Idle, OnShardPath
<1> QED BY <1>1, <1>2, <1>3 DEF IInv

-----------------------------------------------------------------------------

(* Types. *)
LEMMA ShapeNext ==
  ASSUME Shape, [Next]_vars
  PROVE  Shape'
<1> USE DEF Shape
<1>1. CASE UNCHANGED vars
  BY <1>1 DEF vars, ThreadType, ShardType, ArenaType, CpuidType
<1>2. ASSUME NEW t \in Threads, NEW bytes \in Requests, NEW force_arena \in BOOLEAN,
             AllocateImpl(t, bytes, force_arena)
      PROVE  Shape'
  <2>1. bytes \in Int /\ 0 \in Shards
    BY ConcurrentAssumption DEF Shards
  <2>2. PICK a \in {"lockArena", "entry"} :
          thread' = [thread EXCEPT ![t] = [Idle EXCEPT !.bytes = bytes, !.call = calls, !.at = a]]
    BY <1>2 DEF AllocateImpl
  <2>3. ThreadType'
    <3>1. Idle \in [at : Ats, call : Int, bytes : Int, s : Shards, avail : Int]
      BY <2>1 DEF Idle, Ats
    <3>2. [Idle EXCEPT !.bytes = bytes, !.call = calls, !.at = a]
            \in [at : Ats, call : Int, bytes : Int, s : Shards, avail : Int]
      BY <2>1, <3>1 DEF Ats, CpuidType
    <3> QED BY <2>2, <3>2 DEF ThreadType
  <2>4. ShardType' /\ ArenaType' /\ CpuidType'
    BY <1>2 DEF AllocateImpl, ShardType, ArenaType, CpuidType
  <2> QED BY <2>3, <2>4
<1>3. ASSUME NEW t \in Threads, Entry(t) PROVE Shape'
  <2>1. PICK a \in {"tryArena", "tryShard"} : thread' = [thread EXCEPT ![t].at = a]
    BY <1>3 DEF Entry, GoTo
  <2>2. ThreadType'
    BY <2>1 DEF ThreadType, Ats
  <2>3. ShardType' /\ ArenaType' /\ CpuidType'
    BY <1>3 DEF Entry, Choosing, ShardType, ArenaType, CpuidType
  <2> QED BY <2>2, <2>3
<1>4. ASSUME NEW t \in Threads, TryArena(t) PROVE Shape'
  <2>1. PICK a \in {"inArena", "tryShard"} : thread' = [thread EXCEPT ![t].at = a]
    BY <1>4 DEF TryArena, GoTo
  <2>2. ThreadType'
    BY <2>1 DEF ThreadType, Ats
  <2>3. ShardType' /\ ArenaType' /\ CpuidType'
    BY <1>4 DEF TryArena, Choosing, ShardType, ArenaType, CpuidType
  <2> QED BY <2>2, <2>3
<1>5. ASSUME NEW t \in Threads, LockArena(t) PROVE Shape'
  <2>1. PICK a \in {"inArena", "reloading"} : thread' = [thread EXCEPT ![t].at = a]
    BY <1>5 DEF LockArena, GoTo
  <2>2. ThreadType'
    BY <2>1 DEF ThreadType, Ats
  <2>3. ShardType' /\ ArenaType' /\ CpuidType'
    BY <1>5 DEF LockArena, Choosing, ShardType, ArenaType, CpuidType
  <2> QED BY <2>2, <2>3
<1>6. ASSUME NEW t \in Threads, TryShard(t) PROVE Shape'
  <2> DEFINE s == tls_cpuid[t] % NumShards
  <2>1. s \in Shards
    BY ShardOf DEF CpuidType
  <2>2. ArenaType'
    BY <1>6 DEF TryShard, Repick, Choosing, ArenaType
  <2>3. CASE /\ shards_' = [shards_ EXCEPT ![s].mutex = t]
             /\ thread' = [thread EXCEPT ![t].at = "inShard", ![t].s = s]
             /\ UNCHANGED tls_cpuid
    <3>1. ThreadType' BY <2>1, <2>3 DEF ThreadType, Ats
    <3>2. ShardType' BY <2>1, <2>3 DEF ShardType
    <3>3. CpuidType' BY <1>6, <2>3 DEF TryShard, Repick, Choosing, CpuidType
    <3> QED BY <2>2, <3>1, <3>2, <3>3
  <2>4. ASSUME NEW core \in Shards,
               tls_cpuid' = [tls_cpuid EXCEPT ![t] = core + NumShards],
               thread' = [thread EXCEPT ![t].at = "lockShard", ![t].s = core],
               UNCHANGED shards_
        PROVE  Shape'
    <3>1. ThreadType' BY <2>4 DEF ThreadType, Ats
    <3>2. ShardType' BY <2>4 DEF ShardType
    <3>3. core + NumShards \in Nat BY ConcurrentAssumption DEF Shards
    <3>4. CpuidType' BY <1>6, <2>4, <3>3 DEF TryShard, Repick, Choosing, CpuidType
    <3> QED BY <2>2, <3>1, <3>2, <3>4
  <2> QED BY <1>6, <2>3, <2>4 DEF TryShard, Repick
<1>7. ASSUME NEW t \in Threads, LockShard(t) PROVE Shape'
  BY <1>7 DEF LockShard, GoTo, Choosing, ThreadType, ShardType, ArenaType, CpuidType, Ats
<1>8. ASSUME NEW t \in Threads, InShard(t) PROVE Shape'
  BY <1>8 DEF InShard, Choosing, ThreadType, ShardType, ArenaType, CpuidType, Ats
<1>9. ASSUME NEW t \in Threads, InArena(t) PROVE Shape'
  <2>1. ArenaAfter(thread[t].bytes, FALSE) \in [next : Int, unused : Int, isInInlineBlock : BOOLEAN]
    BY ArenaResults DEF ThreadType
  <2>2. ArenaType'
    BY <1>9, <2>1 DEF InArena, Fixup, ArenaType
  <2>3. 0 \in Shards
    BY ConcurrentAssumption DEF Shards
  <2>4. ThreadType' /\ ShardType' /\ CpuidType'
    BY <1>9, <2>3 DEF InArena, Returns, ThreadType, ShardType, CpuidType, Idle, Ats
  <2> QED BY <2>2, <2>4
<1>10. ASSUME NEW t \in Threads, ReloadInline(t) PROVE Shape'
  <2>1. ArenaAfter(thread[t].bytes, FALSE) \in [next : Int, unused : Int, isInInlineBlock : BOOLEAN]
    BY ArenaResults DEF ThreadType
  <2>2. ArenaType'
    BY <1>10, <2>1 DEF ReloadInline, Fixup, ArenaType
  <2>3. 0 \in Shards
    BY ConcurrentAssumption DEF Shards
  <2>4. ThreadType' /\ ShardType' /\ CpuidType'
    BY <1>10, <2>3 DEF ReloadInline, Returns, ThreadType, ShardType, CpuidType, Idle, Ats
  <2> QED BY <2>2, <2>4
<1>11. ASSUME NEW t \in Threads, Reload(t) PROVE Shape'
  <2> DEFINE avail == IF exact >= shard_block_size_ \div 2 /\ exact < shard_block_size_ * 2
                      THEN exact ELSE shard_block_size_
  <2>1. avail \in Int
    BY ConcurrentAssumption DEF exact, ArenaType
  <2> HIDE DEF avail
  <2>2. /\ Start(avail, TRUE) \in Int
        /\ ArenaAfter(avail, TRUE) \in [next : Int, unused : Int, isInInlineBlock : BOOLEAN]
    BY <2>1, ArenaResults
  <2>3. /\ shards_' = [shards_ EXCEPT ![thread[t].s].free_begin_ = Start(avail, TRUE)]
        /\ arena' = ArenaAfter(avail, TRUE)
        /\ thread' = [thread EXCEPT ![t].avail = avail, ![t].at = "carve"]
        /\ Fixup /\ UNCHANGED <<tls_cpuid, calls>>
    BY <1>11 DEF Reload, avail
  <2>4. ArenaType' BY <2>2, <2>3 DEF Fixup, ArenaType
  <2>5. ThreadType' BY <2>1, <2>3 DEF ThreadType, Ats
  <2>6. ShardType' /\ CpuidType' BY <2>2, <2>3 DEF ShardType, CpuidType
  <2> QED BY <2>4, <2>5, <2>6
<1>12. ASSUME NEW t \in Threads, Carve(t) PROVE Shape'
  <2>1. 0 \in Shards
    BY ConcurrentAssumption DEF Shards
  <2>2. ThreadType' /\ ArenaType' /\ CpuidType'
    BY <1>12, <2>1 DEF Carve, CarveFrame, Returns, ThreadType, ArenaType, CpuidType, Idle, Ats
  <2>3. ShardType'
    BY <1>12, ConcurrentAssumption DEF Carve, ShardType, ThreadType
  <2> QED BY <2>2, <2>3
<1> QED
  BY <1>1, <1>2, <1>3, <1>4, <1>5, <1>6, <1>7, <1>8, <1>9, <1>10, <1>11, <1>12
  DEF Next, Step

(* A thread in a call has asked for something, step by step. *)
LEMMA PositiveNext ==
  ASSUME Shape, Positive, [Next]_vars
  PROVE  Positive'
<1> USE DEF Shape, ThreadType, Positive
<1>1. CASE UNCHANGED vars
  BY <1>1 DEF vars
<1>2. ASSUME NEW t \in Threads, NEW bytes \in Requests, NEW force_arena \in BOOLEAN,
             AllocateImpl(t, bytes, force_arena)
      PROVE  Positive'
  <2>1. bytes \in Int /\ bytes > 0
    BY ConcurrentAssumption
  <2> QED BY <1>2, <2>1 DEF AllocateImpl, Idle
<1>3. ASSUME NEW t \in Threads, Entry(t) \/ TryArena(t) \/ LockArena(t) \/ LockShard(t)
      PROVE  Positive'
  <2>1. PICK a \in Ats : thread' = [thread EXCEPT ![t].at = a] /\ thread[t].at # "idle"
    BY <1>3 DEF Entry, TryArena, LockArena, LockShard, GoTo, Ats
  <2> QED BY <2>1
<1>4. ASSUME NEW t \in Threads, TryShard(t) PROVE Positive'
  BY <1>4 DEF TryShard, Repick
<1>5. ASSUME NEW t \in Threads, InShard(t) PROVE Positive'
  BY <1>5 DEF InShard
<1>6. ASSUME NEW t \in Threads, InArena(t) \/ ReloadInline(t) \/ Carve(t) PROVE Positive'
  <2>1. thread' = [thread EXCEPT ![t] = Idle]
    BY <1>6 DEF InArena, ReloadInline, Carve, Returns
  <2> QED BY <2>1 DEF Idle
<1>7. ASSUME NEW t \in Threads, Reload(t) PROVE Positive'
  BY <1>7 DEF Reload
<1> QED
  BY <1>1, <1>2, <1>3, <1>4, <1>5, <1>6, <1>7 DEF Next, Step

(* The heart of the argument, one step for each kind of action. *)
LEMMA BeforeFixupNext ==
  ASSUME Shape, Positive, BeforeFixup, [Next]_vars
  PROVE  BeforeFixup'
<1> USE DEF Shape, ThreadType, BeforeFixup, Stale
<1>1. CASE UNCHANGED vars
  BY <1>1 DEF vars
<1>2. ASSUME NEW t \in Threads, NEW bytes \in Requests, NEW force_arena \in BOOLEAN,
             AllocateImpl(t, bytes, force_arena)
      PROVE  BeforeFixup'
  BY <1>2 DEF AllocateImpl, Idle, OnShardPath
(* A thread that turns to a shard finds it empty, so it has repicked. *)
<1>3. ASSUME NEW t \in Threads, Entry(t) PROVE BeforeFixup'
  <2>1. 0 \in Shards
    BY ConcurrentAssumption DEF Shards
  <2>2. PICK a \in {"tryArena", "tryShard"} : thread' = [thread EXCEPT ![t].at = a]
    BY <1>3 DEF Entry, GoTo
  <2>3. ASSUME fresh, Stale, arena_mutex_ = Free PROVE thread' = [thread EXCEPT ![t].at = "tryArena"]
    BY <1>3, <2>1, <2>3 DEF Entry, GoTo
  <2>4. UNCHANGED <<arena_mutex_, shards_, tls_cpuid, arena, arena_allocated_and_unused_, fresh>>
    BY <1>3 DEF Entry, Choosing
  <2> QED BY <2>2, <2>3, <2>4 DEF OnShardPath
<1>4. ASSUME NEW t \in Threads, TryArena(t) PROVE BeforeFixup'
  BY <1>4, ConcurrentAssumption DEF TryArena, GoTo, Choosing, OnShardPath
(* Nobody waits to reload while the mutex is free. *)
<1>5. ASSUME NEW t \in Threads, LockArena(t) PROVE BeforeFixup'
  BY <1>5, ConcurrentAssumption DEF LockArena, GoTo, Choosing, OnShardPath
<1>6. ASSUME NEW t \in Threads, TryShard(t) PROVE BeforeFixup'
  <2>1. tls_cpuid[t] % NumShards \in Shards
    BY ShardOf DEF CpuidType
  <2>2. UNCHANGED <<arena_mutex_, arena, arena_allocated_and_unused_, fresh>> /\ thread[t].at = "tryShard"
    BY <1>6 DEF TryShard, Repick, Choosing
  <2>3. ASSUME fresh', Stale' PROVE arena_mutex_' # Free
    BY <2>2, <2>3 DEF OnShardPath
  <2>4. \A s \in Shards : shards_'[s].allocated_and_unused_ = shards_[s].allocated_and_unused_
    BY <1>6, <2>1 DEF TryShard, Repick, ShardType
  <2>5. PICK a \in {"inShard", "lockShard"}, s \in Shards :
          thread' = [thread EXCEPT ![t].at = a, ![t].s = s]
    BY <1>6, <2>1 DEF TryShard, Repick
  <2>6. \A u \in Threads : thread'[u].at \in {thread[u].at, "inShard", "lockShard"}
    BY <2>5
  <2> QED BY <2>2, <2>3, <2>4, <2>6
<1>7. ASSUME NEW t \in Threads, LockShard(t) PROVE BeforeFixup'
  BY <1>7 DEF LockShard, GoTo, Choosing, OnShardPath, ShardType
(* An empty shard has to be reloaded. *)
<1>8. ASSUME NEW t \in Threads, InShard(t) PROVE BeforeFixup'
  BY <1>8 DEF InShard, Choosing, OnShardPath, ShardType, Positive
(* Whoever changes the arena calls Fixup. *)
<1>9. ASSUME NEW t \in Threads, InArena(t) \/ ReloadInline(t) \/ Reload(t) PROVE BeforeFixup'
  BY <1>9 DEF InArena, ReloadInline, Reload, Fixup
(* A shard has something to carve only after Fixup. *)
<1>10. ASSUME NEW t \in Threads, Carve(t) PROVE BeforeFixup'
  BY <1>10 DEF Carve, CarveFrame
<1> QED
  BY <1>1, <1>2, <1>3, <1>4, <1>5, <1>6, <1>7, <1>8, <1>9, <1>10 DEF Next, Step

(* The assertion in AllocateImpl never fails, for any number of threads,   *)
(* shards and requests and whatever arena_allocated_and_unused_ held at    *)
(* first, if tls_cpuid was 0 in every thread when the arena was made.      *)
THEOREM AssertionNeverFails == Spec => []FreshReloads
<1>1. Init => IInv
  BY InitIInv
<1>2. IInv /\ [Next]_vars => IInv'
  BY ShapeNext, PositiveNext, BeforeFixupNext DEF IInv
<1>3. IInv => FreshReloads
  BY DEF IInv, BeforeFixup, Stale, FreshReloads, ReloadAssertion, exact, AllocatedAndUnused
<1> QED BY <1>1, <1>2, <1>3, PTL DEF Spec

-----------------------------------------------------------------------------
(* The memory that calls and shards are given.                             *)
(*                                                                         *)
(* What the arena has handed out lies below its next address.  A shard     *)
(* owns a stretch of that, which only the holder of its mutex changes: the *)
(* holder's avail is its length from the reload on until the rest is       *)
(* stored.  Stretches and results are pairwise apart.                      *)

Holding == {"inShard", "reload", "reloading", "carve"}
Sharded == Holding \cup {"entry", "tryArena", "tryShard", "lockShard"}

(* A thread holds the mutex of its shard exactly while it is in it. *)
Holders ==
  \A t \in Threads, s \in Shards :
    (shards_[s].mutex = t) <=> (thread[t].at \in Holding /\ thread[t].s = s)

(* Only small requests go to a shard, and they are cut from enough. *)
Small == \A t \in Threads : thread[t].at \in Sharded => thread[t].bytes <= shard_block_size_ \div 4
Enough == \A t \in Threads : thread[t].at = "carve" => thread[t].bytes <= thread[t].avail

(* The stretch of a shard. *)
Begin(s) == shards_[s].free_begin_
Left(s) ==
  LET t == shards_[s].mutex
  IN  IF t # Free /\ thread[t].at = "carve" THEN thread[t].avail
      ELSE shards_[s].allocated_and_unused_

Apart(a, n, b, m) == a + n <= b \/ b + m <= a

Below ==
  /\ \A r \in regions : r.lo + r.bytes <= arena.next
  /\ \A s \in Shards : Begin(s) + Left(s) <= arena.next
CallsApart == \A r, q \in regions : r # q => Apart(r.lo, r.bytes, q.lo, q.bytes)
ShardsClear ==
  \A r \in regions, s \in Shards : Left(s) > 0 => Apart(r.lo, r.bytes, Begin(s), Left(s))
ShardsApart ==
  \A s, q \in Shards : (s # q /\ Left(s) > 0 /\ Left(q) > 0)
                         => Apart(Begin(s), Left(s), Begin(q), Left(q))
BeginsAligned == \A s \in Shards : Begin(s) % PtrSize = 0

Memory == Below /\ CallsApart /\ ShardsClear /\ ShardsApart /\ BeginsAligned /\ AlignedFromShard

MInv == TypeOK /\ Holders /\ Small /\ Enough /\ Memory

-----------------------------------------------------------------------------

LEMMA MultipleAligned ==
  ASSUME NEW q \in Nat
  PROVE  (PtrSize * q) % PtrSize = 0
<1> DEFINE d == PtrSize
           x == d * q
           e == x \div d
           m == x % d
<1>1. d \in Nat \ {0} /\ x \in Nat
  BY ConcurrentAssumption
<1> HIDE DEF d
<1>2. e \in Int /\ m \in 0..(d - 1) /\ x = d * e + m
  BY <1>1
<1>3. d * (q - e) = m
  BY <1>1, <1>2
<1>4. m = 0
  <2> HIDE DEF x, e, m
  <2>1. CASE q - e >= 1
    <3>1. d * (q - e) >= d
      BY <1>1, <1>2, <2>1
    <3> QED BY <1>1, <1>2, <1>3, <3>1
  <2>2. CASE q - e <= -1
    <3>1. d * (q - e) <= -d
      BY <1>1, <1>2, <2>2
    <3> QED BY <1>1, <1>2, <1>3, <3>1
  <2>3. CASE q - e = 0
    <3>1. d * (q - e) = 0
      BY <1>1, <2>3
    <3> QED BY <1>3, <3>1
  <2> QED BY <1>2, <2>1, <2>2, <2>3
<1> QED BY <1>4 DEF d

LEMMA SumAligned ==
  ASSUME NEW a \in Nat, NEW b \in Nat, a % PtrSize = 0, b % PtrSize = 0
  PROVE  (a + b) % PtrSize = 0
<1> DEFINE d == PtrSize
           e == a \div d
           f == b \div d
<1>1. d \in Nat \ {0}
  BY ConcurrentAssumption
<1>2. e \in Nat /\ a = d * e
  BY <1>1
<1>3. f \in Nat /\ b = d * f
  BY <1>1
<1> HIDE DEF d, e, f
<1>4. a + b = d * (e + f)
  BY <1>1, <1>2, <1>3
<1>5. e + f \in Nat
  BY <1>2, <1>3
<1> QED BY <1>4, <1>5, MultipleAligned DEF d

LEMMA RoundUpFacts ==
  ASSUME NEW a \in Nat
  PROVE  RoundUp(a) \in Nat /\ a <= RoundUp(a) /\ RoundUp(a) % PtrSize = 0
<1> DEFINE d == PtrSize
           x == a + d - 1
           q == x \div d
           m == x % d
<1>1. d \in Nat \ {0} /\ x \in Nat
  BY ConcurrentAssumption
<1> HIDE DEF d
<1>2. q \in Nat /\ m \in 0..(d - 1) /\ x = d * q + m
  BY <1>1
<1>3. RoundUp(a) = q * d
  BY DEF RoundUp, d
<1>4. q * d = d * q /\ d * q \in Nat
  <2> HIDE DEF q
  <2> QED BY <1>1, <1>2
<1>5. a <= d * q
  <2> DEFINE y == d * q
  <2>1. y \in Nat /\ x = y + m
    BY <1>2, <1>4
  <2> HIDE DEF y, q, m
  <2> QED BY <1>1, <1>2, <2>1 DEF x
<1>6. (d * q) % d = 0
  BY <1>2, MultipleAligned DEF d
<1> QED BY <1>3, <1>4, <1>5, <1>6 DEF d

(* What the arena hands out is fresh: it begins at or after the next       *)
(* address, and the next address moves to its end.                         *)
LEMMA ArenaGives ==
  ASSUME TypeOK, NEW n \in Nat, NEW aligned \in BOOLEAN
  PROVE  /\ Start(n, aligned) \in Nat /\ arena.next <= Start(n, aligned)
         /\ ArenaAfter(n, aligned) \in [next : Nat, unused : Nat, isInInlineBlock : BOOLEAN]
         /\ ArenaAfter(n, aligned).next = Start(n, aligned) + n
         /\ aligned = TRUE => Start(n, aligned) % PtrSize = 0
<1> DEFINE addr == IF aligned THEN RoundUp(arena.next) ELSE arena.next
           end == arena.next + arena.unused
           block == IF n <= kBlockSize THEN kBlockSize ELSE n
           fits == addr + n <= end
<1>1. /\ arena \in [next : Nat, unused : Nat, isInInlineBlock : BOOLEAN]
      /\ arena.next \in Nat /\ arena.unused \in Nat /\ arena.isInInlineBlock \in BOOLEAN
  BY DEF TypeOK
<1>2. end \in Nat /\ arena.next <= end /\ block \in Nat /\ n <= block
  BY <1>1, ConcurrentAssumption
<1>3. /\ addr \in Nat /\ arena.next <= addr /\ (aligned = TRUE => addr % PtrSize = 0)
  BY <1>1, RoundUpFacts
<1>4. /\ RoundUp(end) \in Nat /\ end <= RoundUp(end) /\ RoundUp(end) % PtrSize = 0
  BY <1>2, RoundUpFacts
<1>5. Start(n, aligned) = IF fits THEN addr ELSE RoundUp(end)
  BY DEF Start
<1> HIDE DEF addr, block
<1>6. CASE fits
  <2>1. Start(n, aligned) = addr
    BY <1>5, <1>6
  <2> DEFINE rest == end - (addr + n)
  <2>2. ArenaAfter(n, aligned) = [arena EXCEPT !.next = addr + n, !.unused = rest]
    BY <1>6, <2>1 DEF ArenaAfter
  <2>3. rest \in Nat /\ addr + n \in Nat
    BY <1>1, <1>2, <1>3, <1>6
  <2> HIDE DEF rest, end
  <2>4. /\ [arena EXCEPT !.next = addr + n, !.unused = rest]
             \in [next : Nat, unused : Nat, isInInlineBlock : BOOLEAN]
    BY <1>1, <2>3, Zenon
  <2>5. [arena EXCEPT !.next = addr + n, !.unused = rest].next = addr + n
    BY <1>1, <2>3
  <2> QED BY <1>3, <2>1, <2>2, <2>4, <2>5
<1>7. CASE ~fits
  <2> DEFINE e == RoundUp(end)
  <2>1. Start(n, aligned) = e
    BY <1>5, <1>7
  <2>2. ~(e + n <= end) => ArenaAfter(n, aligned) =
          [next |-> e + n, unused |-> block - n, isInInlineBlock |-> FALSE]
    BY <2>1 DEF ArenaAfter, block
  <2>3. block - n \in Nat /\ e + n \in Nat /\ arena.next <= e
    BY <1>1, <1>2, <1>4
  <2>4. e % PtrSize = 0
    BY <1>4
  <2>5. CASE ~(e + n <= end)
    <3> DEFINE rest == block - n
    <3>1. ArenaAfter(n, aligned) = [next |-> e + n, unused |-> rest, isInInlineBlock |-> FALSE]
      BY <2>2, <2>5
    <3>2. e + n \in Nat /\ rest \in Nat /\ e \in Nat
      BY <1>4, <2>3
    <3> HIDE DEF rest, e
    <3>3. [next |-> e + n, unused |-> rest, isInInlineBlock |-> FALSE]
             \in [next : Nat, unused : Nat, isInInlineBlock : BOOLEAN]
      BY <3>2
    <3> QED BY <2>1, <2>3, <2>4, <3>1, <3>2, <3>3
  <2>6. CASE e + n <= end
    (* Then n = 0 and the end is aligned: the arena is left with nothing. *)
    <3> DEFINE rest == end - (e + n)
    <3>1. ArenaAfter(n, aligned) = [arena EXCEPT !.next = e + n, !.unused = rest]
      BY <2>1, <2>6 DEF ArenaAfter
    <3>2. rest \in Nat
      BY <1>2, <1>4, <2>3, <2>6
    <3> HIDE DEF rest, e
    <3>3. [arena EXCEPT !.next = e + n, !.unused = rest]
             \in [next : Nat, unused : Nat, isInInlineBlock : BOOLEAN]
      BY <1>1, <2>3, <3>2, Zenon
    <3>4. [arena EXCEPT !.next = e + n, !.unused = rest].next = e + n
      BY <1>1, <2>3
    <3> QED BY <1>4, <2>1, <2>3, <2>4, <3>1, <3>3, <3>4 DEF e
  <2> QED BY <2>5, <2>6
<1> QED BY <1>6, <1>7

ThreadRecs == [at : Ats, call : Nat, bytes : Nat, s : Shards, avail : Nat]
ShardRecs == [mutex : Threads \cup {Free}, free_begin_ : Nat, allocated_and_unused_ : Nat]
Regions == [call : Nat, lo : Nat, bytes : Nat, shard : BOOLEAN]

(* The part of the types that is not about memory. *)
OtherTypes ==
  /\ arena_mutex_ \in Threads \cup {Free} /\ arena_allocated_and_unused_ \in Nat
  /\ tls_cpuid \in [Threads -> Nat] /\ calls \in 0..MaxAllocs /\ fresh \in BOOLEAN

LEMMA Types ==
  TypeOK <=> /\ OtherTypes /\ arena \in [next : Nat, unused : Nat, isInInlineBlock : BOOLEAN]
             /\ shards_ \in [Shards -> ShardRecs] /\ thread \in [Threads -> ThreadRecs]
             /\ regions \subseteq Regions
BY DEF TypeOK, OtherTypes, ShardRecs, ThreadRecs, Regions, Ats

LEMMA NewTypes ==
  ASSUME OtherTypes', arena' \in [next : Nat, unused : Nat, isInInlineBlock : BOOLEAN],
         shards_' \in [Shards -> ShardRecs], thread' \in [Threads -> ThreadRecs],
         regions' \subseteq Regions
  PROVE  TypeOK'
BY DEF TypeOK, OtherTypes, ShardRecs, ThreadRecs, Regions, Ats

LEMMA Parts ==
  ASSUME TypeOK
  PROVE  /\ \A s \in Shards : /\ shards_[s] \in ShardRecs
                              /\ shards_[s].mutex \in Threads \cup {Free}
                              /\ shards_[s].free_begin_ \in Nat
                              /\ shards_[s].allocated_and_unused_ \in Nat
         /\ \A t \in Threads : /\ thread[t] \in ThreadRecs /\ thread[t].at \in Ats
                               /\ thread[t].call \in Nat /\ thread[t].bytes \in Nat
                               /\ thread[t].s \in Shards /\ thread[t].avail \in Nat
         /\ \A r \in regions : /\ r \in Regions /\ r.lo \in Nat /\ r.bytes \in Nat
                               /\ r.shard \in BOOLEAN
         /\ arena.next \in Nat /\ Free \notin Threads
<1>1. \A s \in Shards : shards_[s] \in ShardRecs
  BY Types
<1>2. \A s \in Shards : /\ shards_[s].mutex \in Threads \cup {Free}
                        /\ shards_[s].free_begin_ \in Nat
                        /\ shards_[s].allocated_and_unused_ \in Nat
  BY <1>1 DEF ShardRecs
<1>3. \A t \in Threads : thread[t] \in ThreadRecs
  BY Types
<1>4. \A t \in Threads : /\ thread[t].at \in Ats
                         /\ thread[t].call \in Nat /\ thread[t].bytes \in Nat
                         /\ thread[t].s \in Shards /\ thread[t].avail \in Nat
  BY <1>3 DEF ThreadRecs
<1>5. \A r \in regions : r \in Regions
  BY Types
<1>6. \A r \in regions : r.lo \in Nat /\ r.bytes \in Nat /\ r.shard \in BOOLEAN
  BY <1>5 DEF Regions
<1> QED BY <1>1, <1>2, <1>3, <1>4, <1>5, <1>6, ConcurrentAssumption, Types

LEMMA LeftType ==
  ASSUME TypeOK, NEW s \in Shards
  PROVE  Left(s) \in Nat /\ Begin(s) \in Nat
BY Parts DEF Left, Begin

(* A shard that neither changes nor is the thread's keeps its stretch. *)
LEMMA LeftKept ==
  ASSUME TypeOK, NEW t \in Threads, NEW s \in Shards,
         \A u \in Threads : u # t => thread'[u] = thread[u],
         shards_'[s] = shards_[s], shards_[s].mutex # t
  PROVE  Left(s)' = Left(s) /\ Begin(s)' = Begin(s)
<1>1. shards_[s].mutex = Free \/ (shards_[s].mutex \in Threads /\ shards_[s].mutex # Free)
  BY Parts
<1>2. CASE shards_[s].mutex = Free
  BY <1>2 DEF Left, Begin
<1>3. CASE shards_[s].mutex \in Threads /\ shards_[s].mutex # Free
  <2> DEFINE u == shards_[s].mutex
  <2>1. thread'[u] = thread[u] /\ u # Free /\ shards_'[s].mutex = u
    BY <1>3
  <2> HIDE DEF u
  <2>2. Left(s)' = IF thread'[u].at = "carve" THEN thread'[u].avail
                   ELSE shards_'[s].allocated_and_unused_
    BY <2>1 DEF Left
  <2>3. Left(s) = IF thread[u].at = "carve" THEN thread[u].avail
                  ELSE shards_[s].allocated_and_unused_
    BY <2>1 DEF Left, u
  <2> QED BY <2>1, <2>2, <2>3 DEF Begin
<1> QED BY <1>1, <1>2, <1>3

-----------------------------------------------------------------------------
(* The four things that happen to memory: nothing, ...                     *)

LEMMA MemorySame ==
  ASSUME Memory, regions' = regions, arena' = arena,
         \A s \in Shards : Left(s)' = Left(s) /\ Begin(s)' = Begin(s)
  PROVE  Memory'
<1>1. Below' /\ BeginsAligned' /\ AlignedFromShard' /\ CallsApart'
  BY DEF Memory, Below, BeginsAligned, AlignedFromShard, CallsApart, Apart
<1>2. ShardsClear' /\ ShardsApart'
  BY DEF Memory, ShardsClear, ShardsApart, Apart
<1> QED BY <1>1, <1>2 DEF Memory

(* ... the arena serves a call, ...                                        *)
LEMMA MemoryCall ==
  ASSUME TypeOK, Memory, NEW x \in Regions, regions' = regions \cup {x}, x.shard = FALSE,
         arena.next <= x.lo, arena'.next = x.lo + x.bytes,
         \A s \in Shards : Left(s)' = Left(s) /\ Begin(s)' = Begin(s)
  PROVE  Memory'
<1>1. x.lo \in Nat /\ x.bytes \in Nat /\ arena.next \in Nat
  BY Parts DEF Regions
<1>2. /\ \A r \in regions : r.lo \in Nat /\ r.bytes \in Nat /\ r.lo + r.bytes <= arena.next
      /\ \A s \in Shards : Left(s) \in Nat /\ Begin(s) \in Nat /\ Begin(s) + Left(s) <= arena.next
  BY Parts, LeftType DEF Memory, Below
<1>3. Below'
  BY <1>1, <1>2 DEF Below
<1>4. CallsApart'
  <2>1. \A r \in regions : Apart(r.lo, r.bytes, x.lo, x.bytes) /\ Apart(x.lo, x.bytes, r.lo, r.bytes)
    BY <1>1, <1>2 DEF Apart
  <2> QED BY <2>1 DEF Memory, CallsApart
<1>5. ShardsClear'
  <2>1. \A s \in Shards : Apart(x.lo, x.bytes, Begin(s), Left(s))
    BY <1>1, <1>2 DEF Apart
  <2> QED BY <2>1 DEF Memory, ShardsClear
<1>6. ShardsApart' /\ BeginsAligned'
  BY DEF Memory, ShardsApart, BeginsAligned
<1>7. AlignedFromShard'
  BY DEF Memory, AlignedFromShard
<1> QED BY <1>3, <1>4, <1>5, <1>6, <1>7 DEF Memory

(* ... the arena gives a shard a new stretch, ...                          *)
LEMMA MemoryReload ==
  ASSUME TypeOK, Memory, NEW s \in Shards, NEW b \in Nat, NEW n \in Nat,
         regions' = regions, arena.next <= b, arena'.next = b + n, b % PtrSize = 0,
         Begin(s)' = b, Left(s)' = n,
         \A q \in Shards : q # s => (Left(q)' = Left(q) /\ Begin(q)' = Begin(q))
  PROVE  Memory'
<1>1. arena.next \in Nat
  BY Parts
<1>2. /\ \A r \in regions : r.lo \in Nat /\ r.bytes \in Nat /\ r.lo + r.bytes <= arena.next
      /\ \A q \in Shards : Left(q) \in Nat /\ Begin(q) \in Nat /\ Begin(q) + Left(q) <= arena.next
  BY Parts, LeftType DEF Memory, Below
<1>3. Below'
  BY <1>1, <1>2 DEF Below
<1>4. CallsApart' /\ AlignedFromShard'
  BY DEF Memory, CallsApart, AlignedFromShard
<1>5. ShardsClear'
  <2>1. \A r \in regions : Apart(r.lo, r.bytes, b, n)
    BY <1>1, <1>2 DEF Apart
  <2> QED BY <2>1 DEF Memory, ShardsClear
<1>6. ShardsApart'
  <2>1. \A q \in Shards : Apart(Begin(q), Left(q), b, n) /\ Apart(b, n, Begin(q), Left(q))
    BY <1>1, <1>2 DEF Apart
  <2> QED BY <2>1 DEF Memory, ShardsApart
<1>7. BeginsAligned'
  BY DEF Memory, BeginsAligned
<1> QED BY <1>3, <1>4, <1>5, <1>6, <1>7 DEF Memory

(* ... or a call is served from one end of a stretch.                      *)
LEMMA MemoryCarve ==
  ASSUME TypeOK, Memory, NEW s \in Shards, NEW x \in Regions, regions' = regions \cup {x},
         arena' = arena, x.bytes > 0, x.bytes <= Left(s), Left(s)' = Left(s) - x.bytes,
         NEW b \in Nat, Begin(s)' = b, b % PtrSize = 0,
         \/ x.lo = Begin(s) /\ b = Begin(s) + x.bytes
         \/ /\ x.lo = Begin(s) + Left(s) - x.bytes /\ b = Begin(s)
            /\ x.bytes % PtrSize # 0,
         \A q \in Shards : q # s => (Left(q)' = Left(q) /\ Begin(q)' = Begin(q))
  PROVE  Memory'
<1>1. arena.next \in Nat /\ x.lo \in Nat /\ x.bytes \in Nat
  BY Parts DEF Regions
<1>2. /\ \A r \in regions : r.lo \in Nat /\ r.bytes \in Nat /\ r.lo + r.bytes <= arena.next
      /\ \A q \in Shards : Left(q) \in Nat /\ Begin(q) \in Nat /\ Begin(q) + Left(q) <= arena.next
  BY Parts, LeftType DEF Memory, Below
<1>3. Left(s) \in Nat /\ Begin(s) \in Nat /\ Left(s) > 0 /\ Begin(s) + Left(s) <= arena.next
  BY <1>1, <1>2
<1>4. /\ Begin(s) <= x.lo /\ x.lo + x.bytes <= Begin(s) + Left(s)
      /\ Begin(s) <= b /\ b + (Left(s) - x.bytes) <= Begin(s) + Left(s)
      /\ Apart(x.lo, x.bytes, b, Left(s) - x.bytes)
  BY <1>1, <1>3 DEF Apart
<1>5. Below'
  <2>1. b + (Left(s) - x.bytes) <= arena.next /\ x.lo + x.bytes <= arena.next
    BY <1>1, <1>3, <1>4
  <2> QED BY <1>2, <2>1 DEF Below
<1>6. CallsApart'
  <2>1. ASSUME NEW r \in regions
        PROVE  Apart(r.lo, r.bytes, x.lo, x.bytes) /\ Apart(x.lo, x.bytes, r.lo, r.bytes)
    <3>1. Apart(r.lo, r.bytes, Begin(s), Left(s))
      BY <1>3 DEF Memory, ShardsClear
    <3> QED BY <1>1, <1>2, <1>3, <1>4, <3>1 DEF Apart
  <2> QED BY <2>1 DEF Memory, CallsApart
<1>7. ShardsClear'
  <2>1. ASSUME NEW r \in regions PROVE Apart(r.lo, r.bytes, b, Left(s) - x.bytes)
    <3>1. Apart(r.lo, r.bytes, Begin(s), Left(s))
      BY <1>3 DEF Memory, ShardsClear
    <3> QED BY <1>1, <1>2, <1>3, <1>4, <3>1 DEF Apart
  <2>2. ASSUME NEW q \in Shards, q # s, Left(q) > 0
        PROVE  Apart(x.lo, x.bytes, Begin(q), Left(q))
    <3>1. Apart(Begin(s), Left(s), Begin(q), Left(q))
      BY <1>3, <2>2 DEF Memory, ShardsApart
    <3> QED BY <1>1, <1>2, <1>3, <1>4, <3>1 DEF Apart
  <2> QED BY <1>4, <2>1, <2>2 DEF Memory, ShardsClear
<1>8. ShardsApart'
  <2>1. ASSUME NEW q \in Shards, q # s, Left(q) > 0
        PROVE  /\ Apart(b, Left(s) - x.bytes, Begin(q), Left(q))
               /\ Apart(Begin(q), Left(q), b, Left(s) - x.bytes)
    <3>1. Apart(Begin(s), Left(s), Begin(q), Left(q))
      BY <1>3, <2>1 DEF Memory, ShardsApart
    <3> QED BY <1>1, <1>2, <1>3, <1>4, <3>1 DEF Apart
  <2> QED BY <2>1 DEF Memory, ShardsApart
<1>9. BeginsAligned'
  BY DEF Memory, BeginsAligned
<1>10. AlignedFromShard'
  <2>1. x.bytes % PtrSize = 0 => x.lo % PtrSize = 0
    BY DEF Memory, BeginsAligned
  <2> QED BY <2>1 DEF Memory, AlignedFromShard
<1> QED BY <1>5, <1>6, <1>7, <1>8, <1>9, <1>10 DEF Memory

-----------------------------------------------------------------------------
(* The mutexes of the shards: a thread takes none, takes one, or lets go.  *)

Moves(t, x) == thread' = [thread EXCEPT ![t] = x]

LEMMA MovesFacts ==
  ASSUME TypeOK, NEW t \in Threads, NEW x \in ThreadRecs, Moves(t, x)
  PROVE  /\ thread' \in [Threads -> ThreadRecs] /\ thread'[t] = x
         /\ \A u \in Threads : u # t => thread'[u] = thread[u]
BY Types DEF Moves

LEMMA HoldersKept ==
  ASSUME Holders, NEW t \in Threads, \A u \in Threads : u # t => thread'[u] = thread[u],
         \A s \in Shards : shards_'[s].mutex = shards_[s].mutex,
         (thread'[t].at \in Holding) <=> (thread[t].at \in Holding),
         thread[t].at \in Holding => thread'[t].s = thread[t].s
  PROVE  Holders'
<1>1. ASSUME NEW u \in Threads, NEW s \in Shards
      PROVE  (shards_'[s].mutex = u) <=> (thread'[u].at \in Holding /\ thread'[u].s = s)
  <2>1. (shards_[s].mutex = u) <=> (thread[u].at \in Holding /\ thread[u].s = s)
    BY DEF Holders
  <2>2. CASE u = t
    BY <2>1, <2>2
  <2>3. CASE u # t
    BY <2>1, <2>3
  <2> QED BY <2>2, <2>3
<1> QED BY <1>1 DEF Holders

LEMMA HoldersTaken ==
  ASSUME Holders, Free \notin Threads, NEW t \in Threads, NEW s \in Shards,
         \A u \in Threads : u # t => thread'[u] = thread[u],
         shards_[s].mutex = Free, shards_'[s].mutex = t,
         \A q \in Shards : q # s => shards_'[q].mutex = shards_[q].mutex,
         thread[t].at \notin Holding, thread'[t].at \in Holding, thread'[t].s = s
  PROVE  Holders'
<1>1. ASSUME NEW u \in Threads, NEW q \in Shards
      PROVE  (shards_'[q].mutex = u) <=> (thread'[u].at \in Holding /\ thread'[u].s = q)
  <2>1. (shards_[q].mutex = u) <=> (thread[u].at \in Holding /\ thread[u].s = q)
    BY DEF Holders
  <2>2. CASE u = t
    <3>1. CASE q = s
      BY <2>2, <3>1
    <3>2. CASE q # s
      BY <2>1, <2>2, <3>2
    <3> QED BY <3>1, <3>2
  <2>3. CASE u # t
    <3>1. CASE q = s
      BY <2>1, <2>3, <3>1
    <3>2. CASE q # s
      BY <2>1, <2>3, <3>2
    <3> QED BY <3>1, <3>2
  <2> QED BY <2>2, <2>3
<1> QED BY <1>1 DEF Holders

LEMMA HoldersLeft ==
  ASSUME Holders, Free \notin Threads, NEW t \in Threads, NEW s \in Shards,
         \A u \in Threads : u # t => thread'[u] = thread[u],
         thread[t].at \in Holding, thread[t].s = s, shards_'[s].mutex = Free,
         \A q \in Shards : q # s => shards_'[q].mutex = shards_[q].mutex,
         thread'[t].at \notin Holding
  PROVE  Holders'
<1>1. ASSUME NEW u \in Threads, NEW q \in Shards
      PROVE  (shards_'[q].mutex = u) <=> (thread'[u].at \in Holding /\ thread'[u].s = q)
  <2>1. (shards_[q].mutex = u) <=> (thread[u].at \in Holding /\ thread[u].s = q)
    BY DEF Holders
  <2>2. (shards_[s].mutex = t)
    BY DEF Holders
  <2>3. CASE u = t
    <3>1. CASE q = s
      BY <2>3, <3>1
    <3>2. CASE q # s
      BY <2>1, <2>3, <3>2
    <3> QED BY <3>1, <3>2
  <2>4. CASE u # t
    <3>1. CASE q = s
      BY <2>1, <2>2, <2>4, <3>1
    <3>2. CASE q # s
      BY <2>1, <2>4, <3>2
    <3> QED BY <3>1, <3>2
  <2> QED BY <2>3, <2>4
<1> QED BY <1>1 DEF Holders

(* The request of a thread, step by step. *)
LEMMA RequestKept ==
  ASSUME Small, Enough, NEW t \in Threads, \A u \in Threads : u # t => thread'[u] = thread[u],
         thread'[t].at \in Sharded => thread'[t].bytes <= shard_block_size_ \div 4,
         thread'[t].at = "carve" => thread'[t].bytes <= thread'[t].avail
  PROVE  Small' /\ Enough'
<1>1. ASSUME NEW u \in Threads
      PROVE  /\ thread'[u].at \in Sharded => thread'[u].bytes <= shard_block_size_ \div 4
             /\ thread'[u].at = "carve" => thread'[u].bytes <= thread'[u].avail
  <2>1. CASE u = t
    BY <2>1
  <2>2. CASE u # t
    BY <2>2 DEF Small, Enough
  <2> QED BY <2>1, <2>2
<1> QED BY <1>1 DEF Small, Enough

-----------------------------------------------------------------------------
(* The actions.                                                            *)

(* A thread moves on without touching a shard or the arena. *)
LEMMA MoveOn ==
  ASSUME MInv, NEW t \in Threads, NEW x \in ThreadRecs, Moves(t, x),
         UNCHANGED <<arena, shards_, regions>>, OtherTypes',
         x.at # "carve", thread[t].at # "carve",
         (x.at \in Holding) <=> (thread[t].at \in Holding),
         thread[t].at \in Holding => x.s = thread[t].s,
         x.at \in Sharded => x.bytes <= shard_block_size_ \div 4
  PROVE  MInv'
<1>1. TypeOK /\ Holders /\ Small /\ Enough /\ Memory
  BY DEF MInv
<1>2. /\ thread' \in [Threads -> ThreadRecs] /\ thread'[t] = x
      /\ \A u \in Threads : u # t => thread'[u] = thread[u]
  BY <1>1, MovesFacts
<1>3. TypeOK'
  BY <1>1, <1>2, Types, NewTypes
<1>4. Holders'
  BY <1>1, <1>2, HoldersKept
<1>5. Small' /\ Enough'
  BY <1>1, <1>2, RequestKept
<1>6. ASSUME NEW s \in Shards PROVE Left(s)' = Left(s) /\ Begin(s)' = Begin(s)
  <2>1. CASE shards_[s].mutex # t
    BY <1>1, <1>2, <2>1, LeftKept
  <2>2. CASE shards_[s].mutex = t
    BY <1>2, <2>2 DEF Left, Begin
  <2> QED BY <2>1, <2>2
<1>7. Memory'
  BY <1>1, <1>6, MemorySame
<1> QED BY <1>3, <1>4, <1>5, <1>7 DEF MInv

LEMMA AllocateImplM ==
  ASSUME MInv, NEW t \in Threads, NEW bytes \in Requests, NEW force_arena \in BOOLEAN,
         AllocateImpl(t, bytes, force_arena)
  PROVE  MInv'
<1> DEFINE a == IF bytes > shard_block_size_ \div 4 \/ force_arena THEN "lockArena" ELSE "entry"
           x == [Idle EXCEPT !.bytes = bytes, !.call = calls, !.at = a]
<1>1. /\ thread[t].at = "idle" /\ calls < MaxAllocs /\ calls' = calls + 1 /\ Moves(t, x)
      /\ UNCHANGED <<arena, arena_mutex_, arena_allocated_and_unused_, shards_, tls_cpuid,
                     regions, fresh>>
  BY DEF AllocateImpl, Moves
<1>2. bytes \in Nat /\ calls \in Nat /\ 0 \in Shards /\ shard_block_size_ \in Nat
  BY ConcurrentAssumption DEF MInv, TypeOK, Shards
<1>3. a \in {"lockArena", "entry"} /\ (a = "entry" => bytes <= shard_block_size_ \div 4)
  BY <1>2
<1> HIDE DEF a
<1>4. x \in ThreadRecs /\ x.at = a /\ x.bytes = bytes
  BY <1>2, <1>3 DEF ThreadRecs, Idle, Ats
<1> HIDE DEF x
<1>5. OtherTypes'
  BY <1>1, ConcurrentAssumption DEF MInv, TypeOK, OtherTypes
<1>6. /\ x.at # "carve" /\ thread[t].at # "carve" /\ x.at \notin Holding
      /\ thread[t].at \notin Holding
      /\ x.at \in Sharded => x.bytes <= shard_block_size_ \div 4
  BY <1>1, <1>3, <1>4 DEF Holding, Sharded
<1> QED BY <1>1, <1>4, <1>5, <1>6, MoveOn

(* Entry, TryArena and LockArena. *)
LEMMA GoOn ==
  ASSUME MInv, NEW t \in Threads, NEW from, NEW to, GoTo(t, from, to),
         UNCHANGED <<arena, shards_, regions>>, OtherTypes',
         \/ from = "entry" /\ to \in {"tryArena", "tryShard"}
         \/ from = "tryArena" /\ to \in {"inArena", "tryShard"}
         \/ from = "lockArena" /\ to = "inArena"
         \/ from = "reload" /\ to = "reloading"
  PROVE  MInv'
<1> DEFINE x == [thread[t] EXCEPT !.at = to]
<1>1. thread[t].at = from /\ Moves(t, x)
  BY DEF GoTo, Moves
<1>2. thread[t] \in ThreadRecs /\ to \in Ats
  BY Parts DEF MInv, Ats
<1>3. x \in ThreadRecs /\ x.at = to /\ x.bytes = thread[t].bytes /\ x.s = thread[t].s
  BY <1>2 DEF ThreadRecs
<1> HIDE DEF x
<1>4. /\ x.at # "carve" /\ thread[t].at # "carve"
      /\ (x.at \in Holding) <=> (thread[t].at \in Holding)
  BY <1>1, <1>3 DEF Holding
<1>5. x.at \in Sharded => thread[t].at \in Sharded
  BY <1>1, <1>3 DEF Holding, Sharded
<1>6. x.at \in Sharded => x.bytes <= shard_block_size_ \div 4
  BY <1>3, <1>5 DEF MInv, Small
<1> QED BY <1>1, <1>3, <1>4, <1>6, MoveOn

LEMMA ChooseM ==
  ASSUME MInv, NEW t \in Threads, Entry(t) \/ TryArena(t) \/ LockArena(t)
  PROVE  MInv'
<1>1. OtherTypes /\ UNCHANGED <<arena, shards_, regions, tls_cpuid, calls, fresh,
                                arena_allocated_and_unused_>>
  BY Types DEF Entry, TryArena, LockArena, Choosing, MInv
<1>2. arena_mutex_' = arena_mutex_ \/ arena_mutex_' = t
  BY DEF Entry, TryArena, LockArena
<1>3. OtherTypes'
  BY <1>1, <1>2 DEF OtherTypes
<1>4. \/ GoTo(t, "entry", "tryArena") \/ GoTo(t, "entry", "tryShard")
      \/ GoTo(t, "tryArena", "inArena") \/ GoTo(t, "tryArena", "tryShard")
      \/ GoTo(t, "lockArena", "inArena") \/ GoTo(t, "reload", "reloading")
  BY DEF Entry, TryArena, LockArena
<1> QED BY <1>1, <1>3, <1>4, GoOn

(* A mutex is taken: the stretch of the shard stays as it is. *)
LEMMA TakeShard ==
  ASSUME MInv, NEW t \in Threads, NEW s \in Shards, NEW x \in ThreadRecs, Moves(t, x),
         shards_[s].mutex = Free, shards_' = [shards_ EXCEPT ![s].mutex = t],
         UNCHANGED <<arena, regions>>, OtherTypes',
         thread[t].at \in Sharded, thread[t].at \notin Holding, x.at = "inShard", x.s = s,
         x.bytes = thread[t].bytes
  PROVE  MInv'
<1>1. TypeOK /\ Holders /\ Small /\ Enough /\ Memory
  BY DEF MInv
<1>2. /\ thread' \in [Threads -> ThreadRecs] /\ thread'[t] = x
      /\ \A u \in Threads : u # t => thread'[u] = thread[u]
  BY <1>1, MovesFacts
<1>3. shards_ \in [Shards -> ShardRecs]
  BY <1>1, Types
<1>4. /\ shards_' \in [Shards -> ShardRecs] /\ shards_'[s].mutex = t
      /\ shards_'[s].free_begin_ = shards_[s].free_begin_
      /\ shards_'[s].allocated_and_unused_ = shards_[s].allocated_and_unused_
      /\ \A q \in Shards : q # s => shards_'[q] = shards_[q]
  BY <1>3 DEF ShardRecs
<1>5. TypeOK'
  BY <1>1, <1>2, <1>4, Types, NewTypes
<1>6. Free \notin Threads
  BY ConcurrentAssumption
<1>7. Holders'
  <2>1. "inShard" \in Holding
    BY DEF Holding
  <2> QED BY <1>1, <1>2, <1>4, <1>6, <2>1, HoldersTaken
<1>8. Small' /\ Enough'
  BY <1>1, <1>2, RequestKept DEF Small
<1>9. ASSUME NEW q \in Shards PROVE Left(q)' = Left(q) /\ Begin(q)' = Begin(q)
  <2>1. CASE q = s
    BY <1>2, <1>4, <1>6, <2>1 DEF Left, Begin
  <2>2. CASE q # s
    <3>1. shards_[q].mutex # t
      BY <1>1 DEF Holders
    <3> QED BY <1>1, <1>2, <1>4, <2>2, <3>1, LeftKept
  <2> QED BY <2>1, <2>2
<1>10. Memory'
  BY <1>1, <1>9, MemorySame
<1> QED BY <1>5, <1>7, <1>8, <1>10 DEF MInv

LEMMA TryShardM ==
  ASSUME MInv, NEW t \in Threads, TryShard(t)
  PROVE  MInv'
<1> DEFINE s == tls_cpuid[t] % NumShards
<1>1. /\ thread[t].at = "tryShard"
      /\ UNCHANGED <<arena, arena_mutex_, arena_allocated_and_unused_, calls, regions, fresh>>
  BY DEF TryShard, Choosing
<1>2. thread[t] \in ThreadRecs /\ thread[t].bytes <= shard_block_size_ \div 4 /\ OtherTypes
      /\ thread[t].at \in Sharded /\ thread[t].at \notin Holding
  BY <1>1, Parts, Types DEF MInv, Small, Sharded, Holding
<1>3. s \in Shards
  BY <1>2, ShardOf DEF OtherTypes
<1> HIDE DEF s
<1>4. CASE /\ shards_[s].mutex = Free /\ shards_' = [shards_ EXCEPT ![s].mutex = t]
           /\ thread' = [thread EXCEPT ![t].at = "inShard", ![t].s = s]
           /\ UNCHANGED tls_cpuid
  <2> DEFINE x == [thread[t] EXCEPT !.at = "inShard", !.s = s]
  <2>1. x \in ThreadRecs /\ x.at = "inShard" /\ x.s = s /\ x.bytes = thread[t].bytes
    BY <1>2, <1>3 DEF ThreadRecs, Ats
  <2>2. Moves(t, x)
    BY <1>4 DEF Moves
  <2>3. OtherTypes'
    BY <1>1, <1>2, <1>4 DEF OtherTypes
  <2> HIDE DEF x
  <2> QED BY <1>1, <1>2, <1>3, <1>4, <2>1, <2>2, <2>3, TakeShard
<1>5. ASSUME NEW core \in Shards, Repick(t, core), UNCHANGED shards_,
             thread' = [thread EXCEPT ![t].at = "lockShard", ![t].s = core]
      PROVE  MInv'
  <2> DEFINE x == [thread[t] EXCEPT !.at = "lockShard", !.s = core]
  <2>1. x \in ThreadRecs /\ x.at = "lockShard" /\ x.s = core /\ x.bytes = thread[t].bytes
    BY <1>2 DEF ThreadRecs, Ats
  <2>2. Moves(t, x)
    BY <1>5 DEF Moves
  <2>3. OtherTypes'
    <3>1. core + NumShards \in Nat
      BY ConcurrentAssumption DEF Shards
    <3>2. tls_cpuid' \in [Threads -> Nat]
      BY <1>2, <1>5, <3>1 DEF OtherTypes, Repick
    <3> QED BY <1>1, <1>2, <3>2 DEF OtherTypes
  <2> HIDE DEF x
  <2>4. /\ x.at # "carve" /\ thread[t].at # "carve" /\ x.at \notin Holding
        /\ x.bytes <= shard_block_size_ \div 4
    BY <1>1, <1>2, <2>1 DEF Holding
  <2> QED BY <1>1, <1>2, <1>5, <2>1, <2>2, <2>3, <2>4, MoveOn
<1> QED BY <1>4, <1>5 DEF TryShard, s

LEMMA LockShardM ==
  ASSUME MInv, NEW t \in Threads, LockShard(t)
  PROVE  MInv'
<1> DEFINE x == [thread[t] EXCEPT !.at = "inShard"]
           s == thread[t].s
<1>1. /\ thread[t].at = "lockShard" /\ shards_[s].mutex = Free
      /\ shards_' = [shards_ EXCEPT ![s].mutex = t] /\ Moves(t, x)
      /\ UNCHANGED <<arena, arena_mutex_, arena_allocated_and_unused_, calls, regions, fresh,
                     tls_cpuid>>
  BY DEF LockShard, Choosing, GoTo, Moves
<1>2. thread[t] \in ThreadRecs /\ s \in Shards /\ OtherTypes
      /\ thread[t].at \in Sharded /\ thread[t].at \notin Holding
  BY <1>1, Parts, Types DEF MInv, Sharded, Holding
<1>3. x \in ThreadRecs /\ x.at = "inShard" /\ x.s = s /\ x.bytes = thread[t].bytes
  BY <1>2 DEF ThreadRecs, Ats
<1>4. OtherTypes'
  BY <1>1, <1>2 DEF OtherTypes
<1> HIDE DEF x, s
<1> QED BY <1>1, <1>2, <1>3, <1>4, TakeShard

LEMMA InShardM ==
  ASSUME MInv, NEW t \in Threads, InShard(t)
  PROVE  MInv'
<1> DEFINE s == thread[t].s
           avail == shards_[s].allocated_and_unused_
           a == IF avail < thread[t].bytes THEN "reload" ELSE "carve"
           x == [thread[t] EXCEPT !.avail = avail, !.at = a]
<1>1. /\ thread[t].at = "inShard" /\ Moves(t, x)
      /\ UNCHANGED <<arena, arena_mutex_, arena_allocated_and_unused_, calls, regions, fresh,
                     tls_cpuid, shards_>>
  BY DEF InShard, Choosing, Moves
<1>2. TypeOK /\ Holders /\ Small /\ Enough /\ Memory /\ OtherTypes
  BY Types DEF MInv
<1>3. /\ thread[t] \in ThreadRecs /\ s \in Shards /\ thread[t].bytes \in Nat /\ avail \in Nat
  BY <1>2, Parts
<1>4. a \in {"reload", "carve"} /\ (a = "carve" => thread[t].bytes <= avail)
  BY <1>3
<1> HIDE DEF a, avail
<1>5. /\ x \in ThreadRecs /\ x.at = a /\ x.s = s /\ x.bytes = thread[t].bytes /\ x.avail = avail
  BY <1>3, <1>4 DEF ThreadRecs, Ats
<1> HIDE DEF x, s
<1>6. /\ thread' \in [Threads -> ThreadRecs] /\ thread'[t] = x
      /\ \A u \in Threads : u # t => thread'[u] = thread[u]
  BY <1>1, <1>2, <1>5, MovesFacts
<1>7. OtherTypes'
  BY <1>1, <1>2 DEF OtherTypes
<1>8. TypeOK'
  BY <1>1, <1>2, <1>6, <1>7, Types, NewTypes
<1>9. thread[t].at \in Holding /\ x.at \in Holding /\ thread[t].at \in Sharded
  BY <1>1, <1>4, <1>5 DEF Holding, Sharded
<1>10. Holders'
  BY <1>1, <1>2, <1>5, <1>6, <1>9, HoldersKept DEF s
<1>11. Small' /\ Enough'
  <2>1. thread[t].bytes <= shard_block_size_ \div 4
    BY <1>2, <1>9 DEF Small
  <2> QED BY <1>2, <1>4, <1>5, <1>6, <2>1, RequestKept
<1>12. ASSUME NEW q \in Shards PROVE Left(q)' = Left(q) /\ Begin(q)' = Begin(q)
  <2>1. CASE q = s
    <3>1. shards_[q].mutex = t /\ t # Free
      BY <1>2, <1>3, <1>9, <2>1, ConcurrentAssumption DEF Holders, s
    <3>2. Left(q) = avail
      BY <1>1, <2>1, <3>1 DEF Left, avail, s
    <3>3. Left(q)' = avail
      BY <1>1, <1>4, <1>5, <1>6, <2>1, <3>1 DEF Left, avail, s
    <3> QED BY <1>1, <3>2, <3>3 DEF Begin
  <2>2. CASE q # s
    <3>1. shards_[q].mutex # t
      BY <1>2, <2>2 DEF Holders, s
    <3> QED BY <1>1, <1>2, <1>6, <3>1, LeftKept
  <2> QED BY <2>1, <2>2
<1>13. Memory'
  BY <1>1, <1>2, <1>12, MemorySame
<1> QED BY <1>8, <1>10, <1>11, <1>13 DEF MInv

(* What a call leaves behind. *)
LEMMA ReturnsFacts ==
  ASSUME TypeOK, NEW t \in Threads, NEW addr \in Nat, NEW fromShard \in BOOLEAN,
         Returns(t, addr, fromShard)
  PROVE  \E x \in Regions : /\ regions' = regions \cup {x} /\ x.lo = addr
                            /\ x.bytes = thread[t].bytes /\ x.shard = fromShard
<1> DEFINE x == [call |-> thread[t].call, lo |-> addr, bytes |-> thread[t].bytes,
                 shard |-> fromShard]
<1>1. thread[t].call \in Nat /\ thread[t].bytes \in Nat
  BY Parts
<1>2. x \in Regions /\ x.lo = addr /\ x.bytes = thread[t].bytes /\ x.shard = fromShard
  BY <1>1 DEF Regions
<1>3. regions' = regions \cup {x}
  BY DEF Returns
<1> HIDE DEF x
<1> QED BY <1>2, <1>3

LEMMA IdleFacts ==
  /\ Idle \in ThreadRecs /\ Idle.at = "idle" /\ Idle.at \notin Holding
  /\ Idle.at \notin Sharded /\ Idle.at # "carve"
<1>1. 0 \in Shards
  BY ConcurrentAssumption DEF Shards
<1> QED BY <1>1 DEF Idle, ThreadRecs, Ats, Holding, Sharded

LEMMA InArenaM ==
  ASSUME MInv, NEW t \in Threads, InArena(t)
  PROVE  MInv'
<1> DEFINE n == thread[t].bytes
           addr == Start(n, FALSE)
<1>1. /\ thread[t].at = "inArena" /\ arena_mutex_' = Free
      /\ arena' = ArenaAfter(n, FALSE) /\ arena_allocated_and_unused_' = arena'.unused
      /\ Returns(t, addr, FALSE) /\ UNCHANGED <<shards_, tls_cpuid, calls, fresh>>
  BY DEF InArena, Fixup
<1>2. TypeOK /\ Holders /\ Small /\ Enough /\ Memory /\ OtherTypes
  BY Types DEF MInv
<1>3. n \in Nat
  BY <1>2, Parts
<1>4. /\ addr \in Nat /\ arena.next <= addr
      /\ arena' \in [next : Nat, unused : Nat, isInInlineBlock : BOOLEAN]
      /\ arena'.next = addr + n
  BY <1>1, <1>2, <1>3, ArenaGives
<1> HIDE DEF n, addr
<1>5. PICK x \in Regions : /\ regions' = regions \cup {x} /\ x.lo = addr
                           /\ x.bytes = n /\ x.shard = FALSE
  BY <1>1, <1>2, <1>4, ReturnsFacts DEF n
<1>6. /\ Idle \in ThreadRecs /\ Idle.at = "idle" /\ Idle.at \notin Holding
      /\ Idle.at \notin Sharded /\ Idle.at # "carve"
  BY IdleFacts
<1>7. Moves(t, Idle)
  BY <1>1 DEF Returns, Moves
<1>8. /\ thread' \in [Threads -> ThreadRecs] /\ thread'[t] = Idle
      /\ \A u \in Threads : u # t => thread'[u] = thread[u]
  BY <1>2, <1>6, <1>7, MovesFacts
<1>9. OtherTypes'
  BY <1>1, <1>2, <1>4 DEF OtherTypes
<1>10. TypeOK'
  <2>1. regions' \subseteq Regions /\ shards_' \in [Shards -> ShardRecs]
    BY <1>1, <1>2, <1>5, Types
  <2> QED BY <1>4, <1>8, <1>9, <2>1, NewTypes
<1>11. thread[t].at \notin Holding
  BY <1>1 DEF Holding
<1>12. Holders'
  BY <1>1, <1>2, <1>6, <1>8, <1>11, HoldersKept
<1>13. Small' /\ Enough'
  BY <1>2, <1>6, <1>8, RequestKept
<1>14. ASSUME NEW q \in Shards PROVE Left(q)' = Left(q) /\ Begin(q)' = Begin(q)
  <2>1. shards_[q].mutex # t
    BY <1>2, <1>11 DEF Holders
  <2> QED BY <1>1, <1>2, <1>8, <2>1, LeftKept
<1>15. Memory'
  BY <1>2, <1>4, <1>5, <1>14, MemoryCall
<1> QED BY <1>10, <1>12, <1>13, <1>15 DEF MInv

(* A thread in a shard holds its mutex, and is alone in it. *)
LEMMA InMyShard ==
  ASSUME TypeOK, Holders, NEW t \in Threads, thread[t].at \in Holding
  PROVE  /\ thread[t].s \in Shards /\ shards_[thread[t].s].mutex = t /\ t # Free
         /\ \A q \in Shards : q # thread[t].s => shards_[q].mutex # t
BY Parts, ConcurrentAssumption DEF Holders

LEMMA ReloadInlineM ==
  ASSUME MInv, NEW t \in Threads, ReloadInline(t)
  PROVE  MInv'
<1> DEFINE n == thread[t].bytes
           addr == Start(n, FALSE)
           s == thread[t].s
<1>1. /\ thread[t].at = "reloading" /\ arena_mutex_' = Free
      /\ arena' = ArenaAfter(n, FALSE) /\ arena_allocated_and_unused_' = arena'.unused
      /\ Returns(t, addr, FALSE) /\ UNCHANGED <<tls_cpuid, calls, fresh>>
      /\ shards_' = [shards_ EXCEPT ![s].mutex = Free]
  BY DEF ReloadInline, Fixup
<1>2. TypeOK /\ Holders /\ Small /\ Enough /\ Memory /\ OtherTypes
      /\ shards_ \in [Shards -> ShardRecs]
  BY Types DEF MInv
<1>3. n \in Nat /\ thread[t].at \in Holding
  BY <1>1, <1>2, Parts DEF Holding
<1>4. /\ addr \in Nat /\ arena.next <= addr
      /\ arena' \in [next : Nat, unused : Nat, isInInlineBlock : BOOLEAN]
      /\ arena'.next = addr + n
  BY <1>1, <1>2, <1>3, ArenaGives
<1>5. /\ s \in Shards /\ shards_[s].mutex = t /\ t # Free
      /\ \A q \in Shards : q # s => shards_[q].mutex # t
  BY <1>2, <1>3, InMyShard
<1>6. /\ shards_' \in [Shards -> ShardRecs] /\ shards_'[s].mutex = Free
      /\ shards_'[s].free_begin_ = shards_[s].free_begin_
      /\ shards_'[s].allocated_and_unused_ = shards_[s].allocated_and_unused_
      /\ \A q \in Shards : q # s => shards_'[q] = shards_[q]
  <2> HIDE DEF s
  <2> QED BY <1>1, <1>2, <1>5 DEF ShardRecs
<1> HIDE DEF n, addr
<1>7. PICK x \in Regions : /\ regions' = regions \cup {x} /\ x.lo = addr
                           /\ x.bytes = n /\ x.shard = FALSE
  BY <1>1, <1>2, <1>4, ReturnsFacts DEF n
<1>8. /\ Idle \in ThreadRecs /\ Idle.at = "idle" /\ Idle.at \notin Holding
      /\ Idle.at \notin Sharded /\ Idle.at # "carve"
  BY IdleFacts
<1>9. Moves(t, Idle)
  BY <1>1 DEF Returns, Moves
<1>10. /\ thread' \in [Threads -> ThreadRecs] /\ thread'[t] = Idle
       /\ \A u \in Threads : u # t => thread'[u] = thread[u]
  BY <1>2, <1>8, <1>9, MovesFacts
<1>11. OtherTypes'
  BY <1>1, <1>2, <1>4 DEF OtherTypes
<1>12. TypeOK'
  <2>1. regions' \subseteq Regions
    BY <1>2, <1>7, Types
  <2> QED BY <1>4, <1>6, <1>10, <1>11, <2>1, NewTypes
<1>13. Holders'
  <2>1. Free \notin Threads
    BY ConcurrentAssumption
  <2> HIDE DEF s
  <2>2. thread[t].s = s
    BY DEF s
  <2> QED BY <1>2, <1>3, <1>5, <1>6, <1>8, <1>10, <2>1, <2>2, HoldersLeft
<1>14. Small' /\ Enough'
  BY <1>2, <1>8, <1>10, RequestKept
<1>15. ASSUME NEW q \in Shards PROVE Left(q)' = Left(q) /\ Begin(q)' = Begin(q)
  <2>1. CASE q = s
    <3>1. shards_[q].mutex = t /\ shards_'[q].mutex = Free /\ thread[t].at # "carve"
      BY <1>1, <1>5, <1>6, <2>1
    <3>2. Left(q) = shards_[q].allocated_and_unused_
      BY <3>1 DEF Left
    <3>3. Left(q)' = shards_'[q].allocated_and_unused_
      BY <3>1 DEF Left
    <3> QED BY <1>6, <2>1, <3>2, <3>3 DEF Begin
  <2>2. CASE q # s
    BY <1>2, <1>5, <1>6, <1>10, <2>2, LeftKept
  <2> QED BY <2>1, <2>2
<1>16. Memory'
  BY <1>2, <1>4, <1>7, <1>15, MemoryCall
<1> QED BY <1>12, <1>13, <1>14, <1>16 DEF MInv

LEMMA ReloadM ==
  ASSUME MInv, NEW t \in Threads, Reload(t)
  PROVE  MInv'
<1> DEFINE n == IF exact >= shard_block_size_ \div 2 /\ exact < shard_block_size_ * 2
                THEN exact ELSE shard_block_size_
           addr == Start(n, TRUE)
           x == [thread[t] EXCEPT !.avail = n, !.at = "carve"]
<1>0. PICK s \in Shards : s = thread[t].s
  BY Parts DEF MInv
<1>1. /\ thread[t].at = "reloading" /\ arena_mutex_' = Free
      /\ arena' = ArenaAfter(n, TRUE) /\ arena_allocated_and_unused_' = arena'.unused
      /\ Moves(t, x) /\ UNCHANGED <<tls_cpuid, calls, regions, fresh>>
      /\ shards_' = [shards_ EXCEPT ![s].free_begin_ = addr]
  BY <1>0 DEF Reload, Fixup, Moves
<1>2. TypeOK /\ Holders /\ Small /\ Enough /\ Memory /\ OtherTypes
      /\ shards_ \in [Shards -> ShardRecs]
  BY Types DEF MInv
<1>3. thread[t] \in ThreadRecs /\ thread[t].bytes \in Nat
      /\ thread[t].at \in Holding /\ thread[t].at \in Sharded
  BY <1>1, <1>2, Parts DEF Holding, Sharded
<1>4. thread[t].bytes <= shard_block_size_ \div 4
  BY <1>2, <1>3 DEF Small
<1>5. n \in Nat /\ thread[t].bytes <= n
  <2>1. exact \in Nat /\ shard_block_size_ \in Nat
    BY <1>2, ConcurrentAssumption DEF exact, OtherTypes
  <2>2. shard_block_size_ \div 4 <= shard_block_size_ \div 2
        /\ shard_block_size_ \div 4 <= shard_block_size_
        /\ shard_block_size_ \div 4 \in Nat /\ shard_block_size_ \div 2 \in Nat
    BY <2>1
  <2> QED BY <1>3, <1>4, <2>1, <2>2
<1> HIDE DEF n
<1>6. /\ addr \in Nat /\ arena.next <= addr /\ addr % PtrSize = 0
      /\ arena' \in [next : Nat, unused : Nat, isInInlineBlock : BOOLEAN]
      /\ arena'.next = addr + n
  BY <1>1, <1>2, <1>5, ArenaGives
<1>7. /\ s \in Shards /\ shards_[s].mutex = t /\ t # Free
      /\ \A q \in Shards : q # s => shards_[q].mutex # t
  BY <1>0, <1>2, <1>3, InMyShard
<1>8. x \in ThreadRecs /\ x.at = "carve" /\ x.s = s /\ x.bytes = thread[t].bytes /\ x.avail = n
  BY <1>0, <1>3, <1>5 DEF ThreadRecs, Ats
<1> HIDE DEF addr, x
<1>9. /\ shards_' \in [Shards -> ShardRecs] /\ shards_'[s].mutex = t
      /\ shards_'[s].free_begin_ = addr
      /\ \A q \in Shards : q # s => shards_'[q] = shards_[q]
  BY <1>1, <1>2, <1>6, <1>7 DEF ShardRecs
<1>10. /\ thread' \in [Threads -> ThreadRecs] /\ thread'[t] = x
       /\ \A u \in Threads : u # t => thread'[u] = thread[u]
  BY <1>1, <1>2, <1>8, MovesFacts
<1>11. OtherTypes'
  BY <1>1, <1>2, <1>6 DEF OtherTypes
<1>12. TypeOK'
  <2>1. regions' \subseteq Regions
    BY <1>1, <1>2, Types
  <2> QED BY <1>6, <1>9, <1>10, <1>11, <2>1, NewTypes
<1>13. Holders'
  <2>1. \A q \in Shards : shards_'[q].mutex = shards_[q].mutex
    BY <1>7, <1>9
  <2>2. x.at \in Holding
    BY <1>8 DEF Holding
  <2> QED BY <1>0, <1>2, <1>3, <1>8, <1>10, <2>1, <2>2, HoldersKept
<1>14. Small' /\ Enough'
  BY <1>2, <1>4, <1>5, <1>8, <1>10, RequestKept
<1>15. Left(s)' = n /\ Begin(s)' = addr
  BY <1>7, <1>8, <1>9, <1>10 DEF Left, Begin
<1>16. \A q \in Shards : q # s => (Left(q)' = Left(q) /\ Begin(q)' = Begin(q))
  BY <1>2, <1>7, <1>9, <1>10, LeftKept
<1>17. Memory'
  BY <1>1, <1>2, <1>5, <1>6, <1>15, <1>16, MemoryReload
<1> QED BY <1>12, <1>13, <1>14, <1>17 DEF MInv

LEMMA CarveM ==
  ASSUME MInv, Positive, NEW t \in Threads, Carve(t)
  PROVE  MInv'
<1>0. PICK s \in Shards : s = thread[t].s
  BY Parts DEF MInv
<1> DEFINE n == thread[t].bytes
           left == thread[t].avail - n
           begin == shards_[s].free_begin_
           even == n % PtrSize = 0
           b == IF even THEN begin + n ELSE begin
           addr == IF even THEN begin ELSE begin + thread[t].avail - n
<1>1. /\ thread[t].at = "carve"
      /\ shards_' = [shards_ EXCEPT ![s].allocated_and_unused_ = left,
                                    ![s].free_begin_ = b, ![s].mutex = Free]
      /\ Returns(t, addr, TRUE)
      /\ UNCHANGED <<arena, arena_mutex_, arena_allocated_and_unused_, tls_cpuid, calls, fresh>>
  BY <1>0 DEF Carve, CarveFrame
<1>2. TypeOK /\ Holders /\ Small /\ Enough /\ Memory /\ OtherTypes
      /\ shards_ \in [Shards -> ShardRecs]
  BY Types DEF MInv
<1>3. /\ n \in Nat /\ thread[t].avail \in Nat /\ begin \in Nat
      /\ thread[t].at \in Holding
  BY <1>1, <1>2, Parts DEF Holding
<1>4. n > 0 /\ n <= thread[t].avail
  BY <1>1, <1>2 DEF Positive, Enough
<1>5. left \in Nat /\ b \in Nat /\ addr \in Nat
  BY <1>3, <1>4
<1>6. /\ shards_[s].mutex = t /\ t # Free
      /\ \A q \in Shards : q # s => shards_[q].mutex # t
  BY <1>0, <1>2, <1>3, InMyShard
<1>7. Left(s) = thread[t].avail /\ Begin(s) = begin
  BY <1>1, <1>6 DEF Left, Begin
<1>8. b % PtrSize = 0
  <2>1. begin % PtrSize = 0
    BY <1>2, <1>7 DEF Memory, BeginsAligned
  <2>2. even => (begin + n) % PtrSize = 0
    BY <1>3, <2>1, SumAligned
  <2> QED BY <2>1, <2>2
<1>9. \/ addr = Begin(s) /\ b = Begin(s) + n
      \/ addr = Begin(s) + Left(s) - n /\ b = Begin(s) /\ n % PtrSize # 0
  BY <1>7
<1> HIDE DEF left, b, addr, begin, even
<1>10. /\ shards_' \in [Shards -> ShardRecs] /\ shards_'[s].mutex = Free
       /\ shards_'[s].free_begin_ = b /\ shards_'[s].allocated_and_unused_ = left
       /\ \A q \in Shards : q # s => shards_'[q] = shards_[q]
  BY <1>1, <1>2, <1>5 DEF ShardRecs
<1>11. PICK x \in Regions : /\ regions' = regions \cup {x} /\ x.lo = addr
                            /\ x.bytes = n /\ x.shard = TRUE
  BY <1>1, <1>2, <1>5, ReturnsFacts
<1>12. /\ Idle \in ThreadRecs /\ Idle.at = "idle" /\ Idle.at \notin Holding
       /\ Idle.at \notin Sharded /\ Idle.at # "carve"
  BY IdleFacts
<1>13. Moves(t, Idle)
  BY <1>1 DEF Returns, Moves
<1>14. /\ thread' \in [Threads -> ThreadRecs] /\ thread'[t] = Idle
       /\ \A u \in Threads : u # t => thread'[u] = thread[u]
  BY <1>2, <1>12, <1>13, MovesFacts
<1>15. OtherTypes'
  BY <1>1, <1>2 DEF OtherTypes
<1>16. TypeOK'
  <2>1. regions' \subseteq Regions /\ arena' \in [next : Nat, unused : Nat, isInInlineBlock : BOOLEAN]
    BY <1>1, <1>2, <1>11, Types
  <2> QED BY <1>10, <1>14, <1>15, <2>1, NewTypes
<1>17. Holders'
  <2>1. Free \notin Threads
    BY ConcurrentAssumption
  <2>2. \A q \in Shards : q # s => shards_'[q].mutex = shards_[q].mutex
    BY <1>10
  <2> QED BY <1>0, <1>2, <1>3, <1>10, <1>12, <1>14, <2>1, <2>2, HoldersLeft
<1>18. Small' /\ Enough'
  BY <1>2, <1>12, <1>14, RequestKept
<1>19. Left(s)' = left /\ Begin(s)' = b
  BY <1>10 DEF Left, Begin
<1>20. \A q \in Shards : q # s => (Left(q)' = Left(q) /\ Begin(q)' = Begin(q))
  BY <1>2, <1>6, <1>10, <1>14, LeftKept
<1>21. Memory'
  <2>1. x.bytes > 0 /\ x.bytes <= Left(s) /\ Left(s)' = Left(s) - x.bytes
    BY <1>4, <1>7, <1>11, <1>19 DEF left
  <2>2. \/ x.lo = Begin(s) /\ b = Begin(s) + x.bytes
        \/ /\ x.lo = Begin(s) + Left(s) - x.bytes /\ b = Begin(s)
           /\ x.bytes % PtrSize # 0
    BY <1>9, <1>11
  <2>3. Begin(s)' = b
    BY <1>19
  <2> HIDE DEF n
  <2> QED BY <1>1, <1>2, <1>5, <1>8, <1>11, <1>20, <2>1, <2>2, <2>3, MemoryCarve
<1> QED BY <1>16, <1>17, <1>18, <1>21 DEF MInv

LEMMA InitM ==
  ASSUME Init
  PROVE  MInv
<1>1. 0 \in Shards /\ kInlineSize \in Nat /\ MaxAllocs \in Nat /\ Free \notin Threads
  BY ConcurrentAssumption DEF Shards
<1>2. OtherTypes
  <2>1. tls_cpuid \in [Threads -> Nat]
    <3>1. tls_cpuid \in [Threads -> InitialCpuid] /\ InitialCpuid \subseteq Nat
      BY ConcurrentAssumption DEF Init
    <3>2. \A t \in Threads : tls_cpuid[t] \in Nat
      BY <3>1
    <3> QED BY <3>1, <3>2
  <2>2. arena_allocated_and_unused_ \in Nat /\ calls \in 0..MaxAllocs /\ arena_mutex_ = Free
    BY <1>1, ConcurrentAssumption DEF Init
  <2>3. fresh \in BOOLEAN
    BY Zenon DEF Init
  <2> QED BY <2>1, <2>2, <2>3 DEF OtherTypes
<1>3. /\ \A t \in Threads : thread[t] = Idle
      /\ thread \in [Threads -> ThreadRecs]
  BY IdleFacts DEF Init
<1>4. /\ shards_ \in [Shards -> ShardRecs]
      /\ \A s \in Shards : /\ shards_[s].mutex = Free /\ shards_[s].free_begin_ = 0
                           /\ shards_[s].allocated_and_unused_ = 0
  BY DEF Init, ShardRecs
<1>5. arena \in [next : Nat, unused : Nat, isInInlineBlock : BOOLEAN] /\ arena.next = 0
  BY <1>1 DEF Init
<1>6. regions = {}
  BY DEF Init
<1>7. TypeOK
  BY <1>2, <1>3, <1>4, <1>5, <1>6, Types
<1>8. Holders /\ Small /\ Enough
  BY <1>1, <1>3, <1>4, IdleFacts DEF Holders, Small, Enough
<1>9. \A s \in Shards : Left(s) = 0 /\ Begin(s) = 0
  BY <1>4 DEF Left, Begin
<1>10. 0 % PtrSize = 0
  <2>1. PtrSize * 0 = 0
    BY ConcurrentAssumption
  <2>2. (PtrSize * 0) % PtrSize = 0
    BY MultipleAligned
  <2> QED BY <2>1, <2>2
<1>11. Memory
  BY <1>5, <1>6, <1>9, <1>10
     DEF Memory, Below, CallsApart, ShardsClear, ShardsApart, BeginsAligned, AlignedFromShard
<1> QED BY <1>7, <1>8, <1>11 DEF MInv

LEMMA NextM ==
  ASSUME MInv, Positive, [Next]_vars
  PROVE  MInv'
<1>1. ASSUME NEW t \in Threads, NEW bytes \in Requests, NEW force_arena \in BOOLEAN,
             AllocateImpl(t, bytes, force_arena)
      PROVE  MInv'
  BY <1>1, AllocateImplM
<1>2. ASSUME NEW t \in Threads, Step(t) PROVE MInv'
  BY <1>2, ChooseM, InArenaM, TryShardM, LockShardM, InShardM, ReloadInlineM, ReloadM, CarveM
     DEF Step
<1>3. CASE UNCHANGED vars
  <2>1. /\ UNCHANGED <<arena, shards_, regions, thread>>
        /\ UNCHANGED <<arena_mutex_, arena_allocated_and_unused_, tls_cpuid, calls, fresh>>
    BY <1>3 DEF vars
  <2>2. TypeOK' /\ Holders' /\ Small' /\ Enough'
    BY <2>1 DEF MInv, TypeOK, Holders, Small, Enough
  <2>3. \A s \in Shards : Left(s)' = Left(s) /\ Begin(s)' = Begin(s)
    BY <2>1 DEF Left, Begin
  <2>4. Memory'
    BY <2>1, <2>3, MemorySame DEF MInv
  <2> QED BY <2>2, <2>4 DEF MInv
<1> QED BY <1>1, <1>2, <1>3 DEF Next

LEMMA InvariantM == Spec => [](IInv /\ MInv)
<1>1. Init => IInv /\ MInv
  BY InitIInv, InitM
<1>2. (IInv /\ MInv) /\ [Next]_vars => (IInv /\ MInv)'
  <2> SUFFICES ASSUME IInv, MInv, [Next]_vars PROVE IInv' /\ MInv'
    OBVIOUS
  <2>1. IInv'
    BY ShapeNext, PositiveNext, BeforeFixupNext DEF IInv
  <2>2. MInv'
    BY NextM DEF IInv
  <2> QED BY <2>1, <2>2
<1> QED BY <1>1, <1>2, PTL DEF Spec

(* No two calls of AllocateImpl (concurrentnvmarena.h:78-115) are given    *)
(* overlapping memory, nor what a shard still counts as its own, for any   *)
(* number of threads and shards and whatever the unset counter held.       *)
THEOREM ConcurrentNeverOverlaps == Spec => []NoOverlap
<1>1. IInv /\ MInv => NoOverlap
  <2> SUFFICES ASSUME MInv PROVE NoOverlap
    OBVIOUS
  <2>1. TypeOK /\ Holders /\ Memory
    BY DEF MInv
  <2>2. \A r, q \in regions : r # q => r.lo + r.bytes <= q.lo \/ q.lo + q.bytes <= r.lo
    BY <2>1 DEF Memory, CallsApart, Apart
  <2>3. ASSUME NEW r \in regions, NEW s \in Shards, Settled(s),
               shards_[s].allocated_and_unused_ > 0
        PROVE  \/ r.lo + r.bytes <= shards_[s].free_begin_
               \/ shards_[s].free_begin_ + shards_[s].allocated_and_unused_ <= r.lo
    <3>1. Left(s) = shards_[s].allocated_and_unused_
      <4>1. ASSUME shards_[s].mutex # Free PROVE thread[shards_[s].mutex].at # "carve"
        <5>1. PICK t \in Threads : t = shards_[s].mutex
          BY <2>1, <4>1, Parts
        <5>2. thread[t].s = s
          BY <2>1, <5>1 DEF Holders
        <5> QED BY <2>3, <5>1, <5>2 DEF Settled
      <4> QED BY <4>1 DEF Left
    <3>2. Apart(r.lo, r.bytes, Begin(s), Left(s))
      BY <2>1, <2>3, <3>1 DEF Memory, ShardsClear
    <3> QED BY <3>1, <3>2 DEF Apart, Begin
  <2> QED BY <2>2, <2>3 DEF NoOverlap
<1> QED BY <1>1, InvariantM, PTL

(* An aligned size that a shard serves gets aligned memory (h:107-114),    *)
(* whatever odd sizes it has served before.                                *)
THEOREM ShardsServeAligned == Spec => []AlignedFromShard
<1>1. IInv /\ MInv => AlignedFromShard
  BY DEF MInv, Memory
<1> QED BY <1>1, InvariantM, PTL

(* The counters of the shards and of the arena never go below 0, and the   *)
(* mutexes have at most one holder.                                        *)
THEOREM ConcurrentTypeCorrect == Spec => []TypeOK
<1>1. IInv /\ MInv => TypeOK
  BY DEF MInv
<1> QED BY <1>1, InvariantM, PTL

=============================================================================
