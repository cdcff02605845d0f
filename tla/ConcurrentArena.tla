--------------------------- MODULE ConcurrentArena --------------------------
(***************************************************************************)
(* ConcurrentNVMArena::AllocateImpl (concurrentnvmarena.h), the allocator  *)
(* that threads share: an arena under arena_mutex_, and in front of it     *)
(* shards with a mutex each, from which small requests are served.  The    *)
(* choice of the shard is kept in a thread local variable, tls_cpuid.      *)
(*                                                                         *)
(* The steps of a thread are cut where it takes or tries a mutex and where *)
(* it reads what other threads write without one.  The arena is RocksDB's  *)
(* class Arena: all that is used of it is that it hands out fresh memory   *)
(* and knows how much of its block is left.                                *)
(***************************************************************************)
EXTENDS Integers

CONSTANTS
  Threads,
  NumShards,          \* shards_.Size(), a power of two
  shard_block_size_,
  kBlockSize,         \* size of a block of the arena
  kInlineSize,        \* size of the block inside the Arena object
  PtrSize,            \* sizeof(void*)
  Requests,           \* sizes that are asked for
  InitialCpuid,       \* what tls_cpuid may hold when the arena is made
  Uninitialized,      \* what arena_allocated_and_unused_ may hold then
  MaxAllocs           \* bound: calls

Free == "free"

ASSUME ConcurrentAssumption ==
  /\ Free \notin Threads
  /\ NumShards \in Nat \ {0} /\ PtrSize \in Nat \ {0}
  /\ shard_block_size_ \in Nat /\ kBlockSize \in Nat /\ kInlineSize \in Nat
  /\ Requests \subseteq Nat \ {0}
  /\ InitialCpuid \subseteq Nat /\ Uninitialized \subseteq Nat
  /\ MaxAllocs \in Nat

VARIABLES
  arena,                        \* the Arena: next address, bytes left, inline block
  arena_mutex_,                 \* its holder
  arena_allocated_and_unused_,  \* the copy that Fixup refreshes
  shards_,                      \* mutex, free_begin_, allocated_and_unused_
  tls_cpuid,                    \* of each thread
  thread,                       \* where each thread is in AllocateImpl, its locals
  calls,                        \* how many there have been
  regions,                      \* history: the memory they returned
  fresh                         \* history: no thread had repicked in another arena

vars == <<arena, arena_mutex_, arena_allocated_and_unused_, shards_, tls_cpuid,
          thread, calls, regions, fresh>>

Shards == 0..(NumShards - 1)
Idle == [at |-> "idle", call |-> 0, bytes |-> 0, s |-> 0, avail |-> 0]

TypeOK ==
  /\ arena \in [next : Nat, unused : Nat, isInInlineBlock : BOOLEAN]
  /\ arena_mutex_ \in Threads \cup {Free}
  /\ arena_allocated_and_unused_ \in Nat
  /\ shards_ \in [Shards -> [mutex : Threads \cup {Free}, free_begin_ : Nat,
                             allocated_and_unused_ : Nat]]
  /\ tls_cpuid \in [Threads -> Nat]
  /\ thread \in [Threads -> [at : {"idle", "entry", "tryArena", "lockArena", "inArena",
                                   "tryShard", "lockShard", "inShard", "reload",
                                   "reloading", "carve"},
                             call : Nat, bytes : Nat, s : Shards, avail : Nat]]
  /\ calls \in 0..MaxAllocs
  /\ fresh \in BOOLEAN
  /\ regions \subseteq [call : Nat, lo : Nat, bytes : Nat, shard : BOOLEAN]

-----------------------------------------------------------------------------
(* The Arena.  A request that does not fit opens a new block, of its own   *)
(* size if it is larger than one.                                          *)

RoundUp(addr) == ((addr + PtrSize - 1) \div PtrSize) * PtrSize

AllocatedAndUnused == arena.unused

(* The first address of a request, and the arena after it. *)
Start(bytes, aligned) ==
  LET addr == IF aligned THEN RoundUp(arena.next) ELSE arena.next
      end  == arena.next + arena.unused
  IN  IF addr + bytes <= end THEN addr ELSE RoundUp(end)

ArenaAfter(bytes, aligned) ==
  LET addr  == Start(bytes, aligned)
      end   == arena.next + arena.unused
      block == IF bytes <= kBlockSize THEN kBlockSize ELSE bytes
  IN  IF addr + bytes <= end
      THEN [arena EXCEPT !.next = addr + bytes, !.unused = end - (addr + bytes)]
      ELSE [next |-> addr + bytes, unused |-> block - bytes, isInInlineBlock |-> FALSE]

Init ==
  /\ arena = [next |-> 0, unused |-> kInlineSize, isInInlineBlock |-> TRUE]
  /\ arena_mutex_ = Free
  /\ arena_allocated_and_unused_ \in Uninitialized
  /\ shards_ = [s \in Shards |-> [mutex |-> Free, free_begin_ |-> 0,
                                  allocated_and_unused_ |-> 0]]
  /\ tls_cpuid \in [Threads -> InitialCpuid]
  /\ thread = [t \in Threads |-> Idle]
  /\ calls = 0 /\ regions = {}
  /\ fresh = (\A t \in Threads : tls_cpuid[t] = 0)

-----------------------------------------------------------------------------
(* AllocateImpl.                                                           *)

GoTo(t, from, to) == thread[t].at = from /\ thread' = [thread EXCEPT ![t].at = to]

(* A call, bounded in number by MaxAllocs: a large request and one with    *)
(* force_arena wait for the arena.                                         *)
AllocateImpl(t, bytes, force_arena) ==
  /\ thread[t].at = "idle" /\ calls < MaxAllocs /\ calls' = calls + 1
  /\ thread' = [thread EXCEPT ![t] =
       [Idle EXCEPT !.bytes = bytes, !.call = calls,
                    !.at = IF bytes > shard_block_size_ \div 4 \/ force_arena
                           THEN "lockArena" ELSE "entry"]]
  /\ UNCHANGED <<arena, arena_mutex_, arena_allocated_and_unused_, shards_, tls_cpuid,
                 regions, fresh>>

Choosing == UNCHANGED <<arena, arena_allocated_and_unused_, calls, regions, fresh>>

(* A thread that has never repicked looks whether shard 0 is unused ...    *)
Entry(t) ==
  /\ IF tls_cpuid[t] = 0 /\ shards_[0].allocated_and_unused_ = 0
     THEN GoTo(t, "entry", "tryArena") ELSE GoTo(t, "entry", "tryShard")
  /\ UNCHANGED <<arena_mutex_, shards_, tls_cpuid>> /\ Choosing

(* ... and then tries the arena.                                           *)
TryArena(t) ==
  /\ \/ arena_mutex_ = Free /\ arena_mutex_' = t /\ GoTo(t, "tryArena", "inArena")
     \/ arena_mutex_ # Free /\ UNCHANGED arena_mutex_ /\ GoTo(t, "tryArena", "tryShard")
  /\ UNCHANGED <<shards_, tls_cpuid>> /\ Choosing

LockArena(t) ==
  /\ arena_mutex_ = Free /\ arena_mutex_' = t
  /\ \/ GoTo(t, "lockArena", "inArena")
     \/ GoTo(t, "reload", "reloading")
  /\ UNCHANGED <<shards_, tls_cpuid>> /\ Choosing

(* The shard of the core the thread runs on; the size of shards_ is a      *)
(* power of two, and its bit says that the thread has repicked.            *)
Repick(t, core) == tls_cpuid' = [tls_cpuid EXCEPT ![t] = core + NumShards]

(* Every other thread uses the shard of tls_cpuid, or repicks: the shard   *)
(* of the core it runs on, which may be any.                               *)
TryShard(t) ==
  LET s == tls_cpuid[t] % NumShards
  IN  /\ thread[t].at = "tryShard"
      /\ \/ /\ shards_[s].mutex = Free
            /\ shards_' = [shards_ EXCEPT ![s].mutex = t]
            /\ thread' = [thread EXCEPT ![t].at = "inShard", ![t].s = s]
            /\ UNCHANGED tls_cpuid
         \/ /\ shards_[s].mutex # Free
            /\ \E core \in Shards :
                 /\ Repick(t, core)
                 /\ thread' = [thread EXCEPT ![t].at = "lockShard", ![t].s = core]
            /\ UNCHANGED shards_
      /\ UNCHANGED arena_mutex_ /\ Choosing

LockShard(t) ==
  /\ shards_[thread[t].s].mutex = Free
  /\ shards_' = [shards_ EXCEPT ![thread[t].s].mutex = t]
  /\ GoTo(t, "lockShard", "inShard")
  /\ UNCHANGED <<arena_mutex_, tls_cpuid>> /\ Choosing

(* Mutant: the test is off by one. *)
InShardOffByOne(t) ==
  LET avail == shards_[thread[t].s].allocated_and_unused_
  IN  /\ thread[t].at = "inShard"
      /\ thread' = [thread EXCEPT ![t].avail = avail,
                      ![t].at = IF avail + 1 < thread[t].bytes THEN "reload" ELSE "carve"]
      /\ UNCHANGED <<arena_mutex_, shards_, tls_cpuid>> /\ Choosing

(* In the shard: what it has is enough, or the arena is locked as well.    *)
InShard(t) ==
  LET avail == shards_[thread[t].s].allocated_and_unused_
  IN  /\ thread[t].at = "inShard"
      /\ thread' = [thread EXCEPT ![t].avail = avail,
                      ![t].at = IF avail < thread[t].bytes THEN "reload" ELSE "carve"]
      /\ UNCHANGED <<arena_mutex_, shards_, tls_cpuid>> /\ Choosing

Returns(t, addr, fromShard) ==
  /\ thread' = [thread EXCEPT ![t] = Idle]
  /\ regions' = regions \cup {[call |-> thread[t].call, lo |-> addr,
                               bytes |-> thread[t].bytes, shard |-> fromShard]}

(* Mutant: the copy of the counter is not refreshed. *)
FixupForgotten == UNCHANGED arena_allocated_and_unused_

Fixup == arena_allocated_and_unused_' = arena'.unused

(* func(), a call of the arena, then Fixup and the unlocking: under        *)
(* arena_mutex_ alone ...                                                  *)
InArena(t) ==
  /\ thread[t].at = "inArena" /\ arena_mutex_' = Free
  /\ arena' = ArenaAfter(thread[t].bytes, FALSE) /\ Fixup
  /\ Returns(t, Start(thread[t].bytes, FALSE), FALSE)
  /\ UNCHANGED <<shards_, tls_cpuid, calls, fresh>>

exact == arena_allocated_and_unused_

(* Mutant: the shard's mutex is not released on the early return. *)
ReloadInlineKeepsShard(t) ==
  LET bytes == thread[t].bytes
  IN  /\ thread[t].at = "reloading"
      /\ exact >= bytes /\ arena.isInInlineBlock
      /\ arena' = ArenaAfter(bytes, FALSE) /\ Fixup
      /\ Returns(t, Start(bytes, FALSE), FALSE)
      /\ arena_mutex_' = Free
      /\ UNCHANGED <<shards_, tls_cpuid, calls, fresh>>

(* ... or in a shard, as long as the arena has not left its inline block.  *)
ReloadInline(t) ==
  LET bytes == thread[t].bytes
  IN  /\ thread[t].at = "reloading"
      /\ exact >= bytes /\ arena.isInInlineBlock
      /\ arena' = ArenaAfter(bytes, FALSE) /\ Fixup
      /\ Returns(t, Start(bytes, FALSE), FALSE)
      /\ arena_mutex_' = Free /\ shards_' = [shards_ EXCEPT ![thread[t].s].mutex = Free]
      /\ UNCHANGED <<tls_cpuid, calls, fresh>>

(* Otherwise the shard gets a new stretch of memory, all that is left in   *)
(* the arena's block if that is about the right size.                      *)
Reload(t) ==
  LET avail == IF exact >= shard_block_size_ \div 2 /\ exact < shard_block_size_ * 2
               THEN exact ELSE shard_block_size_
  IN  /\ thread[t].at = "reloading"
      /\ ~(exact >= thread[t].bytes /\ arena.isInInlineBlock)
      /\ shards_' = [shards_ EXCEPT ![thread[t].s].free_begin_ = Start(avail, TRUE)]
      /\ arena' = ArenaAfter(avail, TRUE) /\ Fixup
      /\ thread' = [thread EXCEPT ![t].avail = avail, ![t].at = "carve"]
      /\ arena_mutex_' = Free
      /\ UNCHANGED <<tls_cpuid, calls, regions, fresh>>

CarveFrame ==
  UNCHANGED <<arena, arena_mutex_, arena_allocated_and_unused_, tls_cpuid, calls, fresh>>

(* Mutant: unaligned requests are cut from the beginning as well. *)
CarveAtBeginning(t) ==
  LET s     == thread[t].s
      bytes == thread[t].bytes
      begin == shards_[s].free_begin_
  IN  /\ thread[t].at = "carve"
      /\ shards_' = [shards_ EXCEPT ![s].allocated_and_unused_ = thread[t].avail - bytes,
                                    ![s].free_begin_ = begin + bytes,
                                    ![s].mutex = Free]
      /\ Returns(t, begin, TRUE)
      /\ CarveFrame

(* Mutant: the end is taken from what is left, not from avail. *)
CarveFromNewEnd(t) ==
  LET s     == thread[t].s
      bytes == thread[t].bytes
      begin == shards_[s].free_begin_
      even  == bytes % PtrSize = 0
  IN  /\ thread[t].at = "carve"
      /\ shards_' = [shards_ EXCEPT ![s].allocated_and_unused_ = thread[t].avail - bytes,
                                    ![s].free_begin_ = IF even THEN begin + bytes ELSE begin,
                                    ![s].mutex = Free]
      /\ Returns(t, IF even THEN begin ELSE begin + thread[t].avail, TRUE)
      /\ CarveFrame

(* The request is cut from the shard: aligned sizes from its beginning,    *)
(* others from its end.                                                    *)
Carve(t) ==
  LET s     == thread[t].s
      bytes == thread[t].bytes
      begin == shards_[s].free_begin_
      even  == bytes % PtrSize = 0
  IN  /\ thread[t].at = "carve"
      /\ shards_' = [shards_ EXCEPT ![s].allocated_and_unused_ = thread[t].avail - bytes,
                                    ![s].free_begin_ = IF even THEN begin + bytes ELSE begin,
                                    ![s].mutex = Free]
      /\ Returns(t, IF even THEN begin ELSE begin + thread[t].avail - bytes, TRUE)
      /\ CarveFrame

-----------------------------------------------------------------------------

Step(t) ==
  \/ Entry(t) \/ TryArena(t) \/ LockArena(t) \/ InArena(t)
  \/ TryShard(t) \/ LockShard(t) \/ InShard(t)
  \/ ReloadInline(t) \/ Reload(t) \/ Carve(t)

Next ==
  \E t \in Threads :
    \/ \E bytes \in Requests, force_arena \in BOOLEAN : AllocateImpl(t, bytes, force_arena)
    \/ Step(t)

Spec == Init /\ [][Next]_vars

(* A thread inside AllocateImpl runs on. *)
FairSpec == Spec /\ \A t \in Threads : WF_vars(Step(t))

-----------------------------------------------------------------------------

(* The memory that shard s still has for its requests, while no thread is  *)
(* between a reload and the store of what is left.                         *)
Settled(s) == \A t \in Threads : ~(thread[t].at = "carve" /\ thread[t].s = s)

(* No two calls are given overlapping memory, whichever threads, shards    *)
(* and locks they went through, and no call is given what a shard still    *)
(* counts as its own (concurrentnvmarena.h:78-115).                        *)
NoOverlap ==
  /\ \A r, q \in regions : r # q => r.lo + r.bytes <= q.lo \/ q.lo + q.bytes <= r.lo
  /\ \A r \in regions, s \in Shards : Settled(s) =>
       LET sh == shards_[s]
       IN  sh.allocated_and_unused_ > 0 =>
             \/ r.lo + r.bytes <= sh.free_begin_
             \/ sh.free_begin_ + sh.allocated_and_unused_ <= r.lo

(* A request of an aligned size that a shard serves gets aligned memory,   *)
(* whatever odd sizes the shard has served before (h:107-114).             *)
AlignedFromShard ==
  \A r \in regions : (r.shard /\ r.bytes % PtrSize = 0) => r.lo % PtrSize = 0

(* The assertion of concurrentnvmarena.h:85: whenever a thread reloads a   *)
(* shard, the copy of the arena's counter is up to date.                   *)
ReloadAssertion ==
  \A t \in Threads : thread[t].at = "reloading" => exact = AllocatedAndUnused

(* It never fails if no thread had repicked in another arena before this   *)
(* one was made, although nothing sets the copy before the first Fixup.    *)
FreshReloads == fresh => ReloadAssertion

(* The two levels of mutexes never block each other for ever: every call   *)
(* returns.                                                                *)
CallsReturn == \A t \in Threads : thread[t].at # "idle" ~> thread[t].at = "idle"

=============================================================================
