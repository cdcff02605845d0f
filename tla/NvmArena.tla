------------------------------ MODULE NvmArena ------------------------------
(***************************************************************************)
(* The memtable allocator NVMArena (nvm_arena.h, nvm_arena.cc).  One block *)
(* of persistent memory is mapped by the constructor; AllocateAligned      *)
(* hands out memory from the left end of the block, Allocate from its      *)
(* right end, and a request that does not fit ends the process, because    *)
(* AllocateFallback calls exit(-1) before any of the code that follows it. *)
(*                                                                         *)
(* Addresses are byte addresses.  Arithmetic on sizes is size_t            *)
(* arithmetic: Plus wraps at SizeMod (2^64 in the program).                *)
(***************************************************************************)
EXTENDS Integers, FiniteSets

CONSTANTS
  block_addr,  \* where pmem_map_file put the block
  block_sz,    \* its size, OptimizeBlockSize(block_size << 3)
  kAlignUnit,  \* alignof(max_align_t)
  SizeMod,     \* 2^64, the modulus of size_t
  Requests     \* the request sizes the memtable issues

ASSUME ArenaAssumption ==
  /\ kAlignUnit \in Nat \ {0}
  /\ block_addr \in Nat /\ block_addr % kAlignUnit = 0  \* mappings are page aligned
  /\ block_sz \in Nat
  /\ SizeMod \in Nat /\ block_addr + block_sz < SizeMod
  \* no caller asks for a size within one alignment unit of 2^64
  /\ Requests \subseteq Nat \ {0}
  /\ \A bytes \in Requests : bytes + kAlignUnit < SizeMod

VARIABLES
  aligned_alloc_ptr_,      \* grows from the left end
  unaligned_alloc_ptr_,    \* shrinks from the right end
  alloc_bytes_remaining_,  \* what the arena believes is between the two
  exited,                  \* the process has called exit(-1)
  allocs,                  \* history: the number of calls that returned
  regions                  \* history: what they returned, numbered

ptrs == <<aligned_alloc_ptr_, unaligned_alloc_ptr_, alloc_bytes_remaining_>>
vars == <<ptrs, exited, allocs, regions>>

Region == [id : Nat, lo : Nat, bytes : Nat, aligned : BOOLEAN]

TypeOK ==
  /\ aligned_alloc_ptr_ \in Nat
  /\ unaligned_alloc_ptr_ \in Nat
  /\ alloc_bytes_remaining_ \in Nat
  /\ exited \in BOOLEAN
  /\ allocs \in Nat
  /\ regions \subseteq Region

-----------------------------------------------------------------------------

(* size_t addition of two sizes below SizeMod. *)
Plus(a, b) == IF a + b < SizeMod THEN a + b ELSE (a + b) - SizeMod

(* Mutant: an aligned address is rounded up too. *)
SlopRoundsUp(addr) == kAlignUnit - (addr % kAlignUnit)

(* The distance from an address to the next aligned one. *)
Slop(addr) ==
  LET current_mod == addr % kAlignUnit
  IN  IF current_mod = 0 THEN 0 ELSE kAlignUnit - current_mod

(* NVMArena::NVMArena: map the block and put the two pointers at its ends. *)
Init ==
  /\ aligned_alloc_ptr_ = block_addr
  /\ unaligned_alloc_ptr_ = block_addr + block_sz
  /\ alloc_bytes_remaining_ = block_sz
  /\ exited = FALSE
  /\ allocs = 0
  /\ regions = {}

(* NVMArena::AllocateFallback: exit(-1) is its first effect. *)
AllocateFallback ==
  /\ exited' = TRUE
  /\ UNCHANGED <<ptrs, allocs, regions>>

(* The history of the address a call returned to its caller. *)
Return(addr, bytes, isAligned) ==
  /\ allocs' = allocs + 1
  /\ regions' = regions \cup {[id |-> allocs, lo |-> addr, bytes |-> bytes,
                               aligned |-> isAligned]}
  /\ UNCHANGED exited

(* Mutant: the test is off by one. *)
AllocateOffByOne(bytes) ==
  /\ ~exited
  /\ \/ /\ bytes - 1 <= alloc_bytes_remaining_
        /\ unaligned_alloc_ptr_' = unaligned_alloc_ptr_ - bytes
        /\ alloc_bytes_remaining_' = alloc_bytes_remaining_ - bytes
        /\ UNCHANGED aligned_alloc_ptr_
        /\ Return(unaligned_alloc_ptr_', bytes, FALSE)
     \/ bytes - 1 > alloc_bytes_remaining_ /\ AllocateFallback

(* Mutant: the remaining bytes are not counted down. *)
AllocateForgetsRemaining(bytes) ==
  /\ ~exited
  /\ \/ /\ bytes <= alloc_bytes_remaining_
        /\ unaligned_alloc_ptr_' = unaligned_alloc_ptr_ - bytes
        /\ UNCHANGED <<alloc_bytes_remaining_, aligned_alloc_ptr_>>
        /\ Return(unaligned_alloc_ptr_', bytes, FALSE)
     \/ bytes > alloc_bytes_remaining_ /\ AllocateFallback

(* NVMArena::Allocate. *)
Allocate(bytes) ==
  /\ ~exited
  /\ \/ /\ bytes <= alloc_bytes_remaining_
        /\ unaligned_alloc_ptr_' = unaligned_alloc_ptr_ - bytes
        /\ alloc_bytes_remaining_' = alloc_bytes_remaining_ - bytes
        /\ UNCHANGED aligned_alloc_ptr_
        /\ Return(unaligned_alloc_ptr_', bytes, FALSE)
     \/ bytes > alloc_bytes_remaining_ /\ AllocateFallback

(* Mutant: the address before the slop is returned. *)
AllocateAlignedReturnsUnsloped(bytes) ==
  LET slop   == Slop(aligned_alloc_ptr_)
      needed == Plus(bytes, slop)
  IN  /\ ~exited
      /\ \/ /\ needed <= alloc_bytes_remaining_
            /\ aligned_alloc_ptr_' = aligned_alloc_ptr_ + needed
            /\ alloc_bytes_remaining_' = alloc_bytes_remaining_ - needed
            /\ UNCHANGED unaligned_alloc_ptr_
            /\ Return(aligned_alloc_ptr_, bytes, TRUE)
         \/ needed > alloc_bytes_remaining_ /\ AllocateFallback

(* NVMArena::AllocateAligned. *)
AllocateAligned(bytes) ==
  LET slop   == Slop(aligned_alloc_ptr_)
      needed == Plus(bytes, slop)
  IN  /\ ~exited
      /\ \/ /\ needed <= alloc_bytes_remaining_
            /\ aligned_alloc_ptr_' = aligned_alloc_ptr_ + needed
            /\ alloc_bytes_remaining_' = alloc_bytes_remaining_ - needed
            /\ UNCHANGED unaligned_alloc_ptr_
            /\ Return(aligned_alloc_ptr_ + slop, bytes, TRUE)
         \/ needed > alloc_bytes_remaining_ /\ AllocateFallback

Next == \E bytes \in Requests : Allocate(bytes) \/ AllocateAligned(bytes)

Spec == Init /\ [][Next]_vars

-----------------------------------------------------------------------------

End(r) == r.lo + r.bytes

(* No two calls are ever given overlapping memory, whatever the order of   *)
(* left-end and right-end allocations in nvm_arena.cc:64-103, and every    *)
(* region lies inside the mapped block.                                    *)
NoOverlap ==
  /\ \A r, s \in regions : r # s => End(r) <= s.lo \/ End(s) <= r.lo
  /\ \A r \in regions : block_addr <= r.lo /\ End(r) <= block_addr + block_sz

(* The assertion of nvm_arena.cc:101: what AllocateAligned returns is      *)
(* aligned, although requests of any size leave the left pointer unaligned.*)
AlignedResults == \A r \in regions : r.aligned => r.lo % kAlignUnit = 0

(* ApproximateMemoryUsage (nvm_arena.h:40), by which RocksDB decides when  *)
(* to flush the memtable.                                                  *)
ApproximateMemoryUsage == block_sz - alloc_bytes_remaining_

(* The bytes that the first n calls were given. *)
HandedOutBy[n \in 0..allocs] ==
  IF n = 0 THEN 0
  ELSE HandedOutBy[n - 1] + (CHOOSE r \in regions : r.id = n - 1).bytes

HandedOut == HandedOutBy[allocs]

(* ApproximateMemoryUsage never reports less than the bytes handed out,    *)
(* and exceeds them by less than one kAlignUnit for each aligned           *)
(* allocation, the slop of nvm_arena.cc:87.                                *)
UsageIsTight ==
  LET alignedCalls == Cardinality({r \in regions : r.aligned})
  IN  /\ HandedOut <= ApproximateMemoryUsage
      /\ ApproximateMemoryUsage <= HandedOut + (kAlignUnit - 1) * alignedCalls

(* The accounting that both fast paths test (nvm_arena.cc:70, 93) is       *)
(* exactly the gap between the two pointers.                               *)
RemainingIsGap ==
  /\ unaligned_alloc_ptr_ = aligned_alloc_ptr_ + alloc_bytes_remaining_
  /\ block_addr <= aligned_alloc_ptr_
  /\ unaligned_alloc_ptr_ <= block_addr + block_sz

(* Every region is on its own side of the gap: the strengthening under     *)
(* which NoOverlap is inductive.                                           *)
RegionsOutsideGap ==
  \A r \in regions : End(r) <= aligned_alloc_ptr_ \/ unaligned_alloc_ptr_ <= r.lo

=============================================================================
