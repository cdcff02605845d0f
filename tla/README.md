# A verification project for the NVM write cache of rocksdb-pmdk

The repository is an extension of RocksDB that keeps data in persistent memory
through PMDK: a write cache between the memtables and level 0 that stores
flushed chunks by key range, a persistent hash map that names the ranges, and
two allocators for memtables. This directory holds TLA+ models of its parts,
the TLC configurations that check them on small instances and TLAPS proofs for
every instance. `PROJECT.json` maps every definition to the lines it models.

## Inventory

| component | source | state | operations | what makes it correct |
|---|---|---|---|---|
| NVMArena | `nvm_arena.{h,cc}` | one mapped block, a pointer at each end, the remaining bytes | `Allocate`, `AllocateAligned`, `AllocateFallback` | regions are disjoint, inside the block and aligned; the usage it reports is tight |
| FixedRangeTab | `fixed_range_tab.{h,cc}` | persistent: `dataLen`, `seq_num_`, `buf`, `key_range_`; volatile: `blklist`, `in_compaction_`, `pendding_clean_` | constructor, `Append`, `CheckAndUpdateKeyRange`, `RebuildBlkList`, `SetCompactionWorking`, `CleanUp`, `SetExtraBuf` | a committed chunk stays indexed and readable; blocks lie end to end up to `dataLen`; a restart rebuilds the index |
| its search | `FixedRangeTab::Get`, `searchInChunk` | loop variables of type `size_t` | one call | the newest version of the key, and an end |
| ChunkBlk | `chunkblk.{h,cc}` | offset, bloom length, chunk length | `getDatOffset` | agrees with the layout that `Append` writes |
| NvRangeTab | `nv_range_tab.{h,cpp}` | the persistent half of a range | constructor, `hashCode` | |
| PersistentChunk, PersistentChunkIterator | `persistent_chunk*.{h,cc}` | decoded keys and values, `current_` | decoding constructor, `SeekTo`, `key`, `value` | decodes what the flush encoded |
| pmem_hash_map, header | `pmem_hash_map.h` | `tabLen_`, `tab_`, chains of `Node2` | `init`, `put`, `getAll` | a set that survives crashes |
| its driver | `tests/test_pmem_hash_map.cc` | the pool | create or open, allocate, `put`, `getAll` | a crash leaks at most one content |
| pmem_hash_map, source | `pmem_hash_map.cc` | the same with prefixes for keys | `putAndGet`, `getNode`, `get` | one node per prefix |
| FixedRangeChunkBasedNVMWriteCache | `fixed_range_chunk_based_nvm_write_cache.{h,cc}` | root object, `prefix2range`, `range_queue_` | constructor, `AppendToRange`, `NewRange`, `Get`, `MaybeNeedCompaction`, `RebuildFromPersistentNode` | initialised once, every prefix has one range, also after a restart |
| ConcurrentNVMArena | `concurrentnvmarena.{h,cc}` | shards with a mutex each, an arena with a mutex, cached counters | `AllocateImpl`, `Repick`, `Fixup` | regions of different threads are disjoint, counters agree under the lock, no deadlock |
| PersistentHashMap | `persistent_hash_map.{h,cpp}` | none: its operations have no bodies | `tableSizeFor` | |
| libpmemobj++, transactions | `pmdk-include/libpmemobj++/transaction.hpp`, `p.hpp`, `pext.hpp`, `allocator.hpp`, `make_persistent*.hpp` | the open scopes of a thread, the exception in flight, the library's stage, undo log and locks | `exec_tx`, `manual`, `automatic`, `abort`, `commit`, assignments, allocation | all or nothing for any nesting; the way a scope is left tells the outcome; the locks go with the scope |
| libpmemobj++, locks | `mutex.hpp`, `timed_mutex.hpp`, `shared_mutex.hpp`, `condition_variable.hpp`, `pool.hpp` | lock words in the pool, the run of the pool, waiting threads | `lock`, `try_lock*`, `unlock*`, `wait*`, `notify_*`, `create`, `open`, `close` | exclusion also after a restart, no lost wakeup, answers that hold on return |
| libpmemobj++, pointers | `persistent_ptr.hpp`, `detail/persistent_ptr_base.hpp`, `libpmemobj/base.h` | a pool id and an offset; each thread's cache of the last pool | arithmetic, comparison, conversion, `get` | the same object wherever the pool is mapped |
| other PMDK headers, `install/`, scripts, `main.cpp`, `ex_common.h`, `fixed_range_iterator.h` | | | | left aside: declarations of other libraries, a second copy, I/O, empty declarations |

Who calls whom. A flush builds a chunk (keys in order, bloom data) and calls
`AppendToRange`; the cache finds or creates the range of the chunk's prefix,
with a node in the persistent map, and calls `FixedRangeTab::Append`. A
compaction marks a range with `SetCompactionWorking`, drains it and calls
`CleanUp`. Readers call `Get`. The code has no lock between the three. After a
restart the cache walks the persistent map and builds a `FixedRangeTab` from
each node. All persistent state is written through `libpmemobj++`, which the
repository carries along and every structure above rests on: closures run as
transactions, `p<>` and `persistent_ptr<>` variables that log themselves, and
objects made in a transaction.

What is hard here: a transaction that covers one field while its body writes
plain memory and a volatile vector; `CleanUp` under a running `Append`; the
process dying at any step; unsigned counters that wrap; a map that is walked
while it grows; two ends of one block with one shared count; transactions that
nest and fail half way; lock words that outlive their process; pointers into a
pool that moves. The list with lines is in `PROJECT.json` under `hazards`.

### Readings of unfinished code

The repository is work in progress and parts of it do not compile. Where a
definition needs a reading, it is this one:

- `pmap_node_` is `nonVolatileTab_`, and `chunk_offset_` is `blklist`: older
  names of the same things.
- `blklist.emplace_back(cur_len, size)` in `Append` has lost the first argument
  of ChunkBlk's constructor, `chunk_bloom_bits_`, which `RebuildBlkList` passes.
- `newhead->seq_num_ = ?` in `putAndGet` is any member of the constant
  `InitSeqs`; `nv_range_tab.h:36` says 0, and 1 makes the model take the
  `rebuild` branch of the constructor as well.
- `count()` returns the number of keys, as its body does and its `void` does not.
- In `PmemHashMap`, `pmem_hash_map` is the template of the header. The functions
  of the same name in the `.cc` file belong to an earlier class, whose `putAndGet`
  is the one that the write cache calls: `WriteCache` models that one.
- The constructor of the cache reads `pinfo_->inited_` before it assigns
  `pinfo_`; the assignment is taken to come first.
- `FixedRangeTab(pop_, node, option)` is the constructor that exists, and
  `prefix2range` maps to pointers, as `NewRange` inserts them.
- `transaction::run`, which the code calls, is `exec_tx` in the headers that come
  with it.
- `ConcurrentNVMArena` has two allocators side by side: `AllocateImpl` of the
  header, with shards and locks, and the functions of the `.cc` file, which do not
  call it. `AllocateImpl` is modelled, with RocksDB's `Arena` for `arena_`.

## Modules

| module | models | uses |
|---|---|---|
| `NvmArena` | NVMArena | |
| `NvmArenaProofs` | its theorems | `NvmArena` |
| `RangeTab` | FixedRangeTab, NvRangeTab, ChunkBlk | |
| `ChunkSearch` | `Get` and `searchInChunk` | |
| `RangeTabProofs` | theorems of the range and of its search | `RangeTab`, `ChunkSearch` |
| `ContentSet` | abstract specification: a set of contents that only grows | |
| `PmemHashMap` | `pmem_hash_map.h` and its driver | `ContentSet` |
| `PmemHashMapProofs` | its theorems and the refinement | `PmemHashMap` |
| `WriteCache` | FixedRangeChunkBasedNVMWriteCache, PersistentAllocator, `putAndGet` of `pmem_hash_map.cc` | |
| `WriteCacheProofs` | its theorems | `WriteCache`, `ContentSet` |
| `ConcurrentArena` | `ConcurrentNVMArena::AllocateImpl`, `Repick`, `Fixup` | |
| `ConcurrentArenaProofs` | its theorems | `ConcurrentArena` |
| `ChunkIterator` | PersistentChunk and PersistentChunkIterator | `PmemOid` |
| `TxStore` | abstract specification: a store whose transactions take effect at once | |
| `PmemTx` | transactions, variables and allocation of libpmemobj++ | `TxStore` |
| `PmemTxProofs` | its theorems and the refinement | `PmemTx` |
| `PmemLocks` | locks, condition variable and pool of libpmemobj++ | |
| `PmemLocksProofs` | its theorems | `PmemLocks` |
| `PmemOid` | persistent pointers as operators | |
| `PersistentPtr` | a program that computes with them | `PmemOid` |
| `PersistentPtrProofs` | its theorems | `PersistentPtr` |
| `MC...` | values of the constants for TLC | one of the above |

**NvmArena.** Variables are the fields of the class and a history of the
regions handed out. `Allocate` and `AllocateAligned` are one action each, with a
disjunct for the request that does not fit, in which `exit(-1)` ends the
process before any of the code behind it. Sizes are added modulo `SizeMod`.

**RangeTab.** Lengths and addresses are counted in words of eight bytes, so
that each `EncodeFixed64` writes one. `buf` is the buffer and what lies behind
it, because nothing keeps `Append` inside. `Append` is a sequence of actions,
one for each statement another thread or a crash can come between: `AppendBegin`
(`cur_len` is read, the entry is made), `AppendBloom`, `AppendLen`,
`AppendData`, then `AppendAbort` or `AppendStore` and `AppendCommit`, and
`CheckAndUpdateKeyRange`. `AppendStore` logs the old `dataLen` and stores the new
one, which every thread sees at once; the transaction commits in a step of its
own, and `CleanUp`, which takes no lock and opens no transaction, may come between.
`CleanUp` is the assignment, `CleanUpRebuild` the call of `RebuildBlkList`, which
reads `dataLen` again and then runs one `RebuildStep` for each block. A `Crash`
can happen at any step: it empties what is volatile and undoes `dataLen`, which
is all that the transaction has logged, to its logged value even if a `CleanUp`
has written it since; the words that `memcpy` wrote remain. `live` is a history
variable: the blocks counted in `dataLen` since the last `CleanUp`, from the store
on and unless a rollback takes them back. Three things about the race with
`CleanUp`, which `src/README.md:38-39` names and leaves open, follow from the steps
and are in the model; no property forbids them, since nothing in the repository
says how they should end:

- a `CleanUp` between the store and the commit makes `Append` return normally for a
  chunk that is not counted any more, and the next `Append` writes over it;
- a crash at that place rolls `dataLen` back over the `CleanUp`, and the drained
  chunks are counted again;
- a `CleanUp` before the store is overwritten by it: `cur_len` is the old one, so
  that `dataLen` covers the drained chunks below the new block as well.

**ChunkSearch.** The state is the loop variables of the two functions. The list
of chunks and the key are chosen in `Init`; a chunk is its sequence of keys, not
empty and in order, as a flush writes it. `KeyMayMatch` is any filter without
false negatives. `Minus1` is subtraction in `size_t`, and an index past the end
of a vector makes `at` throw.

**PmemHashMap.** Nodes are numbered in the order of their allocation. `Create`,
`MapInit` and `Open` are the start of the program, with a crash possible between
the first two. `NewContent`, `Put`, `PutRun` and `PutCommit` are one turn of its
loop. What the transaction writes is visible at `PutRun` and undone by a crash
before `PutCommit`. `getAll` takes one step for each bucket and node. There is
one writer: two would lose updates (`pmem_hash_map.h:88`), and the program has
one. `ContentSet` is what the map promises; the refinement maps `stored` to the
contents on the chains that a crash would leave.

**WriteCache.** The layer above `RangeTab`, which is seen from outside here: an
`Append` commits or fails, a chunk is one unit of `dataLen`, a range made from a
node starts with an empty `blklist` (`seq_num_` is 0), and its constructor writes
a header over the first words of the node (`SetHeader`). `head` is what these words
hold: after a restart it is the header in place of the first chunk's own words. `Construct` opens the
pool, then `ConstructInit` runs the transaction that fills the root, or
`RebuildBegin`, `RebuildNode` and `RebuildBucket` walk the map. A flush is
`AppendToRange`, `PutAndGet`, `PutRun`, `NewRange`, `TabAppend`, and can be left
by an exception at each call (`AppendToRangeFails`). `MaybeNeedCompaction` runs
beside it, with a step for each range it visits (`VisitRange`) and one for the item
it queues (`PushItem`): a range inserted meanwhile may be visited or not, and a size
may be stale when it is queued. `Compact` runs beside both. `Ends` is a crash or the destructor, which leave the
same state. Nothing calls `PersistentAllocator::Allocate` in the repository: the
constant `AllocaSizes` is empty for the code as it is; with sizes in it the model
covers the rest of `MaybeNeedCompaction` too. There is one flush thread, since
nothing in the repository starts two or locks against it. `acked` is a history
variable, the chunks committed and not compacted.

**ConcurrentArena.** A call of `AllocateImpl` is cut where it takes or tries a
mutex and where it reads what others write without one. `tls_cpuid` starts
anywhere in `InitialCpuid`: it is static, so that a thread brings along what
another arena left in it. `arena_allocated_and_unused_` starts anywhere in
`Uninitialized`. RocksDB's `Arena` is external: fresh addresses, and the bytes
left in its block. `regions`, the memory returned, and `fresh`, whether all of
`tls_cpuid` was 0 at first, are history variables.

**ChunkIterator.** A chunk is a function from addresses to what is written
there, in the layout that the comment in the constructor draws; what lies around
it is unknown. The constructor reads the count, goes back to the offsets and then
takes one step for each pair. The moves of the iterator follow.

**PmemTx.** One variable `tx` is what the C library knows of a thread's
transaction: stage, nesting, undo log, reserved and released objects, locks. Its
calls are functions on that record (`TxBegin`, `TxAbort`, `TxCommit`, `TxEnd`,
`AddRange`), taken from the contract in `libpmemobj/tx_base.h`; a call in a stage
that forbids it is recorded in `misuse`. `scopes` is the stack of C++ scopes. A
body may do anything in any order: assign, swap, hand out a reference with
`get_rw`, allocate, free, abort, commit, throw, catch. Each library call may fail
(`Faults`), with what the code does then: `exec_tx` ends the transaction when a
lock cannot be added, the constructor of `manual` does not; `make_persistent`
frees the object of a constructor that threw, `destroy` ignores the answer. The
process may die at each step; `medium` is what has been flushed, and a line may
also leave the cache by itself (`Persist`). A body writes a cell only under the
lock that guards it, which is what the lock arguments are for. The refinement
maps `store` of `TxStore` to what recovery would find at that moment.

**PmemLocks.** A lock word carries the run of the pool in which it was written;
a word of an earlier run counts as free, which is how the C library reads it.
`mutex` and `timed_mutex` have the same word and share the model's. A blocking
call is two steps, entering and acquiring, or ends with a timeout or an
exception. `Waits` releases the mutex and registers the thread at once, as
`pmemobj_cond_wait` does; a waiter is woken by a notification, spuriously or by
its timeout, and has to get the mutex again. The pool is created, gets its root
and its locks in steps of their own, and is closed or lost at any time.

**PmemOid and PersistentPtr.** Offsets are counted modulo `Word`. Three variables
are moved through an array in every way the operators allow, while the pool is
closed, mapped elsewhere, or its process dies. `target` is a history variable,
what each pointer is meant to denote. The environment of `get` has the cache that
`pmemobj_direct_inline` keeps, which a lookup fills and a close invalidates.

## Runs

| run | bounds | shows |
|---|---|---|
| `nvm_arena` | block of 11 bytes, alignment 4, requests of 1, 2, 3 and 5 | no overlap, alignment, and `UsageIsTight` |
| `range_tab` | chunks of one and two words, 10 words of memory, 3 entries before an Append, 1 crash | `CommittedReadable`, `CommittedContiguous` |
| `range_tab_recovery` | the same or smaller | a restart does not index what was committed |
| `chunk_search` | at most 3 chunks over 4 keys, `size_t` of 4 bits | `FoundIsNewest`, `ThrowExplained`, `GetEnds` |
| `chunk_search_all` | at most 2 chunks over 3 keys | `Get` does not search all chunks |
| `write_cache` | 3 prefixes in one bucket of 2, two of them with one hash, 3 chunks, 2 crashes or failed calls, 1 queued item | `OneNodePerPrefix`, `CommittedReachable`, `GetSearchesAll`, `RebuildComplete`, `ConstructorEnds` |
| `concurrent_arena` | 2 threads, 2 shards, 4 calls of 1 to 3 bytes, inline block of 3, any `tls_cpuid` | `NoOverlap`, `AlignedFromShard`, `FreshReloads`, `CallsReturn` |
| `pmem_hash_map` | 4 contents of which 3 collide, 2 buckets, 2 crashes | refinement of `ContentSet`, `GetAllIsSnapshot`, `LeaksBounded`, `GetAllEnds` |
| `pmem_tx` | 2 threads, 2 cells under 1 lock, 1 object, 3 nested scopes, 4 operations, 1 failed call, 1 death | refinement of `TxStore`, `LeftTellsOutcome`, `ReleasedUnlessLeaked`, `ScopesRespectStages` |
| `pmem_locks` | 3 threads, 1 mutex, 1 shared mutex, 1 condition variable, 2 runs of the pool, deadlines before, at and after the epoch | `Exclusion`, `AnswerIsCurrent`, `NoLostWakeup` |
| `persistent_ptr` | 3 pointers, 4 objects of 3 bytes, 2 places for the pool, 2 closes in a process, addresses of 8 bits | `DenotesTarget`, `ComparesLikeIndexes` |
| `chunk_layout` | chunks of up to two pairs | the constructor of the iterator does not read the layout it documents |

Why the bounds are enough. In the arena the block is not a multiple of the
alignment and the requests hit, miss and exceed it, so that every remainder of
the left pointer meets every size of the gap. In the range three appends fit,
which is one more than an interleaving with one `CleanUp` needs: one before, one
during, one after. In the search, three chunks give a newest, a middle and an
oldest, four keys give chunks with all shapes of bisection of up to two probes
and keys below, between and above. In the map three colliding contents give a
chain with a head, a middle and an end, and the second crash meets what the
first one left behind. In the cache three prefixes give a chain in which two nodes
differ only in their prefix, three chunks let a prefix be used again after each
failure, and the second failure meets a rebuilt process. In the concurrent arena
two threads meet at each mutex and one shard more lets them pass each other; four
calls are enough to leave the inline block, load a shard, cut it at both ends and
load it again; 3 bytes is larger than a quarter of a shard's block and goes to
the arena. With transactions the third scope is one that is neither innermost nor
outermost, and the four operations of all threads are spent on scopes and bodies
alike: three scopes and one write, or two threads that each open a scope and write
in it. Two cells tell a whole transaction from half of one. The one failure can be any call at
any place, and the one death can follow it. With three threads a notification
has to choose between two waiters while the third one changes the flag; the second
run of the pool meets every state of a lock word that the first one left. Three
pointers give a source, a result and a third value in one assignment, four
elements give differences of both signs and a zero, and a size of three bytes does
not divide the word.

`CHECK_DEADLOCK FALSE` appears where the system may rest: the arena when the
process has exited, the search when `Get` has returned, the write cache when all
`MaxChunks` chunks are appended and nothing is to be compacted, the concurrent
arena when all `MaxAllocs` calls have returned; transactions when the bounds are
used up or two bodies wait for each other's locks, which the layer does not
prevent (locks are taken in the order in which the caller names them); the locks
when the last run of the pool is over. `CallsReturn` is what rules out a
real deadlock in the concurrent arena.

### Fairness

`ChunkSearch!FairSearchSpec` is weak fairness of the one thread that runs `Get`, and
`PmemHashMap!FairSpec` of the thread that runs `getAll`. Neither function
blocks, so that a running thread takes its next step. Nothing is assumed of the
writers or of compactions.

`WriteCache!FairSpec` is weak fairness of the constructor, which does not block
either. `ConcurrentArena!FairSpec` is weak fairness of each thread inside
`AllocateImpl`. `SpinMutex` promises no more than that, and a thread could be
passed over for ever by an endless stream of others; the bound on the calls makes
contention finite, so `CallsReturn` is about deadlock and not about starvation.

`PmemLocks!Spec` assumes one thing: a thread that has changed `ready` does call
`notify_all`, which is the discipline of a program with a condition variable. No
lock, scheduler or timeout is assumed to be fair; `NoLostWakeup` therefore says
that a waiter leaves the condition variable, not that it gets the mutex.

### What the runs found

- `Recovered`: `seq_num_` is never advanced, so a restarted process takes every
  range for a new one, overwrites two words of its first chunk and indexes
  nothing. `freqUpdateInfo::update`, which would advance it, has no caller.
- `SearchesAll`: when the filter of a chunk matches falsely and all keys of the
  chunk are larger than the searched one, `right` wraps and `at` throws. `Get` ends
  there, although an older chunk may hold the key.
- `ReadsLayout`: the constructor of `PersistentChunkIterator` goes back 16 bytes
  for each offset of 8, and so starts in front of the offsets.

Each finding quotes the line it contradicts in `PROJECT.json`. What else the code
shows, and needs no run:

- the test of the capacity in `Append` has an empty body, and the data outgrows
  the buffer (`fixed_range_tab.cc:90`);
- `CheckAndUpdateKeyRange` builds a range and drops it (`fixed_range_tab.cc:176`);
- `RebuildBlkList` does not clear `blklist`, so that the entries of the drained
  chunks stay after a `CleanUp` and are read by `Get` and `NewInternalIterator`,
  although `fixed_range_tab.h:172` has `CleanUp` reset the statistics and the bloom
  filters;
- the loop of `Get` does not end by its condition: for a key that no chunk holds
  `at` throws (`fixed_range_tab.cc:200`); `ThrowExplained` says when, and names the
  false positive of `SearchesAll` as the only other case;
- a thread that has repicked in one arena goes straight to a shard of the next
  one and compares a counter that was never set (`concurrentnvmarena.h:84`);
  `FreshReloads` has the condition under which the assertion holds;
- the first `Append` of a range writes over the two words that the layout comment
  (`fixed_range_tab.cc:263-271`) puts in front of the first chunk;
- `MaybeNeedCompaction` watches an allocator that nothing allocates from, so that
  a full range is never queued; it would choose the last range with data that it
  visits and not the largest, since `max_range_size` stays 0
  (`fixed_range_chunk_based_nvm_write_cache.cc:139`);
- the public `Allocate` of `ConcurrentNVMArena` takes no lock and cuts from fields
  of the class, so that two threads can be given the same bytes
  (`concurrentnvmarena.cc:113`);
- the iterator's `current_` has no value before the first seek;
- in libpmemobj++: a failed `pmemobj_tx_begin` is never followed by the
  `pmemobj_tx_end` that `tx_base.h:145` asks for, and the constructor of `manual`
  keeps transaction and locks when a lock cannot be added, which is why
  `ReleasedUnlessLeaked` excepts the threads in `leaked`;
- `make_persistent` frees the object of a constructor that threw with
  `pmemobj_tx_free` (`make_persistent.hpp:91`). If the constructor threw because a
  call of its own had aborted the transaction, the stage is ONABORT, and
  `tx_base.h:297` says that the function "must be called during TX_STAGE_WORK".
  The model reaches this and records it in `misuse`; `ScopesRespectStages` is about
  the other calls, those of the scopes;
- `object_traits::destroy` logs `sizeof(p)` bytes, the size of the pointer and not
  of the object (`allocator.hpp:143`);
- a point in time before the epoch becomes a `timespec` with negative nanoseconds,
  so that a timed call throws where it should time out (`detail/conversions.hpp:63`);
- the difference of two pointers is wrong when it is negative: `d / sizeof(T)`
  divides without a sign, and the result is too large by `2^64 / sizeof(T)`
  (`persistent_ptr.hpp:610`), where lines 596-598 promise the difference "in terms of
  represented objects". `ComparesLikeIndexes` says nothing of negative differences.
  A null pointer converted to a base at an offset
  equals `nullptr` but no null pointer (`detail/persistent_ptr_base.hpp:127`);
- the copies of a `pool_base` share a handle, and closing two of them closes the
  pool twice.

## Proofs

All theorems are proved for every value of the constants that meets the
assumption named in the module (`ArenaAssumption`, `RangeTabAssumption`,
`SearchAssumption`, `MapAssumption`, `CacheAssumption`, `ConcurrentAssumption`, `TxAssumption`,
`LocksAssumption`, `PtrAssumption`); TLC evaluates each of them in a run. The
bounds on crashes, calls and chunks are constants as well, so a theorem holds for
any finite number of them. In each module an inductive invariant (`IInv`; also
`SearchInv` in `RangeTabProofs` and `MInv` in `ConcurrentArenaProofs`, for their
second halves) is shown to hold at first and to survive every action, with one
lemma for each action, and the theorems follow from it.

- **NvmArenaProofs.** `NeverOverlaps`, `AlwaysAligned`, `ArenaTypeCorrect` and
  `UsageStaysTight`.
  Disjointness is not inductive alone: a new region is known to be apart from the
  old ones only because the old ones lie outside the gap between the two pointers
  and the remaining count is that gap. `RemainingIsGap` and `RegionsOutsideGap`
  say so. `UsageStaysTight` compares the reported usage with a sum over the calls:
  `Numbered` has one region for each call, `SumExists` and `SumsAgree` show that the
  sum is well defined and that a call adds its bytes to it, by a least
  counterexample in place of induction.
- **RangeTabProofs.** `TypeCorrect`, `CommittedStaysReadable` and
  `CommittedStaysContiguous`. The strengthening says that the blocks counted by the
  present process end at or below `dataLen` (`Below`) and, while an Append copies, at
  or below its `cur_len`, whatever a `CleanUp` has done to `dataLen` (`InProgress`);
  so the words that an Append writes belong to no counted block, and each block has
  its entry in `blklist` from before it is counted. Both theorems speak of a block
  from the store of `dataLen` on, through the commit, up to the store of a `CleanUp`. `CommittedStaysReadable` has the hypothesis
  `chunk_bloom_bits_ = CHUNK_BLOOM_FILTER_LEN`: `Append` writes by one and
  readers skip by the other, and the code does nothing to make them equal.
- **RangeTabProofs, the search.** `GetFindsNewest`, `GetThrowsOnlyThere` and
  `SearchTypeCorrect`. Two invariants carry them: no chunk newer than `i` holds
  the key (`Passed`), and a key in the searched chunk is inside the window from
  `left` to `right` (`Window`), which also shows that `right` can wrap only when
  the key is smaller than all keys of the chunk.
- **PmemHashMapProofs.** `MapImplementsContentSet`, `GetAllSeesSnapshot`,
  `LeaksStayBounded` and `MapTypeCorrect`. `WellLinked` says of nodes and bucket
  heads that a node is linked to the node before it in its bucket, that the last
  one is the head, and that contents are distinct. It holds of the map as it is and
  of the map that a crash would leave: `Grown` and `Shrunk` carry it over the
  transaction of `put` and over its undoing. For that `Putting` has what `put` reads
  before its transaction and uses inside: the head is still the head, and the
  content is in no node yet. `ChainIs` reads the recursive `ChainOf`, by a least
  counterexample, and `StoredIs` concludes that the map holds the contents of all
  durable nodes. The refinement follows, since only a commit makes a node durable.
  `Scanning` is for `getAll`: it has passed the buckets below `i` and, in bucket `i`,
  the nodes newer than `node` (`Passed`); `contentVec` has no content twice, only
  contents of passed nodes, and of these all that were stored at the call. A `put`
  in a bucket that is still to come makes `contentVec` longer, one in a bucket that
  was passed does not, and both keep `Scanning`. `LeaksBounded` is inductive
  once the content of an unfinished put is known to be allocated and not stored
  (`InFlight`): its commit takes away one leak, a death turns it into one for good.
- **WriteCacheProofs.** `PrefixHasOneNode`, `CommittedStaysReachable`,
  `GetFindsAll`, `RebuildIsComplete` and `CacheTypeCorrect`, for any prefixes, hash function and number of buckets. What
  the chains hold is defined by a recursive function; `ChainIs` shows that the
  chain from a node on is every older node of its bucket. That is an induction
  over data, done here without the library's induction theorems: a least node for
  which it fails is taken (`LeastNumber`), and its successor contradicts it. The
  invariant about the map (`MapInv`) is that a node is linked to the node before
  it in its bucket (`Linked`), that the last one is the head (`Heads`), and that
  prefixes are distinct. Around it: `Pointers`, what a process has before it is up
  (`Phases`), what `AppendToRange` may still rely on between its steps
  (`Flushing`: a prefix that had no node when `putAndGet` looked has none when it
  commits), where committed chunks are (`Committed`: on the node, and with the
  node's first words unless an earlier process stored it), and how far the rebuild has
  come (`Rebuilding`: all buckets below `loop.i`, and in that bucket the nodes newer
  than `loop.tmp`). `Scanning` is for `CacheTypeCorrect`: what the loop of
  `MaybeNeedCompaction` has before it and remembers exists. `CommittedStaysReachable`
  promises a chunk whole only to the process that committed it. A restart writes the
  header over the first chunk of each node, the damage that `Recovered` shows; the
  theorem says that it reaches no other chunk and that all stay on their node.
  `MapIsContentSet` is the refinement: the prefixes on the chains
  are a `ContentSet`, which changes in `putAndGet`'s transaction and nowhere else.
- **ConcurrentArenaProofs.** `AssertionNeverFails`: the assertion of `AllocateImpl`
  holds in every arena that was made when `tls_cpuid` was 0 in all threads. The
  invariant `BeforeFixup` says what holds while the copied counter differs from the
  arena's own: all shards are empty, no thread has reloaded one, and unless some
  thread holds the arena's mutex none has repicked or is on its way to a shard. So
  the first thread past the mutex is one that allocates from the arena and calls
  `Fixup`. `ConcurrentNeverOverlaps`, `ShardsServeAligned` and
  `ConcurrentTypeCorrect` need no such condition. Their invariant follows the
  stretch that each shard owns, which is `avail` of the thread inside it between
  the read of `allocated_and_unused_` and the write, and the field otherwise
  (`Left`): regions and stretches are pairwise apart and below what the arena has
  given out (`Memory`). It survives because a thread is in a shard exactly while it
  holds its mutex (`Holders`) and takes no more than it has read (`Enough`).
- **PmemTxProofs.** `TransactionsAreAtomic`: `PmemTx` implements `TxStore`, for any
  nesting, failed calls, exceptions, orders of write-back and deaths of the
  process. `LeavingTellsOutcome`, `ReleasedAtEnd`, `ScopesAlwaysRespectStages` and
  `TxTypeCorrect` come from the same invariant, whose core is that the library's
  count of nested transactions is the number of scopes, or one more in a thread of
  `leaked` (`Matches`), that a failed transaction stays in stage ONABORT until its
  last scope is left (`Failed`), and that one that is over has nothing to undo
  (`Finished`). For atomicity two more parts are needed: a thread's undo log has
  only cells whose lock it holds (`GuardedUndo`), and two threads share no lock, no
  new and no deleted object (`Disjoint`). Hence a cell is in at most one undo log,
  `Recovery` can say what a cell holds after recovery, and an action changes that
  for all cells of one thread at its outermost commit and never otherwise.
- **PmemLocksProofs.** `ExclusionHolds`, `AnswerStaysCurrent`, `LocksTypeCorrect`.
  What a thread has been told is compared with lock words that outlive it. The
  strengthening: no word is of a run still to come (`WordsOfPast`), so that a new
  run finds all of them free; nobody holds anything before the locks are constructed
  or while the pool is closed (`Quiet`), nor inside a blocking call
  (`BusyHoldsNothing`); and a writer is alone in its word (`WriterAlone`).
- **PersistentPtrProofs.** `PointersDenoteTargets`, `ComparisonsFollowIndexes` and
  `PtrTypeCorrect`, for every word size, layout of the array and set of places of
  the pool. The invariant is that a pointer is the canonical representation of
  its target (`Represents`) and that a cache entry that counts as many closed
  pools as there are is of the pool that is open now (`CacheFits`). The proof
  needs that no array has more bytes than a `ptrdiff_t` can say
  (`Count * Size < Word \div 2` of `PtrAssumption`), as C++ has it. The size of an
  object is any positive number; differences are proved exact when they are not
  negative.

Every invariant, action property and refinement that a passing run checks is also
a theorem. Model-checked only: liveness, `GetEnds`, `GetAllEnds`,
`ConstructorEnds`, `CallsReturn` and `NoLostWakeup`, since the prover does not
handle fairness.

## Not modelled, and the plan

Order of the work that is left:

1. `SetExtraBuf` and the second buffer of a range, once something calls it; the
   files of the arenas over restarts (`map_file_idx`).
2. `WriteCache` with two flush threads, to show what the missing lock costs, and a
   composition of it with `RangeTab` in place of its outside view.

How much of the code this is. `PROJECT.json` maps the lines that the definitions
translate. `pmdk-include/libpmemobj++/install/` is a second copy of libpmemobj++,
identical byte for byte: a third of all lines of the repository. The models are
mapped to the first copy, the one that an include path to `pmdk-include` finds,
and hold for the second; its lines are not mapped. Of the rest, what is not
mapped is license text, declarations and traits, and the headers of C libraries
whose code is elsewhere.

Left out for good, or until the code says more:

- Power failure, except in `PmemTx`. The other models cover the death of the
  process, in which stores survive. That `memcpy` into the buffer is neither
  flushed nor logged, and that `CleanUp` stores `dataLen` without flushing it, can
  show after a power failure only; the first is listed as a hazard.
- `Allocate`, `AllocateAligned`, `AllocateFallback` and `AllocateNewBlock` of
  `concurrentnvmarena.cc`. They work, without a lock, on a second set of block fields
  (`concurrentnvmarena.h:163-166`) beside the shards and the arena. In one thread
  `Allocate` is the algorithm that `NvmArena` models; with more there is no
  exclusion to verify. `AllocateAligned` (`alloc_ptr_`, `AllocateFallback` with one
  argument) and `AllocateNewBlock` (`blocks_`, `blocks_memory_`, `tracker_`) use names
  that the class does not declare, and `AllocateFromHugePage` has no body.
- A thread that takes a shared mutex twice. `shared_mutex.hpp:115-117` allows a
  recursive `lock_shared`; the readers of `PmemLocks` are a set, and its client does
  not lock what it holds.
- The compaction job, which is not in this repository. That a chunk appended
  while a range is drained is lost by `CleanUp` depends on what the job reads.
- What two simultaneous `emplace_back` calls do to a `std::vector`.
- `Release` (empty), `ConsistencyCheck` (no caller), `PersistentHashMap` (no
  bodies), the C headers of PMDK and its other libraries, `detail/life.hpp` and
  the traits, scripts. The library below `pmemobj_tx_*`, `pmemobj_mutex_*` and
  `pmemobj_oid` is not in the repository: its contract is in the models and marked
  external.
