----------------------------- MODULE WriteCache -----------------------------
(***************************************************************************)
(* FixedRangeChunkBasedNVMWriteCache with the persistent map of its ranges *)
(* (fixed_range_chunk_based_nvm_write_cache.h and .cc, pmem_hash_map.cc).  *)
(* The constructor creates or opens the pool and initialises the root      *)
(* object or rebuilds prefix2range from the nodes of the map; a flush      *)
(* thread appends chunks, a background thread looks for a range to compact *)
(* and compacts the front of the queue, with no lock between the two.  The *)
(* process may die at any step.                                            *)
(*                                                                         *)
(* A range is the module RangeTab, seen from outside: an Append commits or *)
(* fails, and every chunk counts as one unit of dataLen.  Nodes and ranges *)
(* are numbered in the order of their allocation; 0 is the null pointer.   *)
(* head is what was written last to the first words of a node's buf, where *)
(* both the header of a FixedRangeTab and the first chunk go.              *)
(***************************************************************************)
EXTENDS Integers, Sequences, Functions

CONSTANTS
  Prefixes,     \* key prefixes
  CityHash,     \* CityHash64WithSeed of each of them
  TabLen,       \* tabLen of the map
  Capacity,     \* pmem_size, the total_size_ of PersistentAllocator
  AllocaSizes,  \* what is asked of PersistentAllocator
  MaxUint64,    \* the largest uint64_t
  Uninitialized,\* what an uninitialized uint64_t may hold
  MaxChunks,    \* bound: chunks the flush thread appends
  MaxFailures,  \* bound: crashes, closings and failed calls
  MaxQueue      \* bound: items that are queued

ASSUME CacheAssumption ==
  /\ CityHash \in [Prefixes -> Nat] /\ TabLen \in Nat \ {0}
  /\ AllocaSizes \subseteq Nat /\ Uninitialized \subseteq Nat
  /\ Capacity \in Nat /\ MaxUint64 \in Nat /\ Capacity <= MaxUint64
  /\ MaxChunks \in Nat /\ MaxFailures \in Nat /\ MaxQueue \in Nat

VARIABLES
  \* persistent: the pool file, PersistentInfo, the nodes, the bucket heads,
  \* and cur_ of PersistentAllocator
  pool, inited_, nodes, tab, cur_,
  \* VolatileInfo, and the FixedRangeTab objects it points to
  prefix2range, range_queue_, ranges,
  \* the process, and the loop variables of RebuildFromPersistentNode
  process, loop,
  \* the flush thread: where it is, its prefix and chunk, node or head, range
  flush,
  \* the loop of MaybeNeedCompaction: the prefixes it has still to visit, its
  \* pendding_range and the size in pendding_range_usage
  scan,
  failures, chunks,
  \* history: the chunks committed and not compacted, and whether this
  \* process has committed them
  acked

persistent == <<pool, inited_, nodes, tab, cur_>>
vinfo_     == <<prefix2range, range_queue_, ranges>>
vars == <<persistent, vinfo_, process, loop, flush, scan, failures, chunks, acked>>

Null == 0
Buckets == 0..(TabLen - 1)
NoPrefix == "none"
Idle == [at |-> "idle", prefix |-> NoPrefix, chunk |-> 0, node |-> Null, range |-> Null]
NoLoop == [i |-> 0, tmp |-> Null]
NoScan == [at |-> "idle", left |-> {}, range |-> Null, range_size_ |-> 0]

NodeId  == 0..Len(nodes)
RangeId == 0..Len(ranges)

TypeOK ==
  /\ pool \in BOOLEAN /\ inited_ \in BOOLEAN
  /\ nodes \in Seq([hash_ : Nat, prefix_ : Prefixes, next : Nat, data : Seq(1..MaxChunks),
                     head : {"unwritten", "header", "chunk"}])
  /\ tab \in [Buckets -> NodeId] /\ cur_ \in Nat
  /\ prefix2range \in [Prefixes -> RangeId]
  /\ range_queue_ \in Seq([range : RangeId, range_size_ : Nat])
  /\ ranges \in Seq([node : NodeId \ {Null}, blklist : Seq(1..MaxChunks)])
  /\ process \in {"down", "opened", "rebuilding", "up"}
  /\ loop \in [i : 0..TabLen, tmp : NodeId]
  /\ flush.at \in {"idle", "putAndGet", "run", "NewRange", "Append"}
  /\ flush.node \in NodeId /\ flush.range \in RangeId
  /\ scan \in [at : {"idle", "loop"}, left : SUBSET Prefixes, range : RangeId,
               range_size_ : Nat]
  /\ failures \in 0..MaxFailures /\ chunks \in 0..MaxChunks
  /\ acked \subseteq [prefix : Prefixes, chunk : 1..MaxChunks, here : BOOLEAN]

-----------------------------------------------------------------------------
(* Process, constructor and destructor.                                    *)

NoRanges == [p \in Prefixes |-> Null]

Init ==
  /\ pool = FALSE /\ inited_ = FALSE /\ nodes = <<>>
  /\ tab = [b \in Buckets |-> Null] /\ cur_ = 0
  /\ prefix2range = NoRanges /\ range_queue_ = <<>> /\ ranges = <<>>
  /\ process = "down" /\ loop = NoLoop /\ flush = Idle /\ scan = NoScan
  /\ failures = 0 /\ chunks = 0 /\ acked = {}

(* The constructor: the pool is created or opened; a new root is zero.     *)
Construct ==
  /\ process = "down" /\ process' = "opened" /\ pool' = TRUE
  /\ UNCHANGED <<inited_, nodes, tab, cur_, vinfo_, loop, flush, scan, failures, chunks,
                 acked>>

(* PersistentAllocator's constructor                                       *)
NewAllocator == cur_' = 0

(* Mutant: the flag is not set. *)
ConstructInitForgetsFlag ==
  /\ process = "opened" /\ ~inited_
  /\ tab' = [b \in Buckets |-> Null] /\ NewAllocator
  /\ process' = "up"
  /\ UNCHANGED <<pool, inited_, nodes, vinfo_, loop, flush, scan, failures, chunks, acked>>

(* The transaction that fills the root: a new map, a new allocator.        *)
ConstructInit ==
  /\ process = "opened" /\ ~inited_
  /\ tab' = [b \in Buckets |-> Null] /\ NewAllocator /\ inited_' = TRUE
  /\ process' = "up"
  /\ UNCHANGED <<pool, nodes, vinfo_, loop, flush, scan, failures, chunks, acked>>

(* RebuildFromPersistentNode is called, ...                                *)
RebuildBegin ==
  /\ process = "opened" /\ inited_
  /\ process' = "rebuilding" /\ loop' = [i |-> 0, tmp |-> tab[0]]
  /\ UNCHANGED <<persistent, vinfo_, flush, scan, failures, chunks, acked>>

(* The header cur_, seq_ is written over the first words of a node's buf,  *)
(* whatever is stored there.                                               *)
SetHeader(n) == nodes' = [nodes EXCEPT ![n].head = "header"]

(* Mutant: the new range is not kept. *)
NewTabNotKept(n) == UNCHANGED ranges /\ SetHeader(n)

(* FixedRangeTab::FixedRangeTab on a node: seq_num_ is 0, so the header is *)
(* written, and blklist is empty.                                          *)
NewTab(n) == /\ ranges' = Append(ranges, [node |-> n, blklist |-> <<>>])
             /\ SetHeader(n)

(* Mutant: only the head of a chain is rebuilt. *)
RebuildNodeHeadOnly ==
  /\ process = "rebuilding" /\ loop.tmp # Null
  /\ NewTab(loop.tmp)
  /\ prefix2range' = [prefix2range EXCEPT ![nodes[loop.tmp].prefix_] = Len(ranges) + 1]
  /\ loop' = [loop EXCEPT !.tmp = Null]
  /\ UNCHANGED <<pool, inited_, tab, cur_, range_queue_, process, flush, scan, failures,
                 chunks, acked>>

(* ... each node of a chain gets its range ...                             *)
RebuildNode ==
  /\ process = "rebuilding" /\ loop.tmp # Null
  /\ NewTab(loop.tmp)
  /\ prefix2range' = [prefix2range EXCEPT ![nodes[loop.tmp].prefix_] = Len(ranges) + 1]
  /\ loop' = [loop EXCEPT !.tmp = nodes[loop.tmp].next]
  /\ UNCHANGED <<pool, inited_, tab, cur_, range_queue_, process, flush, scan, failures,
                 chunks, acked>>

(* Mutant: an empty bucket is not stepped over. *)
RebuildBucketStays ==
  /\ process = "rebuilding" /\ loop.tmp = Null
  /\ \/ loop.i + 1 < TabLen /\ UNCHANGED <<loop, process>>
     \/ loop.i + 1 = TabLen /\ loop' = NoLoop /\ process' = "up"
  /\ UNCHANGED <<persistent, vinfo_, flush, scan, failures, chunks, acked>>

(* ... and the next bucket is taken, until there is none.                  *)
RebuildBucket ==
  /\ process = "rebuilding" /\ loop.tmp = Null
  /\ \/ /\ loop.i + 1 < TabLen
        /\ loop' = [i |-> loop.i + 1, tmp |-> tab[loop.i + 1]]
        /\ UNCHANGED process
     \/ loop.i + 1 = TabLen /\ loop' = NoLoop /\ process' = "up"
  /\ UNCHANGED <<persistent, vinfo_, flush, scan, failures, chunks, acked>>

Fails == failures < MaxFailures /\ failures' = failures + 1

(* The process ends, by a crash at any step or by the destructor, which    *)
(* frees vinfo_ and closes the pool.  An open transaction leaves nothing.  *)
Ends ==
  /\ process # "down" /\ Fails
  /\ process' = "down" /\ loop' = NoLoop /\ flush' = Idle /\ scan' = NoScan
  /\ prefix2range' = NoRanges /\ range_queue_' = <<>> /\ ranges' = <<>>
  /\ acked' = {[a EXCEPT !.here = FALSE] : a \in acked}
  /\ UNCHANGED <<persistent, chunks>>

-----------------------------------------------------------------------------
(* The flush thread: AppendToRange.                                        *)

FlushFrame == UNCHANGED <<pool, inited_, cur_, range_queue_, process, loop>>

(* prefix2range.find: the range is known, or NewRange is called.           *)
AppendToRange(prefix) ==
  /\ process = "up" /\ flush.at = "idle" /\ chunks < MaxChunks
  /\ chunks' = chunks + 1
  /\ \/ /\ prefix2range[prefix] # Null
        /\ flush' = [Idle EXCEPT !.at = "Append", !.prefix = prefix, !.chunk = chunks + 1,
                                 !.range = prefix2range[prefix]]
     \/ /\ prefix2range[prefix] = Null
        /\ flush' = [Idle EXCEPT !.at = "putAndGet", !.prefix = prefix, !.chunk = chunks + 1]
  /\ UNCHANGED <<nodes, tab, prefix2range, ranges, scan, failures, acked>> /\ FlushFrame

(* The nodes of a chain, from a node on; a node is linked to an older one. *)
ChainFrom[n \in NodeId] ==
  IF n = Null THEN {}
  ELSE {n} \cup (IF nodes[n].next < n THEN ChainFrom[nodes[n].next] ELSE {})

bucket == CityHash[flush.prefix] % TabLen

(* Mutant: the strings are compared by address. *)
FoundByAddress == {}

(* Mutant: the prefixes are not compared. *)
FoundByHashOnly ==
  {n \in NodeId \cap ChainFrom[tab[bucket]] : nodes[n].hash_ = CityHash[flush.prefix]}

(* The nodes that putAndGet's loop stops at. *)
Found ==
  {n \in NodeId \cap ChainFrom[tab[bucket]] :
     /\ nodes[n].hash_ = CityHash[flush.prefix]
     /\ nodes[n].prefix_ = flush.prefix}

(* putAndGet up to its transaction: the prefix has a node, or has none and *)
(* the head of its bucket is remembered.                                   *)
PutAndGet ==
  /\ flush.at = "putAndGet"
  /\ \/ \E n \in Found :
          /\ \A m \in Found : m <= n
          /\ flush' = [flush EXCEPT !.at = "NewRange", !.node = n]
     \/ /\ Found = {}
        /\ flush' = [flush EXCEPT !.at = "run", !.node = tab[bucket]]
  /\ UNCHANGED <<nodes, tab, prefix2range, ranges, scan, failures, chunks, acked>> /\ FlushFrame

NewNode(next) ==
  [hash_ |-> CityHash[flush.prefix], prefix_ |-> flush.prefix, next |-> next, data |-> <<>>,
   head |-> "unwritten"]

(* Its transaction. *)
PutRun ==
  /\ flush.at = "run"
  /\ nodes' = Append(nodes, NewNode(flush.node))
  /\ tab' = [tab EXCEPT ![bucket] = Len(nodes) + 1]
  /\ flush' = [flush EXCEPT !.at = "NewRange", !.node = Len(nodes) + 1]
  /\ UNCHANGED <<prefix2range, ranges, scan, failures, chunks, acked>> /\ FlushFrame

(* NewRange: the range is made and inserted, in front of the iterator of   *)
(* the loop in MaybeNeedCompaction or behind it.                           *)
NewRange ==
  /\ flush.at = "NewRange"
  /\ NewTab(flush.node)
  /\ prefix2range' = [prefix2range EXCEPT ![flush.prefix] = Len(ranges) + 1]
  /\ flush' = [flush EXCEPT !.at = "Append", !.range = Len(ranges) + 1]
  /\ \/ UNCHANGED scan
     \/ scan.at = "loop" /\ scan' = [scan EXCEPT !.left = @ \union {flush.prefix}]
  /\ UNCHANGED <<tab, failures, chunks, acked>> /\ FlushFrame

Indexed(r) == [ranges EXCEPT ![r].blklist = Append(@, flush.chunk)]

(* FixedRangeTab::Append commits: the chunk is indexed and stored, the     *)
(* first one over the header.                                              *)
TabAppend ==
  LET n == ranges[flush.range].node
  IN  /\ flush.at = "Append" /\ flush' = Idle
      /\ ranges' = Indexed(flush.range)
      /\ nodes' = [nodes EXCEPT ![n].data = Append(@, flush.chunk),
                                ![n].head = IF nodes[n].data = <<>> THEN "chunk" ELSE @]
      /\ acked' = acked \cup {[prefix |-> flush.prefix, chunk |-> flush.chunk, here |-> TRUE]}
      /\ UNCHANGED <<tab, prefix2range, scan, failures, chunks>> /\ FlushFrame

(* A call fails and its exception leaves AppendToRange: persistent memory  *)
(* or the heap is exhausted, or Append's transaction aborts, which leaves  *)
(* its entry in blklist.                                                   *)
AppendToRangeFails ==
  /\ flush.at \in {"run", "NewRange", "Append"} /\ flush' = Idle /\ Fails
  /\ ranges' = IF flush.at = "Append" THEN Indexed(flush.range) ELSE ranges
  /\ UNCHANGED <<nodes, tab, prefix2range, scan, chunks, acked>> /\ FlushFrame

-----------------------------------------------------------------------------
(* Choosing a range and compacting it.                                     *)

CompactFrame == UNCHANGED <<pool, inited_, tab, prefix2range, process, loop, flush,
                            failures, chunks>>

(* PersistentAllocator.  Nothing in the repository calls Allocate yet:     *)
(* AllocaSizes is empty for the code as it is, and otherwise stands for a  *)
(* caller to come.  Allocate has no limit, so Remain wraps.                *)
Allocate ==
  /\ process = "up" /\ cur_ <= Capacity
  /\ \E alloca_size \in AllocaSizes : cur_' = cur_ + alloca_size
  /\ UNCHANGED <<nodes, ranges, range_queue_, scan, acked>> /\ CompactFrame

Remain == IF cur_ <= Capacity THEN Capacity - cur_ ELSE MaxUint64 + 1 - (cur_ - Capacity)

RangeUsage(r) == Len(nodes[ranges[r].node].data)

Known == {prefix2range[p] : p \in Prefixes} \ {Null}

(* The range that Get searches, or Null for "no this range"; the chunks    *)
(* that NewIterator merges, those of every range.                          *)
Get(p) == prefix2range[p]
NewIterator == UNION {Range(ranges[r].blklist) : r \in Known}

(* MaybeNeedCompaction: below three quarters of the capacity it looks for  *)
(* a range, ...                                                            *)
MaybeNeedCompaction ==
  /\ process = "up" /\ scan.at = "idle" /\ Len(range_queue_) < MaxQueue
  /\ 4 * Remain < 3 * Capacity
  /\ \E size \in Uninitialized :
       scan' = [at |-> "loop", left |-> {p \in Prefixes : prefix2range[p] # Null},
                range |-> Null, range_size_ |-> size]
  /\ UNCHANGED <<nodes, cur_, ranges, range_queue_, acked>> /\ CompactFrame

(* ... visits them in some order and keeps the last one with data, because *)
(* max_range_size stays 0 ...                                              *)
VisitRange ==
  /\ \E p \in scan.left :
       LET usage == RangeUsage(prefix2range[p])
           next  == [scan EXCEPT !.left = @ \ {p}]
       IN  \/ usage = 0 /\ scan' = next
           \/ 0 < usage /\ scan' = [next EXCEPT !.range = prefix2range[p],
                                               !.range_size_ = usage]
  /\ UNCHANGED <<nodes, cur_, ranges, range_queue_, acked>> /\ CompactFrame

(* ... and queues it as it was when it was visited.  When no range had     *)
(* data the item has none, and an undefined size.                          *)
PushItem ==
  /\ scan.at = "loop" /\ scan.left = {} /\ scan' = NoScan
  /\ range_queue_' = Append(range_queue_, [range |-> scan.range,
                                           range_size_ |-> scan.range_size_])
  /\ UNCHANGED <<nodes, cur_, ranges, acked>> /\ CompactFrame

NeedCompaction == range_queue_ # <<>>

(* GetCompactionData returns the front of the queue and leaves it there;   *)
(* the compaction drains its range and calls CleanUp, which sets dataLen   *)
(* to 0 and adds nothing to blklist.                                       *)
Compact ==
  /\ NeedCompaction
  /\ LET r == Head(range_queue_).range
         n == ranges[r].node
     IN  /\ r # Null
         /\ nodes' = [nodes EXCEPT ![n].data = <<>>]
         /\ acked' = {a \in acked : a.prefix # nodes[n].prefix_}
  /\ UNCHANGED <<cur_, ranges, range_queue_, scan>> /\ CompactFrame

-----------------------------------------------------------------------------

Constructor == Construct \/ ConstructInit \/ RebuildBegin \/ RebuildNode \/ RebuildBucket

Flush ==
  \/ \E prefix \in Prefixes : AppendToRange(prefix)
  \/ PutAndGet \/ PutRun \/ NewRange \/ TabAppend \/ AppendToRangeFails

Next ==
  \/ Constructor \/ Ends
  \/ Flush
  \/ Allocate \/ MaybeNeedCompaction \/ VisitRange \/ PushItem \/ Compact

Spec == Init /\ [][Next]_vars

(* The constructor does not block. *)
FairSpec == Spec /\ WF_vars(Constructor)

-----------------------------------------------------------------------------

Reachable == UNION {ChainFrom[tab[b]] : b \in Buckets}

(* A prefix never gets a second node in the persistent map: not when       *)
(* NewRange fails after putAndGet has committed and the flush is repeated, *)
(* not when hashes collide, and not after a crash (pmem_hash_map.cc:93-129)*)
OneNodePerPrefix ==
  \A m, n \in Reachable : nodes[m].prefix_ = nodes[n].prefix_ => m = n

(* What has been committed for a prefix stays on a node of that prefix     *)
(* that the map reaches, over crashes in the constructor's initialisation, *)
(* in putAndGet and in Append, until a compaction of the range.  What this *)
(* process has committed is also whole; of an earlier process the header   *)
(* (fixed_range_tab.cc:45-47) spares all chunks but the first of a node.   *)
CommittedReachable ==
  \A a \in acked : \E n \in Reachable :
    /\ nodes[n].prefix_ = a.prefix
    /\ \E k \in 1..Len(nodes[n].data) :
         /\ nodes[n].data[k] = a.chunk
         /\ (a.here /\ k = 1) => nodes[n].head = "chunk"

(* FixedRangeChunkBasedNVMWriteCache::Get (.cc:81-93) finds a range by the *)
(* prefix: it is a range of the prefix's own node, and indexes all chunks  *)
(* that this process has committed for the prefix.  NewIterator (.cc:180)  *)
(* merges all of them too.                                                 *)
GetSearchesAll ==
  /\ \A p \in Prefixes : Get(p) # Null => nodes[ranges[Get(p)].node].prefix_ = p
  /\ \A a \in acked : a.here =>
       /\ Get(a.prefix) # Null
       /\ a.chunk \in Range(ranges[Get(a.prefix)].blklist) \intersect NewIterator

(* Once the constructor has returned, every prefix with data has a range,  *)
(* so that Get does not answer "no this range" for it                      *)
(* (RebuildFromPersistentNode, .cc:156-178).                               *)
RebuildComplete ==
  process = "up" => \A a \in acked : Get(a.prefix) # Null

(* The constructor comes to an end, by returning or with the process.      *)
ConstructorEnds ==
  (process \in {"opened", "rebuilding"}) ~> (process \in {"up", "down"})

=============================================================================
