-------------------------- MODULE WriteCacheProofs --------------------------
(***************************************************************************)
(* The invariants of WriteCache, for any prefixes, any hash function, any  *)
(* number of buckets and of chunks, and any limit on crashes and failed    *)
(* calls; and that its map of prefixes is a ContentSet.                    *)
(***************************************************************************)
EXTENDS WriteCache, WellFoundedInduction, TLAPS

NodeRecs == [hash_ : Nat, prefix_ : Prefixes, next : Nat, data : Seq(1..MaxChunks),
             head : {"unwritten", "header", "chunk"}]
TabRecs == [node : Nat, blklist : Seq(1..MaxChunks)]
Items == [range : Nat, range_size_ : Nat]
Acks == [prefix : Prefixes, chunk : 1..MaxChunks, here : BOOLEAN]
Places == {"idle", "putAndGet", "run", "NewRange", "Append"}
Flushes == [at : Places, prefix : Prefixes \union {NoPrefix}, chunk : 0..MaxChunks,
            node : Nat, range : Nat]

Ids == 1..Len(nodes)
Slot(n) == nodes[n].hash_ % TabLen

-----------------------------------------------------------------------------
(* Sequences and numbers.                                                  *)

LEMMA Appended ==
  ASSUME NEW S, NEW s \in Seq(S), NEW x \in S
  PROVE  LET u == Append(s, x)
         IN  /\ u \in Seq(S) /\ Len(s) \in Nat /\ Len(u) = Len(s) + 1 /\ u[Len(s) + 1] = x
             /\ \A m \in 1..Len(s) : u[m] = s[m]
OBVIOUS

LEMMA Replaced ==
  ASSUME NEW S, NEW s \in Seq(S), NEW n \in 1..Len(s), NEW x \in S
  PROVE  LET u == [s EXCEPT ![n] = x]
         IN  /\ u \in Seq(S) /\ Len(u) = Len(s) /\ u[n] = x
             /\ \A m \in 1..Len(s) : m # n => u[m] = s[m]
OBVIOUS

(* A set of numbers has a least one: the induction over chains. *)
LEMMA LeastNumber ==
  ASSUME NEW T, T \subseteq Nat, T # {}
  PROVE  \E x \in T : \A y \in T : ~(y < x)
<1>1. IsWellFoundedOn(OpToRel(<, Nat), Nat)
  BY NatLessThanWellFounded, Zenon
<1>2. PICK x \in T : \A y \in T : ~(<<y, x>> \in OpToRel(<, Nat))
  BY <1>1, WFMin, Zenon
<1>3. ASSUME NEW y \in T, y < x PROVE FALSE
  <2>1. y \in Nat /\ x \in Nat
    OBVIOUS
  <2>2. <<y, x>> \in OpToRel(<, Nat)
    BY <1>3, <2>1 DEF OpToRel
  <2> QED BY <1>2, <2>2, Zenon
<1> QED BY <1>3

-----------------------------------------------------------------------------
(* The persistent map.                                                     *)

MapType ==
  /\ pool \in BOOLEAN /\ inited_ \in BOOLEAN /\ cur_ \in Nat
  /\ nodes \in Seq(NodeRecs) /\ tab \in [Buckets -> Nat]
  /\ \A b \in Buckets : tab[b] <= Len(nodes)

(* A node is linked to the node before it in its bucket, ... *)
Linked ==
  \A n \in Ids :
    /\ nodes[n].hash_ = CityHash[nodes[n].prefix_]
    /\ nodes[n].next < n
    /\ nodes[n].next # Null => Slot(nodes[n].next) = Slot(n)
    /\ \A m \in Ids : (m < n /\ Slot(m) = Slot(n)) => m <= nodes[n].next

(* ... the last one of a bucket is its head, ... *)
Heads ==
  \A b \in Buckets : /\ tab[b] # Null => Slot(tab[b]) = b
                     /\ \A m \in Ids : Slot(m) = b => m <= tab[b]

(* ... and no two nodes have a prefix in common. *)
Distinct == \A m, n \in Ids : nodes[m].prefix_ = nodes[n].prefix_ => m = n

MapInv == MapType /\ Linked /\ Heads /\ Distinct

LEMMA Slots ==
  ASSUME MapType, NEW n \in Ids
  PROVE  /\ nodes[n] \in NodeRecs /\ nodes[n].hash_ \in Nat /\ nodes[n].prefix_ \in Prefixes
         /\ nodes[n].next \in Nat /\ nodes[n].data \in Seq(1..MaxChunks)
         /\ nodes[n].head \in {"unwritten", "header", "chunk"}
         /\ Slot(n) \in Buckets /\ n \in Nat /\ Len(nodes) \in Nat
<1>1. nodes[n] \in NodeRecs /\ n \in Nat /\ Len(nodes) \in Nat
  BY DEF MapType, Ids
<1>2. nodes[n].hash_ \in Nat /\ nodes[n].prefix_ \in Prefixes /\ nodes[n].next \in Nat
      /\ nodes[n].data \in Seq(1..MaxChunks)
      /\ nodes[n].head \in {"unwritten", "header", "chunk"}
  BY <1>1 DEF NodeRecs
<1>3. TabLen \in Nat /\ TabLen > 0
  BY CacheAssumption
<1>4. \A h \in Nat : h % TabLen \in Buckets
  BY <1>3 DEF Buckets
<1> QED BY <1>1, <1>2, <1>4 DEF Slot

LEMMA HashSlot ==
  ASSUME NEW p \in Prefixes
  PROVE  CityHash[p] \in Nat /\ CityHash[p] % TabLen \in Buckets
<1>1. CityHash[p] \in Nat /\ TabLen \in Nat /\ TabLen > 0
  BY CacheAssumption
<1>2. \A h \in Nat : h % TabLen \in Buckets
  BY <1>1 DEF Buckets
<1> QED BY <1>1, <1>2

(* The chain from a node on is every older node of its bucket. *)
Chain(n) == IF n = Null THEN {} ELSE {m \in 1..n : Slot(m) = Slot(n)}
SatisfiesChain(f) ==
  f = [n \in NodeId |-> IF n = Null THEN {}
         ELSE {n} \cup (IF nodes[n].next < n THEN f[nodes[n].next] ELSE {})]

LEMMA ChainStep ==
  ASSUME MapInv, NEW n \in Ids
  PROVE  Chain(n) = {n} \cup Chain(nodes[n].next)
<1>1. /\ nodes[n].next \in Nat /\ nodes[n].next < n /\ n \in Nat /\ n >= 1 /\ n # Null
      /\ nodes[n].next # Null => Slot(nodes[n].next) = Slot(n)
      /\ \A m \in 1..n : m \in Ids
  BY Slots DEF MapInv, Linked, Ids, Null, MapType
<1>2. \A m \in Ids : (m < n /\ Slot(m) = Slot(n)) => m <= nodes[n].next
  BY DEF MapInv, Linked
<1>3. Chain(n) = {m \in 1..n : Slot(m) = Slot(n)}
  BY <1>1 DEF Chain
<1>4. CASE nodes[n].next = Null
  <2>1. Chain(nodes[n].next) = {}
    BY <1>4 DEF Chain
  <2>2. \A m \in 1..n : Slot(m) = Slot(n) => m = n
    BY <1>1, <1>2, <1>4 DEF Null
  <2> QED BY <1>1, <1>3, <2>1, <2>2
<1>5. CASE nodes[n].next # Null
  <2>1. Chain(nodes[n].next) = {m \in 1..nodes[n].next : Slot(m) = Slot(n)}
    BY <1>1, <1>5 DEF Chain
  <2>2. \A m \in 1..n : Slot(m) = Slot(n) => (m = n \/ m \in 1..nodes[n].next)
    BY <1>1, <1>2
  <2>3. \A m \in 1..nodes[n].next : m \in 1..n
    BY <1>1
  <2> QED BY <1>1, <1>3, <2>1, <2>2, <2>3
<1> QED BY <1>4, <1>5

LEMMA ChainIs ==
  ASSUME MapInv
  PROVE  \A n \in NodeId : ChainFrom[n] = Chain(n)
<1> DEFINE f == [n \in NodeId |-> Chain(n)]
<1>1. \A n \in NodeId : n # Null => n \in Ids /\ n \in Nat /\ nodes[n].next \in NodeId
                                    /\ nodes[n].next < n
  <2>1. SUFFICES ASSUME NEW n \in NodeId, n # Null
                 PROVE  n \in Ids /\ n \in Nat /\ nodes[n].next \in NodeId /\ nodes[n].next < n
    OBVIOUS
  <2>2. n \in Ids /\ n \in Nat /\ Len(nodes) \in Nat /\ n <= Len(nodes)
    BY <2>1 DEF NodeId, Ids, Null, MapInv, MapType
  <2>3. nodes[n].next \in Nat /\ nodes[n].next < n
    BY <2>2, Slots DEF MapInv, Linked
  <2> QED BY <2>2, <2>3 DEF NodeId
<1>2. SatisfiesChain(f)
  <2>1. ASSUME NEW n \in NodeId
        PROVE  Chain(n) = IF n = Null THEN {}
                 ELSE {n} \cup (IF nodes[n].next < n THEN f[nodes[n].next] ELSE {})
    <3>1. CASE n = Null
      BY <3>1 DEF Chain
    <3>2. CASE n # Null
      <4>1. f[nodes[n].next] = Chain(nodes[n].next)
        BY <1>1, <3>2
      <4> HIDE DEF f
      <4>2. Chain(n) = {n} \cup Chain(nodes[n].next)
        BY <1>1, <3>2, ChainStep
      <4> QED BY <1>1, <3>2, <4>1, <4>2
    <3> QED BY <3>1, <3>2
  <2> QED BY <2>1 DEF SatisfiesChain
<1>3. SatisfiesChain(ChainFrom)
  <2> HIDE DEF f
  <2>1. ChainFrom = CHOOSE g : SatisfiesChain(g)
    BY DEF ChainFrom, SatisfiesChain
  <2> QED BY <1>2, <2>1
<1>4. \A n \in NodeId : ChainFrom[n] = IF n = Null THEN {}
        ELSE {n} \cup (IF nodes[n].next < n THEN ChainFrom[nodes[n].next] ELSE {})
  BY <1>3 DEF SatisfiesChain
<1> HIDE DEF f
<1> DEFINE T == {n \in NodeId : ChainFrom[n] # Chain(n)}
<1>5. ASSUME T # {} PROVE FALSE
  <2>1. T \subseteq Nat
    BY DEF NodeId
  <2>2. PICK x \in T : \A y \in T : ~(y < x)
    BY <1>5, <2>1, LeastNumber
  <2>3. x \in NodeId /\ ChainFrom[x] # Chain(x)
    OBVIOUS
  <2>4. x # Null
    BY <1>4, <2>3 DEF Chain
  <2>5. nodes[x].next \in NodeId /\ nodes[x].next < x /\ x \in Ids
    BY <1>1, <2>3, <2>4
  <2>6. ChainFrom[nodes[x].next] = Chain(nodes[x].next)
    BY <2>2, <2>5
  <2>7. Chain(x) = {x} \cup Chain(nodes[x].next)
    BY <2>5, ChainStep
  <2> QED BY <1>4, <2>3, <2>4, <2>5, <2>6, <2>7
<1> QED BY <1>5

(* The map reaches every node, and putAndGet finds the node of a prefix if *)
(* there is one.                                                           *)
LEMMA InChain ==
  ASSUME MapInv, NEW b \in Buckets
  PROVE  /\ tab[b] \in NodeId
         /\ ChainFrom[tab[b]] = {n \in Ids : Slot(n) = b}
<1>1. tab[b] \in Nat /\ tab[b] <= Len(nodes) /\ Len(nodes) \in Nat
  BY DEF MapInv, MapType
<1>2. tab[b] \in NodeId
  BY <1>1 DEF NodeId
<1>3. ChainFrom[tab[b]] = Chain(tab[b])
  BY <1>2, ChainIs
<1>4. /\ tab[b] # Null => Slot(tab[b]) = b
      /\ \A m \in Ids : Slot(m) = b => m <= tab[b]
  BY DEF MapInv, Heads
<1>5. CASE tab[b] = Null
  <2>1. {n \in Ids : Slot(n) = b} = {}
    BY <1>4, <1>5 DEF Ids, Null
  <2> QED BY <1>2, <1>3, <1>5, <2>1 DEF Chain
<1>6. CASE tab[b] # Null
  <2>1. \A n : (n \in Ids /\ Slot(n) = b) <=> (n \in 1..tab[b] /\ Slot(n) = b)
    BY <1>1, <1>4 DEF Ids
  <2> QED BY <1>2, <1>3, <1>4, <1>6, <2>1 DEF Chain
<1> QED BY <1>5, <1>6

LEMMA ReachableIs ==
  ASSUME MapInv
  PROVE  Reachable = Ids
<1>1. \A b \in Buckets : ChainFrom[tab[b]] = {n \in Ids : Slot(n) = b}
  BY InChain
<1>2. \A n \in Ids : Slot(n) \in Buckets
  BY Slots DEF MapInv
<1> QED BY <1>1, <1>2 DEF Reachable

LEMMA FoundIs ==
  ASSUME MapInv, flush.prefix \in Prefixes
  PROVE  Found = {n \in Ids : nodes[n].prefix_ = flush.prefix}
<1>1. bucket \in Buckets
  BY HashSlot DEF bucket
<1>2. ChainFrom[tab[bucket]] = {n \in Ids : Slot(n) = bucket}
  BY <1>1, InChain
<1>3. \A n \in Ids : nodes[n].hash_ = CityHash[nodes[n].prefix_] /\ n \in NodeId
  BY DEF MapInv, MapType, Linked, Ids, NodeId
<1>4. \A n \in Ids : nodes[n].prefix_ = flush.prefix =>
        Slot(n) = bucket /\ nodes[n].hash_ = CityHash[flush.prefix]
  BY <1>3 DEF Slot, bucket
<1> QED BY <1>2, <1>3, <1>4 DEF Found

-----------------------------------------------------------------------------
(* The invariant.                                                          *)

(* What the process holds. *)
CacheType ==
  /\ ranges \in Seq(TabRecs) /\ range_queue_ \in Seq(Items)
  /\ prefix2range \in [Prefixes -> Nat]
  /\ process \in {"down", "opened", "rebuilding", "up"}
  /\ loop \in [i : 0..TabLen, tmp : Nat] /\ loop.tmp <= Len(nodes)
  /\ flush \in Flushes /\ flush.node <= Len(nodes) /\ flush.range <= Len(ranges)
  /\ failures \in 0..MaxFailures /\ chunks \in 0..MaxChunks
  /\ acked \subseteq Acks

(* Numbers of nodes and ranges stand for nodes and ranges. *)
Pointers ==
  /\ \A r \in 1..Len(ranges) : ranges[r].node \in Ids
  /\ \A k \in 1..Len(range_queue_) : range_queue_[k].range <= Len(ranges)
  /\ \A p \in Prefixes : /\ prefix2range[p] <= Len(ranges)
                         /\ prefix2range[p] # Null =>
                              nodes[ranges[prefix2range[p]].node].prefix_ = p

(* What has not been initialised is empty, and so is what a process that   *)
(* has not come up holds.                                                  *)
Phases ==
  /\ inited_ = FALSE => (process \in {"down", "opened"} /\ nodes = <<>> /\ acked = {})
  /\ process # "up" => (flush = Idle /\ range_queue_ = <<>> /\ \A a \in acked : a.here = FALSE)
  /\ process \in {"down", "opened"} => (prefix2range = NoRanges /\ ranges = <<>>)

(* Between the steps of AppendToRange: a prefix that had no range when the *)
(* flush began has none yet, and one that has no node when putAndGet has   *)
(* looked has none when it commits.                                        *)
Flushing ==
  /\ flush.at # "idle" => (flush.prefix \in Prefixes /\ flush.chunk \in 1..MaxChunks)
  /\ flush.at \in {"putAndGet", "run", "NewRange"} => prefix2range[flush.prefix] = Null
  /\ flush.at = "run" => (flush.node = tab[bucket]
                          /\ \A n \in Ids : nodes[n].prefix_ # flush.prefix)
  /\ flush.at = "NewRange" => (flush.node \in Ids /\ nodes[flush.node].prefix_ = flush.prefix)
  /\ flush.at = "Append" => (flush.range # Null /\ flush.range = prefix2range[flush.prefix])

(* A committed chunk is on a node of its prefix; the process that has      *)
(* committed it has it there whole, and in the range of the prefix as well.*)
Keeps(x, c, here) ==
  \E k \in 1..Len(x.data) : /\ x.data[k] = c
                            /\ (here = TRUE /\ k = 1) => x.head = "chunk"
OnNode(p, c, here) == \E n \in Ids : nodes[n].prefix_ = p /\ Keeps(nodes[n], c, here)
Indexes(p, c) == /\ prefix2range[p] # Null
                 /\ \E k \in 1..Len(ranges[prefix2range[p]].blklist) :
                      ranges[prefix2range[p]].blklist[k] = c
Committed ==
  \A a \in acked : /\ OnNode(a.prefix, a.chunk, a.here)
                   /\ a.here = TRUE => Indexes(a.prefix, a.chunk)
                   /\ process = "up" => prefix2range[a.prefix] # Null

(* The constructor's loop has been through the buckets below its own, and  *)
(* through the nodes of its bucket that are newer than its node.           *)
Rebuilding ==
  process = "rebuilding" =>
    /\ loop.i \in Buckets
    /\ loop.tmp # Null => Slot(loop.tmp) = loop.i
    /\ \A n \in Ids : (Slot(n) < loop.i \/ (Slot(n) = loop.i /\ n > loop.tmp))
                        => prefix2range[nodes[n].prefix_] # Null

IInv == MapInv /\ CacheType /\ Pointers /\ Phases /\ Flushing /\ Committed /\ Rebuilding

(* The loop of MaybeNeedCompaction has ranges before it that exist, and    *)
(* remembers one that does; only a process that is up is in it.            *)
Scans == [at : {"idle", "loop"}, left : SUBSET Prefixes, range : Nat, range_size_ : Nat]
Scanning ==
  /\ scan \in Scans /\ scan.range <= Len(ranges)
  /\ \A p \in scan.left : prefix2range[p] # Null
  /\ process # "up" => scan = NoScan

LEMMA Lengths ==
  ASSUME MapType, CacheType
  PROVE  /\ Len(nodes) \in Nat /\ Len(ranges) \in Nat /\ Len(range_queue_) \in Nat
         /\ Ids \subseteq Nat
         /\ \A r \in 1..Len(ranges) : /\ ranges[r] \in TabRecs /\ ranges[r].node \in Nat
                                      /\ ranges[r].blklist \in Seq(1..MaxChunks)
         /\ \A p \in Prefixes : prefix2range[p] \in Nat
<1>1. Len(nodes) \in Nat /\ Len(ranges) \in Nat /\ Len(range_queue_) \in Nat
  BY DEF MapType, CacheType
<1>2. Ids \subseteq Nat
  BY <1>1 DEF Ids
<1>3. \A r \in 1..Len(ranges) : ranges[r] \in TabRecs
  BY DEF CacheType
<1>4. \A r \in 1..Len(ranges) : ranges[r].node \in Nat /\ ranges[r].blklist \in Seq(1..MaxChunks)
  BY <1>3 DEF TabRecs
<1> QED BY <1>1, <1>2, <1>3, <1>4 DEF CacheType

(* A step that leaves the links of the map alone keeps its invariant. *)
SameLinks ==
  /\ Len(nodes') = Len(nodes) /\ nodes' \in Seq(NodeRecs) /\ tab' = tab
  /\ \A n \in Ids : /\ nodes'[n].hash_ = nodes[n].hash_ /\ nodes'[n].next = nodes[n].next
                    /\ nodes'[n].prefix_ = nodes[n].prefix_

LEMMA MapKept ==
  ASSUME MapInv, SameLinks, pool' \in BOOLEAN, inited_' \in BOOLEAN, cur_' \in Nat
  PROVE  MapInv' /\ Ids' = Ids /\ \A n \in Ids : Slot(n)' = Slot(n)
<1>1. Ids' = Ids /\ \A n \in Ids : Slot(n)' = Slot(n)
  BY DEF SameLinks, Ids, Slot
<1>2. MapType'
  BY DEF MapInv, MapType, SameLinks
<1>3. \A n \in Ids : nodes[n].next # Null => nodes[n].next \in Ids
  <2>1. \A n \in Ids : nodes[n].next \in Nat /\ nodes[n].next < n /\ n \in Nat /\ n <= Len(nodes)
                       /\ Len(nodes) \in Nat
    BY Slots DEF MapInv, Linked, Ids
  <2> QED BY <2>1 DEF Ids, Null
<1>4. Linked'
  BY <1>1, <1>3 DEF MapInv, Linked, SameLinks
<1>5. \A b \in Buckets : tab[b] # Null => tab[b] \in Ids
  BY DEF MapInv, MapType, Ids, Null
<1>6. Heads'
  BY <1>1, <1>5 DEF MapInv, Heads, SameLinks
<1>7. Distinct'
  BY <1>1 DEF MapInv, Distinct, SameLinks
<1> QED BY <1>1, <1>2, <1>4, <1>6, <1>7 DEF MapInv

LEMMA MapSame ==
  ASSUME MapInv, UNCHANGED <<nodes, tab>>, pool' \in BOOLEAN, inited_' \in BOOLEAN,
         cur_' \in Nat
  PROVE  MapInv' /\ Ids' = Ids /\ \A n \in Ids : Slot(n)' = Slot(n)
BY MapKept DEF MapInv, MapType, SameLinks

-----------------------------------------------------------------------------
(* Process and constructor.                                                *)

LEMMA InitInv == Init => IInv
<1> SUFFICES ASSUME Init PROVE IInv
  OBVIOUS
<1>1. Len(nodes) = 0 /\ Len(ranges) = 0 /\ Len(range_queue_) = 0 /\ Ids = {}
  BY DEF Init, Ids
<1>2. MapInv
  <2>1. MapType
    <3>1. tab \in [Buckets -> Nat] /\ \A b \in Buckets : tab[b] <= Len(nodes)
      BY <1>1 DEF Init, Null
    <3>2. pool \in BOOLEAN /\ inited_ \in BOOLEAN
      BY DEF Init
    <3> QED BY <3>1, <3>2 DEF Init, MapType
  <2>2. \A b \in Buckets : tab[b] = Null
    BY DEF Init
  <2> QED BY <1>1, <2>1, <2>2 DEF MapInv, Linked, Heads, Distinct
<1>3. Idle \in Flushes /\ Idle.at = "idle" /\ Idle.node = 0 /\ Idle.range = 0
  BY CacheAssumption DEF Idle, Flushes, Places, Null
<1>4. CacheType
  <2>1. loop \in [i : 0..TabLen, tmp : Nat] /\ loop.tmp <= Len(nodes)
    BY <1>1, CacheAssumption DEF Init, NoLoop, Null
  <2>2. failures \in 0..MaxFailures /\ chunks \in 0..MaxChunks
    BY CacheAssumption DEF Init
  <2>3. prefix2range \in [Prefixes -> Nat]
    BY DEF Init, NoRanges, Null
  <2> QED BY <1>1, <1>3, <2>1, <2>2, <2>3 DEF Init, CacheType
<1>5. Pointers
  BY <1>1 DEF Init, Pointers, NoRanges, Null
<1>6. Phases /\ Committed /\ Rebuilding
  BY DEF Init, Phases, Committed, Rebuilding
<1>7. Flushing
  BY <1>3 DEF Init, Flushing
<1> QED BY <1>2, <1>4, <1>5, <1>6, <1>7 DEF IInv

LEMMA ConstructStep ==
  ASSUME IInv, Construct
  PROVE  IInv'
<1>1. process = "down" /\ process' = "opened" /\ pool' = TRUE
      /\ UNCHANGED <<inited_, nodes, tab, cur_, vinfo_, loop, flush, failures, chunks, acked>>
  BY DEF Construct
<1>2. MapInv' /\ Ids' = Ids
  <2>1. pool' \in BOOLEAN /\ inited_' \in BOOLEAN /\ cur_' \in Nat
    BY <1>1 DEF IInv, MapInv, MapType
  <2> QED BY <1>1, <2>1, MapSame DEF IInv
<1>3. CacheType' /\ Pointers'
  BY <1>1, <1>2 DEF IInv, CacheType, Pointers, vinfo_
<1>4. Phases' /\ Rebuilding'
  BY <1>1 DEF IInv, Phases, Rebuilding, vinfo_
<1>5. Flushing'
  BY <1>1, <1>2 DEF IInv, Flushing, bucket, vinfo_
<1>6. Committed'
  BY <1>1, <1>2 DEF IInv, Committed, OnNode, Keeps, Indexes, vinfo_
<1> QED BY <1>2, <1>3, <1>4, <1>5, <1>6 DEF IInv

LEMMA ConstructInitStep ==
  ASSUME IInv, ConstructInit
  PROVE  IInv'
<1>1. process = "opened" /\ inited_ = FALSE /\ process' = "up" /\ inited_' = TRUE /\ cur_' = 0
      /\ tab' = [b \in Buckets |-> Null]
      /\ UNCHANGED <<pool, nodes, vinfo_, loop, flush, failures, chunks, acked>>
  BY DEF ConstructInit, NewAllocator, IInv, MapInv, MapType
<1>2. nodes = <<>> /\ acked = {} /\ flush = Idle /\ range_queue_ = <<>>
      /\ prefix2range = NoRanges /\ ranges = <<>>
  BY <1>1 DEF IInv, Phases
<1>3. nodes' = <<>> /\ Len(nodes') = 0 /\ Ids' = {} /\ Ids = {}
  BY <1>1, <1>2 DEF Ids
<1>4. MapInv'
  <2>1. MapType'
    BY <1>1, <1>3 DEF IInv, MapInv, MapType, Null
  <2>2. \A b \in Buckets : tab'[b] = Null
    BY <1>1
  <2> QED BY <1>3, <2>1, <2>2 DEF MapInv, Linked, Heads, Distinct
<1>5. CacheType' /\ Pointers'
  BY <1>1, <1>3 DEF IInv, CacheType, Pointers, vinfo_
<1>6. Phases' /\ Rebuilding' /\ Committed'
  BY <1>1, <1>2 DEF Phases, Rebuilding, Committed
<1>7. Flushing'
  <2>1. flush'.at = "idle"
    BY <1>1, <1>2 DEF Idle
  <2> QED BY <2>1 DEF Flushing
<1> QED BY <1>4, <1>5, <1>6, <1>7 DEF IInv

LEMMA RebuildBeginStep ==
  ASSUME IInv, RebuildBegin
  PROVE  IInv'
<1>1. process = "opened" /\ inited_ = TRUE /\ process' = "rebuilding"
      /\ loop' = [i |-> 0, tmp |-> tab[0]]
      /\ UNCHANGED <<persistent, vinfo_, flush, failures, chunks, acked>>
  BY DEF RebuildBegin, IInv, MapInv, MapType
<1>2. UNCHANGED <<pool, inited_, nodes, tab, cur_, prefix2range, range_queue_, ranges>>
  BY <1>1 DEF persistent, vinfo_
<1>3. MapInv' /\ Ids' = Ids /\ \A n \in Ids : Slot(n)' = Slot(n)
  <2>1. pool' \in BOOLEAN /\ inited_' \in BOOLEAN /\ cur_' \in Nat
    BY <1>2 DEF IInv, MapInv, MapType
  <2> QED BY <1>2, <2>1, MapSame DEF IInv
<1>4. 0 \in Buckets /\ TabLen \in Nat
  BY CacheAssumption DEF Buckets
<1>5. tab[0] \in Nat /\ tab[0] <= Len(nodes)
  BY <1>4 DEF IInv, MapInv, MapType
<1>6. loop' \in [i : 0..TabLen, tmp : Nat] /\ loop'.tmp = tab[0] /\ loop'.i = 0
  BY <1>1, <1>4, <1>5
<1>7. CacheType'
  BY <1>1, <1>2, <1>5, <1>6 DEF IInv, CacheType
<1>8. Pointers'
  BY <1>2, <1>3 DEF IInv, Pointers
<1>9. Phases'
  BY <1>1, <1>2 DEF IInv, Phases
<1>10. Flushing'
  BY <1>1, <1>2, <1>3 DEF IInv, Flushing, bucket
<1>11. Committed'
  BY <1>1, <1>2, <1>3 DEF IInv, Committed, OnNode, Keeps, Indexes
<1>12. Rebuilding'
  <2>1. \A n \in Ids : /\ Slot(n) \in Nat /\ ~(Slot(n) < 0)
                       /\ Slot(n) = 0 => n <= tab[0]
                       /\ n \in Nat
    BY <1>4, Slots DEF IInv, MapInv, Heads, Buckets
  <2>2. tab[0] # Null => tab[0] \in Ids /\ Slot(tab[0]) = 0
    BY <1>4, <1>5 DEF IInv, MapInv, MapType, Heads, Ids, Null
  <2> QED BY <1>2, <1>3, <1>4, <1>5, <1>6, <2>1, <2>2 DEF Rebuilding
<1> QED BY <1>3, <1>7, <1>8, <1>9, <1>10, <1>11, <1>12 DEF IInv

LEMMA EndsStep ==
  ASSUME IInv, Ends
  PROVE  IInv'
<1>1. /\ process' = "down" /\ loop' = NoLoop /\ flush' = Idle
      /\ prefix2range' = NoRanges /\ range_queue_' = <<>> /\ ranges' = <<>>
      /\ acked' = {[a EXCEPT !.here = FALSE] : a \in acked}
      /\ failures' = failures + 1 /\ failures < MaxFailures
      /\ UNCHANGED <<pool, inited_, nodes, tab, cur_, chunks>>
  BY DEF Ends, Fails, persistent
<1>2. MapInv' /\ Ids' = Ids
  <2>1. pool' \in BOOLEAN /\ inited_' \in BOOLEAN /\ cur_' \in Nat
    BY <1>1 DEF IInv, MapInv, MapType
  <2> QED BY <1>1, <2>1, MapSame DEF IInv
<1>3. Idle \in Flushes /\ Idle.at = "idle" /\ Idle.node = 0 /\ Idle.range = 0
  BY CacheAssumption DEF Idle, Flushes, Places, Null
<1>4. \A a \in acked : /\ [a EXCEPT !.here = FALSE] \in Acks
                       /\ [a EXCEPT !.here = FALSE].prefix = a.prefix
                       /\ [a EXCEPT !.here = FALSE].chunk = a.chunk
                       /\ [a EXCEPT !.here = FALSE].here = FALSE
  BY DEF IInv, CacheType, Acks
<1>5. \A c \in acked' : /\ c \in Acks /\ c.here = FALSE
                        /\ \E a \in acked : c.prefix = a.prefix /\ c.chunk = a.chunk
  BY <1>1, <1>4
<1>6. CacheType'
  <2>1. loop' \in [i : 0..TabLen, tmp : Nat] /\ loop'.tmp = 0
    BY <1>1, CacheAssumption DEF NoLoop, Null
  <2>2. failures' \in 0..MaxFailures /\ chunks' \in 0..MaxChunks
    BY <1>1, CacheAssumption DEF IInv, CacheType
  <2>3. prefix2range' \in [Prefixes -> Nat]
    BY <1>1 DEF NoRanges, Null
  <2>4. Len(nodes') \in Nat /\ Len(ranges') = 0
    BY <1>1 DEF IInv, MapInv, MapType
  <2>5. acked' \subseteq Acks
    BY <1>5
  <2> QED BY <1>1, <1>3, <2>1, <2>2, <2>3, <2>4, <2>5 DEF CacheType
<1>7. Pointers'
  BY <1>1 DEF Pointers, NoRanges, Null
<1>8. Phases'
  <2>1. inited_' = FALSE => nodes' = <<>> /\ acked' = {}
    BY <1>1 DEF IInv, Phases
  <2> QED BY <1>1, <1>5, <2>1 DEF Phases
<1>9. Flushing' /\ Rebuilding'
  BY <1>1, <1>3 DEF Flushing, Rebuilding
<1>10. Committed'
  <2>1. ASSUME NEW c \in acked' PROVE OnNode(c.prefix, c.chunk, c.here)'
    <3>1. PICK a \in acked : c.prefix = a.prefix /\ c.chunk = a.chunk
      BY <1>5
    <3>2. OnNode(a.prefix, a.chunk, a.here)
      BY DEF IInv, Committed
    <3>3. OnNode(a.prefix, a.chunk, FALSE)
      BY <3>2 DEF OnNode, Keeps
    <3>4. OnNode(a.prefix, a.chunk, FALSE)'
      BY <1>1, <1>2, <3>3 DEF OnNode, Keeps
    <3>5. c.here = FALSE
      BY <1>5
    <3> QED BY <3>1, <3>4, <3>5
  <2> QED BY <1>1, <1>5, <2>1 DEF Committed
<1> QED BY <1>2, <1>6, <1>7, <1>8, <1>9, <1>10 DEF IInv

(* The header changes no link and no data, and no other node. *)
LEMMA HeaderWritten ==
  ASSUME IInv, NEW n \in Ids, NewTab(n), tab' = tab
  PROVE  /\ SameLinks /\ \A m \in Ids : nodes'[m].data = nodes[m].data
         /\ \A m \in Ids : m # n => nodes'[m] = nodes[m]
<1> DEFINE x == [nodes[n] EXCEPT !.head = "header"]
<1>1. nodes[n] \in NodeRecs /\ nodes \in Seq(NodeRecs)
  BY Slots DEF IInv, MapInv, MapType
<1>2. /\ x \in NodeRecs /\ x.prefix_ = nodes[n].prefix_ /\ x.hash_ = nodes[n].hash_
      /\ x.next = nodes[n].next /\ x.data = nodes[n].data
  BY <1>1 DEF NodeRecs
<1>3. nodes' = [nodes EXCEPT ![n] = x]
  BY DEF NewTab, SetHeader
<1> HIDE DEF x
<1>4. /\ nodes' \in Seq(NodeRecs) /\ Len(nodes') = Len(nodes) /\ nodes'[n] = x
      /\ \A m \in Ids : m # n => nodes'[m] = nodes[m]
  BY <1>1, <1>2, <1>3, Replaced DEF Ids
<1> QED BY <1>2, <1>4 DEF SameLinks

(* A range is made for a node and entered for the node's prefix. *)
LEMMA NewTabResult ==
  ASSUME IInv, NEW n \in Ids, NewTab(n), SameLinks, range_queue_' = range_queue_,
         prefix2range' = [prefix2range EXCEPT ![nodes[n].prefix_] = Len(ranges) + 1]
  PROVE  /\ Pointers' /\ ranges' \in Seq(TabRecs) /\ Len(ranges') = Len(ranges) + 1
         /\ prefix2range' \in [Prefixes -> Nat]
         /\ prefix2range'[nodes[n].prefix_] = Len(ranges) + 1
         /\ \A p \in Prefixes : p # nodes[n].prefix_ =>
              /\ prefix2range'[p] = prefix2range[p]
              /\ prefix2range[p] # Null => ranges'[prefix2range[p]] = ranges[prefix2range[p]]
         /\ \A p \in Prefixes : prefix2range[p] # Null => prefix2range'[p] # Null
<1> DEFINE x == [node |-> n, blklist |-> <<>>]
           l == Len(ranges)
<1>1. /\ Len(nodes) \in Nat /\ l \in Nat /\ Len(range_queue_) \in Nat /\ Ids \subseteq Nat
      /\ \A p \in Prefixes : prefix2range[p] \in Nat
  BY Lengths DEF IInv, MapInv
<1>2. x \in TabRecs /\ x.node = n
  <2>1. <<>> \in Seq(1..MaxChunks) /\ n \in Nat
    BY <1>1
  <2> QED BY <2>1 DEF TabRecs
<1>3. ranges' = Append(ranges, x) /\ ranges \in Seq(TabRecs)
  BY DEF NewTab, IInv, CacheType
<1> HIDE DEF x
<1>4. /\ ranges' \in Seq(TabRecs) /\ Len(ranges') = l + 1 /\ ranges'[l + 1] = x
      /\ \A r \in 1..l : ranges'[r] = ranges[r]
  BY <1>2, <1>3, Appended
<1>5. nodes[n].prefix_ \in Prefixes /\ prefix2range \in [Prefixes -> Nat]
  BY Slots DEF IInv, MapInv, CacheType
<1> HIDE DEF l
<1>6. /\ prefix2range' \in [Prefixes -> Nat] /\ prefix2range'[nodes[n].prefix_] = l + 1
      /\ \A p \in Prefixes : p # nodes[n].prefix_ => prefix2range'[p] = prefix2range[p]
  BY <1>1, <1>5 DEF l
<1>7. \A p \in Prefixes : prefix2range[p] # Null => prefix2range[p] \in 1..l
  BY <1>1 DEF IInv, Pointers, Null, l
<1>8. Ids' = Ids /\ \A m \in Ids : nodes'[m].prefix_ = nodes[m].prefix_
  BY DEF SameLinks, Ids
<1>9. \A r \in 1..Len(ranges') : ranges'[r].node \in Ids'
  <2>1. \A r \in 1..l : ranges[r].node \in Ids
    BY DEF IInv, Pointers, l
  <2>2. \A r \in 1..(l + 1) : r \in 1..l \/ r = l + 1
    BY <1>1 DEF l
  <2> QED BY <1>2, <1>4, <1>8, <2>1, <2>2
<1>10. ASSUME NEW p \in Prefixes
       PROVE  /\ prefix2range'[p] <= Len(ranges')
              /\ prefix2range'[p] # Null => nodes'[ranges'[prefix2range'[p]].node].prefix_ = p
  <2>1. CASE p = nodes[n].prefix_
    BY <1>1, <1>2, <1>4, <1>6, <1>8, <2>1 DEF l
  <2>2. CASE p # nodes[n].prefix_
    <3>1. prefix2range'[p] = prefix2range[p] /\ prefix2range[p] <= l
      BY <1>6, <2>2 DEF IInv, Pointers, l
    <3>2. prefix2range'[p] <= Len(ranges')
      BY <1>1, <1>4, <3>1 DEF l
    <3>3. ASSUME prefix2range[p] # Null
          PROVE  nodes'[ranges'[prefix2range'[p]].node].prefix_ = p
      <4>1. ranges'[prefix2range'[p]] = ranges[prefix2range[p]] /\ prefix2range[p] \in 1..l
        BY <1>4, <1>7, <3>1, <3>3
      <4>2. ranges[prefix2range[p]].node \in Ids
            /\ nodes[ranges[prefix2range[p]].node].prefix_ = p
        BY <3>3, <4>1 DEF IInv, Pointers, l
      <4> QED BY <1>8, <4>1, <4>2
    <3> QED BY <3>1, <3>2, <3>3
  <2> QED BY <2>1, <2>2
<1>11. \A k \in 1..Len(range_queue_') : range_queue_'[k].range <= Len(ranges')
  <2>1. \A k \in 1..Len(range_queue_) : range_queue_[k].range <= l /\ range_queue_[k].range \in Nat
    <3>1. \A k \in 1..Len(range_queue_) : range_queue_[k] \in Items
      BY DEF IInv, CacheType
    <3>2. \A k \in 1..Len(range_queue_) : range_queue_[k].range \in Nat
      BY <3>1 DEF Items
    <3> QED BY <3>2 DEF IInv, Pointers, l
  <2> QED BY <1>1, <1>4, <2>1 DEF l
<1>12. Pointers'
  BY <1>9, <1>10, <1>11 DEF Pointers
<1>13. \A p \in Prefixes : prefix2range[p] # Null => prefix2range'[p] # Null
  BY <1>1, <1>6 DEF Null, l
<1> QED BY <1>4, <1>6, <1>7, <1>12, <1>13 DEF l

LEMMA RebuildNodeStep ==
  ASSUME IInv, RebuildNode
  PROVE  IInv'
<1> DEFINE n == loop.tmp
<1>1. /\ process = "rebuilding" /\ n # Null /\ NewTab(n)
      /\ prefix2range' = [prefix2range EXCEPT ![nodes[n].prefix_] = Len(ranges) + 1]
      /\ loop' = [loop EXCEPT !.tmp = nodes[n].next]
      /\ UNCHANGED <<pool, inited_, tab, cur_, range_queue_, process, flush, failures,
                     chunks, acked>>
  BY DEF RebuildNode
<1>2. loop \in [i : 0..TabLen, tmp : Nat] /\ n \in Nat /\ n <= Len(nodes) /\ Len(nodes) \in Nat
      /\ flush = Idle /\ Len(ranges) \in Nat
  BY <1>1, Lengths DEF IInv, MapInv, CacheType, Phases
<1>3. n \in Ids
  BY <1>1, <1>2 DEF Ids, Null
<1>4. nodes[n].next \in Nat /\ nodes[n].next < n
  BY <1>3, Slots DEF IInv, MapInv, Linked
<1>5. /\ MapInv' /\ Ids' = Ids /\ (\A m \in Ids : Slot(m)' = Slot(m)) /\ SameLinks
      /\ \A m \in Ids : nodes'[m].data = nodes[m].data /\ nodes'[m].prefix_ = nodes[m].prefix_
  <2>1. pool' \in BOOLEAN /\ inited_' \in BOOLEAN /\ cur_' \in Nat
    BY <1>1 DEF IInv, MapInv, MapType
  <2>2. SameLinks /\ \A m \in Ids : nodes'[m].data = nodes[m].data
    BY <1>1, <1>3, HeaderWritten
  <2>3. \A m \in Ids : nodes'[m].prefix_ = nodes[m].prefix_
    BY <2>2 DEF SameLinks
  <2> QED BY <2>1, <2>2, <2>3, MapKept DEF IInv
<1>6. /\ Pointers' /\ ranges' \in Seq(TabRecs) /\ Len(ranges') = Len(ranges) + 1
      /\ prefix2range' \in [Prefixes -> Nat]
      /\ prefix2range'[nodes[n].prefix_] = Len(ranges) + 1
      /\ \A p \in Prefixes : prefix2range[p] # Null => prefix2range'[p] # Null
  BY <1>1, <1>3, <1>5, NewTabResult
<1> HIDE DEF n
<1>7. loop' \in [i : 0..TabLen, tmp : Nat] /\ loop'.tmp = nodes[n].next /\ loop'.i = loop.i
  BY <1>1, <1>2, <1>4
<1>8. CacheType'
  <2>1. flush' \in Flushes /\ flush'.node <= Len(nodes') /\ flush'.range <= Len(ranges')
    <3>1. flush \in Flushes /\ flush.node <= Len(nodes) /\ flush.range = 0
      BY <1>2 DEF IInv, CacheType, Idle, Null
    <3> QED BY <1>1, <1>2, <1>5, <1>6, <3>1 DEF SameLinks
  <2>2. loop'.tmp <= Len(nodes')
    BY <1>2, <1>4, <1>5, <1>7 DEF SameLinks
  <2> QED BY <1>1, <1>6, <1>7, <2>1, <2>2 DEF IInv, CacheType
<1>9. Phases'
  BY <1>1 DEF IInv, Phases
<1>10. Flushing'
  BY <1>1, <1>2 DEF Flushing, Idle
<1>11. Committed'
  <2>1. \A a \in acked : a.here = FALSE /\ OnNode(a.prefix, a.chunk, a.here)
    BY <1>1 DEF IInv, Phases, Committed
  <2>2. \A a \in acked : OnNode(a.prefix, a.chunk, a.here)'
    BY <1>1, <1>5, <2>1 DEF OnNode, Keeps
  <2> QED BY <1>1, <2>1, <2>2 DEF Committed
<1>12. Rebuilding'
  <2>1. loop'.i \in Buckets /\ (loop'.tmp # Null => Slot(loop'.tmp) = loop'.i)
        /\ (loop'.tmp # Null => loop'.tmp \in Ids)
    <3>1. loop.i \in Buckets /\ Slot(n) = loop.i
      BY <1>1 DEF IInv, Rebuilding, n
    <3>2. nodes[n].next # Null => Slot(nodes[n].next) = Slot(n)
      BY <1>3 DEF IInv, MapInv, Linked
    <3>3. nodes[n].next # Null => nodes[n].next \in Ids
      BY <1>2, <1>4 DEF Ids, Null
    <3> QED BY <1>7, <3>1, <3>2, <3>3
  <2>2. ASSUME NEW m \in Ids, Slot(m) < loop.i \/ (Slot(m) = loop.i /\ m > nodes[n].next)
        PROVE  prefix2range'[nodes[m].prefix_] # Null
    <3>1. m \in Nat /\ nodes[m].prefix_ \in Prefixes
      BY Slots DEF IInv, MapInv
    <3>2. CASE Slot(m) < loop.i \/ (Slot(m) = loop.i /\ m > n)
      <4>1. prefix2range[nodes[m].prefix_] # Null
        BY <1>1, <3>2 DEF IInv, Rebuilding, n
      <4> QED BY <1>6, <3>1, <4>1
    <3>3. CASE Slot(m) = loop.i /\ ~(m > n)
      <4>1. Slot(n) = loop.i
        BY <1>1 DEF IInv, Rebuilding, n
      <4>2. m < n => m <= nodes[n].next
        BY <1>3, <3>3, <4>1 DEF IInv, MapInv, Linked
      <4>3. m = n
        BY <1>2, <1>4, <2>2, <3>1, <3>3, <4>2
      <4> QED BY <1>2, <1>6, <4>3 DEF Null
    <3> QED BY <2>2, <3>2, <3>3
  <2> QED BY <1>1, <1>5, <1>7, <2>1, <2>2 DEF Rebuilding
<1> QED BY <1>5, <1>6, <1>8, <1>9, <1>10, <1>11, <1>12 DEF IInv

LEMMA RebuildBucketStep ==
  ASSUME IInv, RebuildBucket
  PROVE  IInv'
<1>1. /\ process = "rebuilding" /\ loop.tmp = Null
      /\ \/ /\ loop.i + 1 < TabLen
            /\ loop' = [i |-> loop.i + 1, tmp |-> tab[loop.i + 1]]
            /\ process' = process
         \/ loop.i + 1 = TabLen /\ loop' = NoLoop /\ process' = "up"
      /\ UNCHANGED <<pool, inited_, nodes, tab, cur_, prefix2range, range_queue_, ranges, flush,
                     failures, chunks, acked>>
  BY DEF RebuildBucket, persistent, vinfo_
<1>2. loop.i \in Buckets /\ loop.i \in Nat /\ TabLen \in Nat /\ Len(nodes) \in Nat
  BY <1>1, CacheAssumption DEF IInv, Rebuilding, Buckets, MapInv, MapType
<1>3. MapInv' /\ Ids' = Ids /\ (\A m \in Ids : Slot(m)' = Slot(m))
  <2>1. pool' \in BOOLEAN /\ inited_' \in BOOLEAN /\ cur_' \in Nat
    BY <1>1 DEF IInv, MapInv, MapType
  <2> QED BY <1>1, <2>1, MapSame DEF IInv
<1>4. \A n \in Ids : /\ Slot(n) <= loop.i => prefix2range[nodes[n].prefix_] # Null
                     /\ Slot(n) \in Buckets /\ Slot(n) \in Nat /\ n \in Nat
  <2>1. \A n \in Ids : Slot(n) \in Buckets /\ Slot(n) \in Nat /\ n \in Nat /\ n > 0
    BY Slots DEF IInv, MapInv, Buckets, Ids
  <2> QED BY <1>1, <1>2, <2>1 DEF IInv, Rebuilding, Null
<1>5. Pointers' /\ Flushing'
  BY <1>1, <1>3 DEF IInv, Pointers, Flushing, bucket
<1>6. flush = Idle /\ range_queue_ = <<>> /\ (\A a \in acked : a.here = FALSE)
      /\ inited_ = TRUE
  BY <1>1 DEF IInv, Phases, MapInv, MapType
<1>7. CASE loop.i + 1 < TabLen /\ loop' = [i |-> loop.i + 1, tmp |-> tab[loop.i + 1]]
           /\ process' = process
  <2> DEFINE b == loop.i + 1
  <2>1. b \in Buckets /\ b \in 0..TabLen
    BY <1>2, <1>7 DEF Buckets
  <2>2. tab[b] \in Nat /\ tab[b] <= Len(nodes)
    BY <2>1 DEF IInv, MapInv, MapType
  <2>3. loop' \in [i : 0..TabLen, tmp : Nat] /\ loop'.tmp = tab[b] /\ loop'.i = b
    BY <1>7, <2>1, <2>2
  <2>4. CacheType'
    BY <1>1, <1>7, <2>2, <2>3 DEF IInv, CacheType
  <2>5. Phases' /\ Committed'
    BY <1>1, <1>3, <1>7 DEF IInv, Phases, Committed, OnNode, Keeps, Indexes
  <2>6. Rebuilding'
    <3>1. tab[b] # Null => Slot(tab[b]) = b /\ tab[b] \in Ids
      BY <1>2, <2>1, <2>2 DEF IInv, MapInv, Heads, Ids, Null
    <3>2. \A n \in Ids : Slot(n) = b => ~(n > tab[b])
      BY <1>4, <2>1, <2>2 DEF IInv, MapInv, Heads
    <3>3. \A n \in Ids : Slot(n) < b => Slot(n) <= loop.i
      BY <1>2, <1>4
    <3> HIDE DEF b
    <3> QED BY <1>1, <1>3, <1>4, <2>1, <2>3, <3>1, <3>2, <3>3 DEF Rebuilding
  <2> QED BY <1>3, <1>5, <2>4, <2>5, <2>6 DEF IInv
<1>8. CASE loop.i + 1 = TabLen /\ loop' = NoLoop /\ process' = "up"
  <2>1. loop' \in [i : 0..TabLen, tmp : Nat] /\ loop'.tmp = 0
    BY <1>2, <1>8 DEF NoLoop, Null
  <2>2. CacheType'
    BY <1>1, <1>2, <1>8, <2>1 DEF IInv, CacheType
  <2>3. Phases' /\ Rebuilding'
    BY <1>1, <1>6, <1>8 DEF Phases, Rebuilding
  <2>4. Committed'
    <3>1. \A n \in Ids : prefix2range[nodes[n].prefix_] # Null
      BY <1>2, <1>4, <1>8 DEF Buckets
    <3>2. \A a \in acked : OnNode(a.prefix, a.chunk, a.here) /\ prefix2range[a.prefix] # Null
      BY <3>1 DEF IInv, Committed, OnNode, Keeps
    <3> QED BY <1>1, <1>3, <1>6, <3>2 DEF Committed, OnNode, Keeps
  <2> QED BY <1>3, <1>5, <2>2, <2>3, <2>4 DEF IInv
<1> QED BY <1>1, <1>7, <1>8

-----------------------------------------------------------------------------
(* The flush thread.                                                       *)

LEMMA FlushUp ==
  ASSUME IInv, flush.at # "idle"
  PROVE  process = "up" /\ inited_ = TRUE /\ flush.prefix \in Prefixes
         /\ flush.chunk \in 1..MaxChunks
<1>1. flush # Idle
  BY DEF Idle
<1>2. process = "up"
  BY <1>1 DEF IInv, Phases
<1>3. inited_ = TRUE
  BY <1>2 DEF IInv, Phases, MapInv, MapType
<1> QED BY <1>2, <1>3 DEF IInv, Flushing

LEMMA AppendToRangeStep ==
  ASSUME IInv, NEW prefix \in Prefixes, AppendToRange(prefix)
  PROVE  IInv'
<1> DEFINE r == prefix2range[prefix]
           c == chunks + 1
           known == [Idle EXCEPT !.at = "Append", !.prefix = prefix, !.chunk = c, !.range = r]
           new == [Idle EXCEPT !.at = "putAndGet", !.prefix = prefix, !.chunk = c]
<1>1. /\ process = "up" /\ chunks < MaxChunks /\ chunks' = c
      /\ (r # Null /\ flush' = known) \/ (r = Null /\ flush' = new)
      /\ UNCHANGED <<pool, inited_, nodes, tab, cur_, prefix2range, range_queue_, ranges, process,
                     loop, failures, acked>>
  BY DEF AppendToRange, FlushFrame
<1>2. chunks \in Nat /\ c \in 1..MaxChunks /\ c \in 0..MaxChunks /\ MaxChunks \in Nat
  BY <1>1, CacheAssumption DEF IInv, CacheType
<1>3. r \in Nat /\ r <= Len(ranges) /\ Len(ranges) \in Nat /\ Len(nodes) \in Nat
  BY Lengths DEF IInv, MapInv, Pointers
<1> HIDE DEF r, c
<1>4. /\ known \in Flushes /\ known.at = "Append" /\ known.prefix = prefix /\ known.chunk = c
      /\ known.range = r /\ known.node = 0
  BY <1>2, <1>3 DEF Flushes, Places, Idle, Null
<1>5. /\ new \in Flushes /\ new.at = "putAndGet" /\ new.prefix = prefix /\ new.chunk = c
      /\ new.range = 0 /\ new.node = 0
  BY <1>2 DEF Flushes, Places, Idle, Null
<1> HIDE DEF known, new
<1>6. MapInv' /\ Ids' = Ids
  <2>1. pool' \in BOOLEAN /\ inited_' \in BOOLEAN /\ cur_' \in Nat
    BY <1>1 DEF IInv, MapInv, MapType
  <2> QED BY <1>1, <2>1, MapSame DEF IInv
<1>7. flush' \in Flushes /\ flush'.node = 0 /\ flush'.range <= Len(ranges)
  BY <1>1, <1>3, <1>4, <1>5
<1>8. CacheType'
  BY <1>1, <1>2, <1>3, <1>7 DEF IInv, CacheType
<1>9. Pointers' /\ Phases' /\ Rebuilding'
  BY <1>1, <1>6 DEF IInv, Pointers, Phases, Rebuilding
<1>10. Committed'
  BY <1>1, <1>6 DEF IInv, Committed, OnNode, Keeps, Indexes
<1>11. Flushing'
  BY <1>1, <1>2, <1>4, <1>5 DEF Flushing, r
<1> QED BY <1>6, <1>8, <1>9, <1>10, <1>11 DEF IInv

LEMMA PutAndGetStep ==
  ASSUME IInv, PutAndGet
  PROVE  IInv'
<1>1. flush.at = "putAndGet"
  BY DEF PutAndGet
<1>2. process = "up" /\ inited_ = TRUE /\ flush.prefix \in Prefixes
      /\ flush.chunk \in 1..MaxChunks
  BY <1>1, FlushUp
<1>3. UNCHANGED <<pool, inited_, nodes, tab, cur_, prefix2range, range_queue_, ranges, process,
                  loop, failures, chunks, acked>>
  BY DEF PutAndGet, FlushFrame
<1>4. MapInv' /\ Ids' = Ids
  <2>1. pool' \in BOOLEAN /\ inited_' \in BOOLEAN /\ cur_' \in Nat
    BY <1>3 DEF IInv, MapInv, MapType
  <2> QED BY <1>3, <2>1, MapSame DEF IInv
<1>5. Found = {n \in Ids : nodes[n].prefix_ = flush.prefix}
  BY <1>2, FoundIs DEF IInv
<1>6. bucket \in Buckets /\ tab[bucket] \in Nat /\ tab[bucket] <= Len(nodes)
  BY <1>2, HashSlot DEF bucket, IInv, MapInv, MapType
<1>7. flush \in Flushes /\ Len(nodes) \in Nat /\ flush.range <= Len(ranges)
      /\ prefix2range[flush.prefix] = Null
  BY <1>1, Lengths DEF IInv, MapInv, CacheType, Flushing
<1>8. Pointers' /\ Phases' /\ Rebuilding'
  BY <1>2, <1>3, <1>4 DEF IInv, Pointers, Phases, Rebuilding
<1>9. Committed'
  BY <1>3, <1>4 DEF IInv, Committed, OnNode, Keeps, Indexes
<1>10. ASSUME NEW at \in {"run", "NewRange"}, NEW n \in Nat, n <= Len(nodes),
              flush' = [flush EXCEPT !.at = at, !.node = n]
       PROVE  /\ CacheType' /\ flush'.at = at /\ flush'.node = n
              /\ flush'.prefix = flush.prefix /\ flush'.chunk = flush.chunk
  <2>1. /\ flush' \in Flushes /\ flush'.at = at /\ flush'.node = n /\ flush'.range = flush.range
        /\ flush'.prefix = flush.prefix /\ flush'.chunk = flush.chunk
    BY <1>7, <1>10 DEF Flushes, Places
  <2> QED BY <1>3, <1>7, <1>10, <2>1 DEF IInv, CacheType
<1>11. CASE \E n \in Found : flush' = [flush EXCEPT !.at = "NewRange", !.node = n]
  <2>1. PICK n \in Found : flush' = [flush EXCEPT !.at = "NewRange", !.node = n]
    BY <1>11
  <2>2. n \in Ids /\ nodes[n].prefix_ = flush.prefix /\ n \in Nat /\ n <= Len(nodes)
    BY <1>5, <1>7 DEF Ids
  <2>3. /\ CacheType' /\ flush'.at = "NewRange" /\ flush'.node = n
        /\ flush'.prefix = flush.prefix /\ flush'.chunk = flush.chunk
    BY <1>10, <2>1, <2>2
  <2>4. Flushing'
    BY <1>2, <1>3, <1>4, <1>7, <2>2, <2>3 DEF Flushing
  <2> QED BY <1>4, <1>8, <1>9, <2>3, <2>4 DEF IInv
<1>12. CASE Found = {} /\ flush' = [flush EXCEPT !.at = "run", !.node = tab[bucket]]
  <2>1. /\ CacheType' /\ flush'.at = "run" /\ flush'.node = tab[bucket]
        /\ flush'.prefix = flush.prefix /\ flush'.chunk = flush.chunk
    BY <1>6, <1>10, <1>12
  <2>2. bucket' = bucket
    BY <2>1 DEF bucket
  <2>3. \A n \in Ids : nodes[n].prefix_ # flush.prefix
    BY <1>5, <1>12
  <2>4. Flushing'
    BY <1>2, <1>3, <1>4, <1>7, <2>1, <2>2, <2>3 DEF Flushing
  <2> QED BY <1>4, <1>8, <1>9, <2>1, <2>4 DEF IInv
<1> QED BY <1>11, <1>12 DEF PutAndGet

(* putAndGet's transaction puts a new node at the head of its bucket. *)
LEMMA PutRunMap ==
  ASSUME IInv, PutRun
  PROVE  /\ MapInv' /\ Len(nodes') = Len(nodes) + 1 /\ \A n \in Ids : nodes'[n] = nodes[n]
         /\ nodes'[Len(nodes) + 1].prefix_ = flush.prefix
<1> DEFINE x == NewNode(flush.node)
           l == Len(nodes)
           N == l + 1
           b == bucket
           NewSlot(n) == nodes'[n].hash_ % TabLen
<1>1. /\ flush.at = "run" /\ nodes' = Append(nodes, x)
      /\ tab' = [tab EXCEPT ![b] = N] /\ UNCHANGED <<pool, inited_, cur_>>
  BY DEF PutRun, FlushFrame
<1>2. /\ flush.prefix \in Prefixes /\ CityHash[flush.prefix] \in Nat /\ b \in Buckets
      /\ flush.node = tab[b] /\ \A n \in Ids : nodes[n].prefix_ # flush.prefix
  BY <1>1, FlushUp, HashSlot DEF IInv, Flushing, bucket
<1>3. l \in Nat /\ nodes \in Seq(NodeRecs) /\ tab \in [Buckets -> Nat]
      /\ \A c \in Buckets : tab[c] \in Nat /\ tab[c] <= l
  BY DEF IInv, MapInv, MapType
<1>4. /\ x \in NodeRecs /\ x.hash_ = CityHash[flush.prefix] /\ x.prefix_ = flush.prefix
      /\ x.next = tab[b]
  <2>1. <<>> \in Seq(1..MaxChunks)
    OBVIOUS
  <2> QED BY <1>2, <1>3, <2>1 DEF NewNode, NodeRecs
<1> HIDE DEF x
<1>5. nodes' \in Seq(NodeRecs) /\ Len(nodes') = N /\ nodes'[N] = x
      /\ \A m \in 1..l : nodes'[m] = nodes[m]
  BY <1>1, <1>3, <1>4, Appended
<1>6. b = CityHash[flush.prefix] % TabLen
  BY DEF bucket
<1> HIDE DEF l, b
<1>7. /\ Ids = 1..l /\ Ids' = 1..N /\ N \in Nat /\ N \notin Ids /\ N > l
      /\ \A n \in Ids' : n \in Ids \/ n = N
      /\ \A n \in Ids : n \in Nat /\ n <= l /\ n \in Ids'
  BY <1>3, <1>5 DEF Ids, l
<1>8. (\A n \in Ids : NewSlot(n) = Slot(n)) /\ NewSlot(N) = b
  BY <1>4, <1>5, <1>6, <1>7 DEF Slot
<1> HIDE DEF NewSlot
<1>9. tab' \in [Buckets -> Nat] /\ tab'[b] = N /\ \A c \in Buckets : c # b => tab'[c] = tab[c]
  BY <1>1, <1>2, <1>3, <1>7
<1> HIDE DEF N
<1>10. MapType'
  <2>1. \A c \in Buckets : tab'[c] <= N
    BY <1>3, <1>7, <1>9
  <2>2. pool' \in BOOLEAN /\ inited_' \in BOOLEAN /\ cur_' \in Nat
    BY <1>1 DEF IInv, MapInv, MapType
  <2> QED BY <1>5, <1>9, <2>1, <2>2 DEF MapType
<1>11. \A c \in Buckets : /\ tab[c] # Null => (tab[c] \in Ids /\ Slot(tab[c]) = c)
                          /\ \A m \in Ids : Slot(m) = c => m <= tab[c]
  <2>1. \A c \in Buckets : tab[c] # Null => tab[c] \in Ids
    BY <1>3, <1>7 DEF Null
  <2> QED BY <2>1 DEF IInv, MapInv, Heads
<1>12. Linked'
  <2>1. ASSUME NEW n \in Ids
        PROVE  /\ nodes'[n].hash_ = CityHash[nodes'[n].prefix_]
               /\ nodes'[n].next < n
               /\ nodes'[n].next # Null => NewSlot(nodes'[n].next) = NewSlot(n)
               /\ \A m \in Ids' : (m < n /\ NewSlot(m) = NewSlot(n)) => m <= nodes'[n].next
    <3>1. /\ nodes'[n] = nodes[n] /\ NewSlot(n) = Slot(n)
      BY <1>5, <1>7, <1>8
    <3>2. /\ nodes[n].hash_ = CityHash[nodes[n].prefix_]
          /\ nodes[n].next < n /\ nodes[n].next \in Nat
          /\ nodes[n].next # Null => Slot(nodes[n].next) = Slot(n)
          /\ \A m \in Ids : (m < n /\ Slot(m) = Slot(n)) => m <= nodes[n].next
      BY Slots DEF IInv, MapInv, Linked
    <3>3. nodes[n].next # Null => nodes[n].next \in Ids
      BY <1>3, <1>7, <3>2 DEF Null
    <3>4. \A m \in Ids' : m < n => m \in Ids
      BY <1>3, <1>7
    <3> QED BY <1>8, <3>1, <3>2, <3>3, <3>4
  <2>2. /\ nodes'[N].hash_ = CityHash[nodes'[N].prefix_]
        /\ nodes'[N].next < N
        /\ nodes'[N].next # Null => NewSlot(nodes'[N].next) = NewSlot(N)
        /\ \A m \in Ids' : (m < N /\ NewSlot(m) = NewSlot(N)) => m <= nodes'[N].next
    <3>1. nodes'[N] = x /\ x.next = tab[b]
      BY <1>4, <1>5
    <3>2. tab[b] < N
      BY <1>2, <1>3, <1>7
    <3>3. tab[b] # Null => NewSlot(tab[b]) = b
      BY <1>2, <1>8, <1>11
    <3>4. \A m \in Ids' : m < N => m \in Ids
      BY <1>3, <1>7
    <3> QED BY <1>2, <1>4, <1>8, <1>11, <3>1, <3>2, <3>3, <3>4
  <2> QED BY <1>7, <2>1, <2>2 DEF Linked, Slot, NewSlot
<1>13. Heads'
  <2>1. ASSUME NEW c \in Buckets
        PROVE  /\ tab'[c] # Null => NewSlot(tab'[c]) = c
               /\ \A m \in Ids' : NewSlot(m) = c => m <= tab'[c]
    <3>1. CASE c = b
      BY <1>3, <1>7, <1>8, <1>9, <3>1
    <3>2. CASE c # b
      BY <1>7, <1>8, <1>9, <1>11, <3>2
    <3> QED BY <3>1, <3>2
  <2> QED BY <2>1 DEF Heads, Slot, NewSlot
<1>14. Distinct'
  <2>1. \A m, n \in Ids : nodes[m].prefix_ = nodes[n].prefix_ => m = n
    BY DEF IInv, MapInv, Distinct
  <2>2. nodes'[N].prefix_ = flush.prefix
    BY <1>4, <1>5
  <2>3. \A m \in Ids : nodes'[m] = nodes[m]
    BY <1>5, <1>7
  <2> QED BY <1>2, <1>7, <2>1, <2>2, <2>3 DEF Distinct
<1> QED BY <1>4, <1>5, <1>7, <1>10, <1>12, <1>13, <1>14 DEF MapInv, N, l

LEMMA PutRunStep ==
  ASSUME IInv, PutRun
  PROVE  IInv'
<1> DEFINE N == Len(nodes) + 1
<1>1. /\ flush.at = "run" /\ flush' = [flush EXCEPT !.at = "NewRange", !.node = N]
      /\ UNCHANGED <<pool, inited_, cur_, prefix2range, range_queue_, ranges, process, loop,
                     failures, chunks, acked>>
  BY DEF PutRun, FlushFrame
<1>2. /\ process = "up" /\ inited_ = TRUE /\ flush.prefix \in Prefixes
      /\ flush.chunk \in 1..MaxChunks
  BY <1>1, FlushUp
<1>3. /\ MapInv' /\ Len(nodes') = N /\ \A n \in Ids : nodes'[n] = nodes[n]
      /\ nodes'[N].prefix_ = flush.prefix
  BY PutRunMap
<1>4. /\ Len(nodes) \in Nat /\ N \in Nat /\ Ids \subseteq Ids' /\ N \in Ids' /\ Len(nodes) <= N
      /\ Len(nodes) \in Nat
  BY <1>3 DEF Ids, IInv, MapInv, MapType
<1>5. /\ flush \in Flushes /\ flush.range <= Len(ranges) /\ loop.tmp <= Len(nodes)
      /\ loop.tmp \in Nat /\ prefix2range[flush.prefix] = Null
  BY <1>1 DEF IInv, CacheType, Flushing
<1> HIDE DEF N
<1>6. /\ flush' \in Flushes /\ flush'.at = "NewRange" /\ flush'.node = N
      /\ flush'.range = flush.range /\ flush'.prefix = flush.prefix /\ flush'.chunk = flush.chunk
  BY <1>1, <1>4, <1>5 DEF Flushes, Places
<1>7. CacheType'
  <2>1. loop'.tmp <= Len(nodes') /\ flush'.node <= Len(nodes') /\ flush'.range <= Len(ranges')
    BY <1>1, <1>3, <1>4, <1>5, <1>6
  <2> QED BY <1>1, <1>6, <2>1 DEF IInv, CacheType
<1>8. Pointers'
  <2>1. \A p \in Prefixes : prefix2range[p] # Null => prefix2range[p] \in 1..Len(ranges)
    BY Lengths DEF IInv, MapInv, Pointers, Null
  <2> QED BY <1>1, <1>3, <1>4, <2>1 DEF IInv, Pointers
<1>9. Phases' /\ Rebuilding'
  BY <1>1, <1>2 DEF IInv, Phases, Rebuilding
<1>10. Flushing'
  BY <1>1, <1>2, <1>3, <1>4, <1>5, <1>6 DEF Flushing
<1>11. Committed'
  <2>1. \A q, c, h : OnNode(q, c, h) => OnNode(q, c, h)'
    BY <1>3, <1>4 DEF OnNode, Keeps
  <2>2. \A q, c : Indexes(q, c) => Indexes(q, c)'
    BY <1>1 DEF Indexes
  <2> QED BY <1>1, <2>1, <2>2 DEF IInv, Committed
<1> QED BY <1>3, <1>7, <1>8, <1>9, <1>10, <1>11 DEF IInv

LEMMA NewRangeStep ==
  ASSUME IInv, NewRange
  PROVE  IInv'
<1> DEFINE n == flush.node
           N == Len(ranges) + 1
<1>1. /\ flush.at = "NewRange" /\ NewTab(n)
      /\ prefix2range' = [prefix2range EXCEPT ![flush.prefix] = N]
      /\ flush' = [flush EXCEPT !.at = "Append", !.range = N]
      /\ UNCHANGED <<pool, inited_, tab, cur_, range_queue_, process, loop, failures,
                     chunks, acked>>
  BY DEF NewRange, FlushFrame
<1>2. /\ process = "up" /\ inited_ = TRUE /\ flush.prefix \in Prefixes
      /\ flush.chunk \in 1..MaxChunks
  BY <1>1, FlushUp
<1>3. n \in Ids /\ nodes[n].prefix_ = flush.prefix /\ prefix2range[flush.prefix] = Null
  BY <1>1 DEF IInv, Flushing
<1>4. /\ MapInv' /\ Ids' = Ids /\ SameLinks /\ Len(nodes') = Len(nodes)
      /\ \A m \in Ids : m # n => nodes'[m] = nodes[m]
  <2>1. pool' \in BOOLEAN /\ inited_' \in BOOLEAN /\ cur_' \in Nat
    BY <1>1 DEF IInv, MapInv, MapType
  <2>2. SameLinks /\ \A m \in Ids : m # n => nodes'[m] = nodes[m]
    BY <1>1, <1>3, HeaderWritten
  <2>3. Len(nodes') = Len(nodes)
    BY <2>2 DEF SameLinks
  <2> QED BY <2>1, <2>2, <2>3, MapKept DEF IInv
<1>5. /\ Pointers' /\ ranges' \in Seq(TabRecs) /\ Len(ranges') = N
      /\ prefix2range' \in [Prefixes -> Nat]
      /\ prefix2range'[flush.prefix] = N
      /\ \A p \in Prefixes : p # flush.prefix =>
           /\ prefix2range'[p] = prefix2range[p]
           /\ prefix2range[p] # Null => ranges'[prefix2range[p]] = ranges[prefix2range[p]]
      /\ \A p \in Prefixes : prefix2range[p] # Null => prefix2range'[p] # Null
  BY <1>1, <1>3, <1>4, NewTabResult
<1>6. flush \in Flushes /\ flush.node <= Len(nodes) /\ N \in Nat /\ N # Null
  BY Lengths DEF IInv, MapInv, CacheType, Null
<1> HIDE DEF N, n
<1>7. /\ flush' \in Flushes /\ flush'.at = "Append" /\ flush'.node = flush.node
      /\ flush'.range = N /\ flush'.prefix = flush.prefix /\ flush'.chunk = flush.chunk
  BY <1>1, <1>6 DEF Flushes, Places
<1>8. CacheType'
  <2>1. flush'.node <= Len(nodes') /\ flush'.range <= Len(ranges')
    BY <1>4, <1>5, <1>6, <1>7
  <2> QED BY <1>1, <1>4, <1>5, <1>7, <2>1 DEF IInv, CacheType
<1>9. Phases' /\ Rebuilding'
  BY <1>1, <1>2 DEF IInv, Phases, Rebuilding
<1>10. Flushing'
  BY <1>1, <1>2, <1>5, <1>6, <1>7 DEF Flushing
<1>11. Committed'
  <2>1. ASSUME NEW a \in acked
        PROVE  /\ OnNode(a.prefix, a.chunk, a.here)' /\ prefix2range'[a.prefix] # Null
               /\ a.here = TRUE => Indexes(a.prefix, a.chunk)'
    <3>1. a.prefix \in Prefixes
      BY DEF IInv, CacheType, Acks
    <3>2. /\ OnNode(a.prefix, a.chunk, a.here) /\ prefix2range[a.prefix] # Null
          /\ a.here = TRUE => Indexes(a.prefix, a.chunk)
      BY <1>2 DEF IInv, Committed
    <3>3. a.prefix # flush.prefix
      BY <1>3, <3>2
    <3>4. OnNode(a.prefix, a.chunk, a.here)'
      <4>1. PICK m \in Ids : nodes[m].prefix_ = a.prefix /\ Keeps(nodes[m], a.chunk, a.here)
        BY <3>2 DEF OnNode
      <4>2. nodes'[m] = nodes[m]
        BY <1>3, <1>4, <3>3, <4>1 DEF n
      <4> QED BY <1>4, <4>1, <4>2 DEF OnNode, Keeps
    <3>5. prefix2range'[a.prefix] = prefix2range[a.prefix]
          /\ ranges'[prefix2range[a.prefix]] = ranges[prefix2range[a.prefix]]
      BY <1>5, <3>1, <3>2, <3>3
    <3>6. a.here = TRUE => Indexes(a.prefix, a.chunk)'
      BY <3>2, <3>5 DEF Indexes
    <3> QED BY <3>2, <3>4, <3>5, <3>6
  <2> QED BY <1>1, <2>1 DEF Committed
<1> QED BY <1>4, <1>5, <1>8, <1>9, <1>10, <1>11 DEF IInv

(* What a sequence of chunks contains, and what appending to it adds. *)
Contains(s, c) == \E k \in 1..Len(s) : s[k] = c

LEMMA ContainsMore ==
  ASSUME NEW S, NEW s \in Seq(S), NEW x \in S
  PROVE  /\ Append(s, x) \in Seq(S) /\ Contains(Append(s, x), x)
         /\ \A c : Contains(s, c) => Contains(Append(s, x), c)
<1>1. /\ Append(s, x) \in Seq(S) /\ Len(s) \in Nat /\ Len(Append(s, x)) = Len(s) + 1
      /\ Append(s, x)[Len(s) + 1] = x
      /\ \A m \in 1..Len(s) : Append(s, x)[m] = s[m]
  BY Appended
<1>2. Contains(Append(s, x), x)
  <2>1. Len(s) + 1 \in 1..Len(Append(s, x))
    BY <1>1
  <2> QED BY <1>1, <2>1 DEF Contains
<1>3. \A c : Contains(s, c) => Contains(Append(s, x), c)
  <2>1. \A m \in 1..Len(s) : m \in 1..Len(Append(s, x))
    BY <1>1
  <2> QED BY <1>1, <2>1 DEF Contains
<1> QED BY <1>1, <1>2, <1>3

(* The range of the flush, and its node. *)
LEMMA FlushTarget ==
  ASSUME IInv, flush.at = "Append"
  PROVE  /\ flush.range \in 1..Len(ranges) /\ flush.range = prefix2range[flush.prefix]
         /\ ranges[flush.range].node \in Ids
         /\ nodes[ranges[flush.range].node].prefix_ = flush.prefix
         /\ flush.prefix \in Prefixes /\ flush.chunk \in 1..MaxChunks
<1>1. flush.range # Null /\ flush.range = prefix2range[flush.prefix]
      /\ flush.prefix \in Prefixes /\ flush.chunk \in 1..MaxChunks
  BY FlushUp DEF IInv, Flushing
<1>2. flush.range \in 1..Len(ranges)
  BY <1>1, Lengths DEF IInv, MapInv, CacheType, Null
<1> QED BY <1>1, <1>2 DEF IInv, Pointers

(* Append's entry in blklist. *)
LEMMA IndexedResult ==
  ASSUME IInv, flush.at = "Append", ranges' = Indexed(flush.range)
  PROVE  /\ ranges' \in Seq(TabRecs) /\ Len(ranges') = Len(ranges)
         /\ \A r \in 1..Len(ranges) :
              /\ ranges'[r].node = ranges[r].node
              /\ \A c : Contains(ranges[r].blklist, c) => Contains(ranges'[r].blklist, c)
         /\ Contains(ranges'[flush.range].blklist, flush.chunk)
<1> DEFINE r == flush.range
           x == [ranges[r] EXCEPT !.blklist = Append(ranges[r].blklist, flush.chunk)]
<1>1. r \in 1..Len(ranges) /\ flush.chunk \in 1..MaxChunks /\ ranges \in Seq(TabRecs)
      /\ ranges[r] \in TabRecs /\ ranges[r].blklist \in Seq(1..MaxChunks)
  BY FlushTarget, Lengths DEF IInv, MapInv, CacheType
<1>2. ranges' = [ranges EXCEPT ![r] = x]
  BY DEF Indexed
<1>3. /\ Append(ranges[r].blklist, flush.chunk) \in Seq(1..MaxChunks)
      /\ Contains(Append(ranges[r].blklist, flush.chunk), flush.chunk)
      /\ \A c : Contains(ranges[r].blklist, c) =>
                Contains(Append(ranges[r].blklist, flush.chunk), c)
  <2> DEFINE S == 1..MaxChunks
             s == ranges[r].blklist
             c0 == flush.chunk
  <2>1. s \in Seq(S) /\ c0 \in S
    BY <1>1
  <2> HIDE DEF S, s, c0
  <2>2. /\ Append(s, c0) \in Seq(S) /\ Contains(Append(s, c0), c0)
        /\ \A c : Contains(s, c) => Contains(Append(s, c0), c)
    BY <2>1, ContainsMore
  <2> QED BY <2>2 DEF S, s, c0
<1>4. /\ x \in TabRecs /\ x.node = ranges[r].node
      /\ x.blklist = Append(ranges[r].blklist, flush.chunk)
  BY <1>1, <1>3 DEF TabRecs
<1> HIDE DEF x, r
<1>5. /\ ranges' \in Seq(TabRecs) /\ Len(ranges') = Len(ranges) /\ ranges'[r] = x
      /\ \A m \in 1..Len(ranges) : m # r => ranges'[m] = ranges[m]
  BY <1>1, <1>2, <1>4, Replaced
<1> QED BY <1>3, <1>4, <1>5 DEF r

LEMMA IndexedPointers ==
  ASSUME IInv, ranges' \in Seq(TabRecs), Len(ranges') = Len(ranges), SameLinks,
         \A r \in 1..Len(ranges) : ranges'[r].node = ranges[r].node,
         UNCHANGED <<prefix2range, range_queue_>>
  PROVE  Pointers'
<1>1. Ids' = Ids /\ \A n \in Ids : nodes'[n].prefix_ = nodes[n].prefix_
  BY DEF SameLinks, Ids
<1>2. \A p \in Prefixes : prefix2range[p] # Null => prefix2range[p] \in 1..Len(ranges)
  BY Lengths DEF IInv, MapInv, Pointers, Null
<1> QED BY <1>1, <1>2 DEF IInv, Pointers

LEMMA TabAppendStep ==
  ASSUME IInv, TabAppend
  PROVE  IInv'
<1> DEFINE r == flush.range
           n == ranges[r].node
           h == IF nodes[n].data = <<>> THEN "chunk" ELSE nodes[n].head
           x == [nodes[n] EXCEPT !.data = Append(nodes[n].data, flush.chunk), !.head = h]
           a0 == [prefix |-> flush.prefix, chunk |-> flush.chunk, here |-> TRUE]
<1>1. /\ flush.at = "Append" /\ flush' = Idle
      /\ ranges' = Indexed(r)
      /\ nodes' = [nodes EXCEPT ![n] = x]
      /\ acked' = acked \cup {a0}
      /\ UNCHANGED <<pool, inited_, tab, cur_, prefix2range, range_queue_, process, loop,
                     failures, chunks>>
  BY DEF TabAppend, FlushFrame
<1>2. /\ r \in 1..Len(ranges) /\ r = prefix2range[flush.prefix] /\ n \in Ids
      /\ nodes[n].prefix_ = flush.prefix
      /\ flush.prefix \in Prefixes /\ flush.chunk \in 1..MaxChunks
      /\ process = "up" /\ inited_ = TRUE
  BY <1>1, FlushTarget, FlushUp
<1>3. /\ ranges' \in Seq(TabRecs) /\ Len(ranges') = Len(ranges)
      /\ \A m \in 1..Len(ranges) :
           /\ ranges'[m].node = ranges[m].node
           /\ \A c : Contains(ranges[m].blklist, c) => Contains(ranges'[m].blklist, c)
      /\ Contains(ranges'[r].blklist, flush.chunk)
  BY <1>1, IndexedResult
<1>4. nodes[n] \in NodeRecs /\ nodes[n].data \in Seq(1..MaxChunks) /\ nodes \in Seq(NodeRecs)
  BY <1>2, Slots DEF IInv, MapInv, MapType
<1>5. LET u == Append(nodes[n].data, flush.chunk)
          l == Len(nodes[n].data)
      IN  /\ u \in Seq(1..MaxChunks) /\ l \in Nat /\ Len(u) = l + 1 /\ u[l + 1] = flush.chunk
          /\ \A m \in 1..l : u[m] = nodes[n].data[m]
  <2> DEFINE S == 1..MaxChunks
             s == nodes[n].data
             c0 == flush.chunk
  <2>1. s \in Seq(S) /\ c0 \in S
    BY <1>2, <1>4
  <2> HIDE DEF S, s, c0
  <2>2. /\ Append(s, c0) \in Seq(S) /\ Len(s) \in Nat /\ Len(Append(s, c0)) = Len(s) + 1
        /\ Append(s, c0)[Len(s) + 1] = c0
        /\ \A m \in 1..Len(s) : Append(s, c0)[m] = s[m]
    BY <2>1, Appended
  <2> QED BY <2>2 DEF S, s, c0
<1>6. /\ x \in NodeRecs /\ x.prefix_ = nodes[n].prefix_ /\ x.hash_ = nodes[n].hash_
      /\ x.next = nodes[n].next /\ x.data = Append(nodes[n].data, flush.chunk) /\ x.head = h
  <2>1. h \in {"unwritten", "header", "chunk"}
    BY <1>2, Slots DEF IInv, MapInv
  <2> HIDE DEF h
  <2> QED BY <1>4, <1>5, <2>1 DEF NodeRecs
<1>7. a0 \in Acks /\ a0.prefix = flush.prefix /\ a0.chunk = flush.chunk /\ a0.here = TRUE
  BY <1>2 DEF Acks
<1>8. Idle \in Flushes /\ Idle.at = "idle" /\ Idle.node = 0 /\ Idle.range = 0
  BY CacheAssumption DEF Idle, Flushes, Places, Null
<1>17. /\ \A c, here : Keeps(nodes[n], c, here) => Keeps(x, c, here)
       /\ Keeps(x, flush.chunk, TRUE)
  <2> HIDE DEF x, n
  <2> DEFINE l == Len(nodes[n].data)
  <2>1. /\ l \in Nat /\ Len(x.data) = l + 1 /\ x.data[l + 1] = flush.chunk
        /\ \A k \in 1..l : x.data[k] = nodes[n].data[k] /\ k \in 1..Len(x.data)
        /\ l + 1 \in 1..Len(x.data)
    BY <1>5, <1>6
  <2>2. nodes[n].head = "chunk" => x.head = "chunk"
    BY <1>6
  <2>3. l + 1 = 1 => x.head = "chunk"
    BY <1>4, <1>6, <2>1
  <2> HIDE DEF l
  <2> QED BY <2>1, <2>2, <2>3 DEF Keeps, l
<1> HIDE DEF x, n, r, a0
<1>9. /\ nodes' \in Seq(NodeRecs) /\ Len(nodes') = Len(nodes) /\ nodes'[n] = x
      /\ \A m \in Ids : m # n => nodes'[m] = nodes[m]
  BY <1>1, <1>2, <1>4, <1>6, Replaced DEF Ids
<1>10. SameLinks
  BY <1>1, <1>6, <1>9 DEF SameLinks
<1>11. MapInv' /\ Ids' = Ids
  <2>1. pool' \in BOOLEAN /\ inited_' \in BOOLEAN /\ cur_' \in Nat
    BY <1>1 DEF IInv, MapInv, MapType
  <2> QED BY <1>10, <2>1, MapKept DEF IInv
<1>12. Pointers'
  BY <1>1, <1>3, <1>10, IndexedPointers
<1>13. CacheType'
  <2>1. acked' \subseteq Acks
    BY <1>1, <1>7 DEF IInv, CacheType
  <2>2. Len(nodes') \in Nat /\ Len(ranges') \in Nat
    BY <1>3, <1>9, Lengths DEF IInv, MapInv
  <2>3. loop'.tmp <= Len(nodes')
    BY <1>1, <1>9 DEF IInv, CacheType
  <2> QED BY <1>1, <1>3, <1>8, <2>1, <2>2, <2>3 DEF IInv, CacheType
<1>14. Phases' /\ Rebuilding'
  BY <1>1, <1>2 DEF IInv, Phases, Rebuilding
<1>15. Flushing'
  BY <1>1, <1>8 DEF Flushing
<1>16. Committed'
  <2>1. ASSUME NEW q, NEW c, NEW here, OnNode(q, c, here)
        PROVE  OnNode(q, c, here)'
    <3>1. PICK m \in Ids : nodes[m].prefix_ = q /\ Keeps(nodes[m], c, here)
      BY <2>1 DEF OnNode
    <3>2. nodes'[m].prefix_ = q /\ Keeps(nodes'[m], c, here)
      BY <1>6, <1>9, <1>17, <3>1
    <3> QED BY <1>11, <3>2 DEF OnNode, Keeps
  <2>2. \E m \in Ids' : nodes'[m].prefix_ = flush.prefix /\ Keeps(nodes'[m], flush.chunk, TRUE)
    BY <1>2, <1>6, <1>9, <1>11, <1>17
  <2>3. ASSUME NEW q \in Prefixes, NEW c, Indexes(q, c)
        PROVE  Indexes(q, c)'
    <3>1. prefix2range[q] # Null /\ Contains(ranges[prefix2range[q]].blklist, c)
      BY <2>3 DEF Indexes, Contains
    <3>2. prefix2range[q] \in 1..Len(ranges)
      BY <3>1, Lengths DEF IInv, MapInv, Pointers, Null
    <3>3. Contains(ranges'[prefix2range[q]].blklist, c)
      BY <1>3, <3>1, <3>2
    <3> QED BY <1>1, <3>1, <3>3 DEF Indexes, Contains
  <2>4. prefix2range'[flush.prefix] # Null /\ Contains(ranges'[r].blklist, flush.chunk)
        /\ prefix2range'[flush.prefix] = r
    BY <1>1, <1>2, <1>3, Lengths DEF Null
  <2>5. ASSUME NEW a \in acked'
        PROVE  /\ OnNode(a.prefix, a.chunk, a.here)' /\ prefix2range'[a.prefix] # Null
               /\ a.here = TRUE => Indexes(a.prefix, a.chunk)'
    <3>1. CASE a \in acked
      <4>1. a.prefix \in Prefixes
        BY <3>1 DEF IInv, CacheType, Acks
      <4>2. /\ OnNode(a.prefix, a.chunk, a.here) /\ prefix2range[a.prefix] # Null
            /\ a.here = TRUE => Indexes(a.prefix, a.chunk)
        BY <1>2, <3>1 DEF IInv, Committed
      <4> QED BY <1>1, <2>1, <2>3, <4>1, <4>2
    <3>2. CASE a = a0
      <4>1. a.prefix = flush.prefix /\ a.chunk = flush.chunk /\ a.here = TRUE
        BY <1>7, <3>2
      <4>2. OnNode(a.prefix, a.chunk, a.here)'
        BY <2>2, <4>1 DEF OnNode, Keeps
      <4>3. Indexes(a.prefix, a.chunk)'
        BY <2>4, <4>1 DEF Indexes, Contains
      <4> QED BY <2>4, <4>1, <4>2, <4>3
    <3> QED BY <1>1, <3>1, <3>2
  <2> QED BY <2>5 DEF Committed
<1> QED BY <1>11, <1>12, <1>13, <1>14, <1>15, <1>16 DEF IInv

LEMMA AppendToRangeFailsStep ==
  ASSUME IInv, AppendToRangeFails
  PROVE  IInv'
<1>1. /\ flush.at \in {"run", "NewRange", "Append"} /\ flush' = Idle
      /\ failures < MaxFailures /\ failures' = failures + 1
      /\ ranges' = IF flush.at = "Append" THEN Indexed(flush.range) ELSE ranges
      /\ UNCHANGED <<pool, inited_, nodes, tab, cur_, prefix2range, range_queue_, process, loop,
                     chunks, acked>>
  BY DEF AppendToRangeFails, Fails, FlushFrame
<1>2. process = "up" /\ inited_ = TRUE
  BY <1>1, FlushUp
<1>3. /\ ranges' \in Seq(TabRecs) /\ Len(ranges') = Len(ranges)
      /\ \A m \in 1..Len(ranges) :
           /\ ranges'[m].node = ranges[m].node
           /\ \A c : Contains(ranges[m].blklist, c) => Contains(ranges'[m].blklist, c)
  <2>1. CASE flush.at = "Append"
    BY <1>1, <2>1, IndexedResult
  <2>2. CASE flush.at # "Append"
    BY <1>1, <2>2 DEF IInv, CacheType
  <2> QED BY <2>1, <2>2
<1>4. MapInv' /\ Ids' = Ids /\ SameLinks
  <2>1. pool' \in BOOLEAN /\ inited_' \in BOOLEAN /\ cur_' \in Nat
    BY <1>1 DEF IInv, MapInv, MapType
  <2> QED BY <1>1, <2>1, MapSame DEF IInv, SameLinks, MapInv, MapType
<1>5. Idle \in Flushes /\ Idle.at = "idle" /\ Idle.node = 0 /\ Idle.range = 0
  BY CacheAssumption DEF Idle, Flushes, Places, Null
<1>6. Pointers'
  BY <1>1, <1>3, <1>4, IndexedPointers
<1>7. CacheType'
  <2>1. Len(nodes') \in Nat /\ Len(ranges') \in Nat
    BY <1>1, <1>3, Lengths DEF IInv, MapInv
  <2>2. failures' \in 0..MaxFailures
    BY <1>1, CacheAssumption DEF IInv, CacheType
  <2> QED BY <1>1, <1>3, <1>5, <2>1, <2>2 DEF IInv, CacheType
<1>8. Phases' /\ Rebuilding'
  BY <1>1, <1>2 DEF IInv, Phases, Rebuilding
<1>9. Flushing'
  BY <1>1, <1>5 DEF Flushing
<1>10. Committed'
  <2>1. ASSUME NEW q \in Prefixes, NEW c, Indexes(q, c)
        PROVE  Indexes(q, c)'
    <3>1. prefix2range[q] # Null /\ Contains(ranges[prefix2range[q]].blklist, c)
      BY <2>1 DEF Indexes, Contains
    <3>2. prefix2range[q] \in 1..Len(ranges)
      BY <3>1, Lengths DEF IInv, MapInv, Pointers, Null
    <3>3. Contains(ranges'[prefix2range[q]].blklist, c)
      BY <1>3, <3>1, <3>2
    <3> QED BY <1>1, <3>1, <3>3 DEF Indexes, Contains
  <2>2. \A a \in acked : a.prefix \in Prefixes
    BY DEF IInv, CacheType, Acks
  <2>3. \A q, c, h : OnNode(q, c, h) => OnNode(q, c, h)'
    BY <1>1, <1>4 DEF OnNode, Keeps
  <2> QED BY <1>1, <2>1, <2>2, <2>3 DEF IInv, Committed
<1> QED BY <1>4, <1>6, <1>7, <1>8, <1>9, <1>10 DEF IInv

-----------------------------------------------------------------------------
(* Choosing a range and compacting it.                                     *)

LEMMA AllocateStep ==
  ASSUME IInv, Allocate
  PROVE  IInv'
<1>1. /\ process = "up"
      /\ UNCHANGED <<pool, inited_, nodes, tab, prefix2range, range_queue_, ranges, process, loop,
                     flush, failures, chunks, acked>>
  BY DEF Allocate, CompactFrame
<1>2. cur_' \in Nat
  <2>1. PICK size \in AllocaSizes : cur_' = cur_ + size
    BY DEF Allocate
  <2>2. cur_ \in Nat /\ size \in Nat
    BY CacheAssumption DEF IInv, MapInv, MapType
  <2> QED BY <2>1, <2>2
<1>3. MapInv' /\ Ids' = Ids
  <2>1. pool' \in BOOLEAN /\ inited_' \in BOOLEAN
    BY <1>1 DEF IInv, MapInv, MapType
  <2> QED BY <1>1, <1>2, <2>1, MapSame DEF IInv
<1>4. CacheType' /\ Pointers' /\ Phases' /\ Rebuilding'
  BY <1>1, <1>3 DEF IInv, CacheType, Pointers, Phases, Rebuilding
<1>5. Flushing' /\ Committed'
  BY <1>1, <1>3 DEF IInv, Flushing, Committed, bucket, OnNode, Keeps, Indexes
<1> QED BY <1>3, <1>4, <1>5 DEF IInv

LEMMA ScanStep ==
  ASSUME IInv, MaybeNeedCompaction \/ VisitRange
  PROVE  IInv'
<1>1. UNCHANGED <<pool, inited_, nodes, tab, cur_, prefix2range, range_queue_, ranges, process,
                  loop, flush, failures, chunks, acked>>
  BY DEF MaybeNeedCompaction, VisitRange, CompactFrame
<1>2. MapInv' /\ Ids' = Ids /\ \A n \in Ids : Slot(n)' = Slot(n)
  <2>1. pool' \in BOOLEAN /\ inited_' \in BOOLEAN /\ cur_' \in Nat
    BY <1>1 DEF IInv, MapInv, MapType
  <2> QED BY <1>1, <2>1, MapSame DEF IInv
<1>3. CacheType' /\ Pointers' /\ Phases'
  BY <1>1, <1>2 DEF IInv, CacheType, Pointers, Phases
<1>4. Flushing' /\ Committed'
  BY <1>1, <1>2 DEF IInv, Flushing, Committed, bucket, OnNode, Keeps, Indexes
<1>5. Rebuilding'
  BY <1>1, <1>2 DEF IInv, Rebuilding, Slot
<1> QED BY <1>2, <1>3, <1>4, <1>5 DEF IInv

LEMMA PushItemStep ==
  ASSUME IInv, Scanning, PushItem
  PROVE  IInv'
<1> DEFINE item == [range |-> scan.range, range_size_ |-> scan.range_size_]
<1>1. /\ scan.at = "loop" /\ range_queue_' = Append(range_queue_, item)
      /\ UNCHANGED <<pool, inited_, nodes, tab, cur_, prefix2range, ranges, process, loop, flush,
                     failures, chunks, acked>>
  BY DEF PushItem, CompactFrame
<1>2. process = "up"
  BY <1>1 DEF Scanning, NoScan
<1>3. item \in Items /\ item.range <= Len(ranges)
  BY DEF Scanning, Scans, Items
<1> HIDE DEF item
<1>4. /\ range_queue_' \in Seq(Items) /\ Len(range_queue_) \in Nat
      /\ Len(range_queue_') = Len(range_queue_) + 1 /\ range_queue_'[Len(range_queue_) + 1] = item
      /\ \A k \in 1..Len(range_queue_) : range_queue_'[k] = range_queue_[k]
  BY <1>1, <1>3, Appended DEF IInv, CacheType
<1>5. \A k \in 1..Len(range_queue_') : range_queue_'[k].range <= Len(ranges)
  <2>1. \A k \in 1..Len(range_queue_') : k \in 1..Len(range_queue_) \/ k = Len(range_queue_) + 1
    BY <1>4
  <2> QED BY <1>3, <1>4, <2>1 DEF IInv, Pointers
<1>6. MapInv' /\ Ids' = Ids
  <2>1. pool' \in BOOLEAN /\ inited_' \in BOOLEAN /\ cur_' \in Nat
    BY <1>1 DEF IInv, MapInv, MapType
  <2> QED BY <1>1, <2>1, MapSame DEF IInv
<1>7. CacheType' /\ Pointers' /\ Phases' /\ Rebuilding'
  BY <1>1, <1>2, <1>4, <1>5, <1>6 DEF IInv, CacheType, Pointers, Phases, Rebuilding
<1>8. Flushing' /\ Committed'
  BY <1>1, <1>6 DEF IInv, Flushing, Committed, bucket, OnNode, Keeps, Indexes
<1> QED BY <1>6, <1>7, <1>8 DEF IInv

LEMMA CompactStep ==
  ASSUME IInv, Compact
  PROVE  IInv'
<1> DEFINE r == Head(range_queue_).range
           n == ranges[r].node
           x == [nodes[n] EXCEPT !.data = <<>>]
<1>1. /\ range_queue_ # <<>> /\ r # Null
      /\ nodes' = [nodes EXCEPT ![n] = x]
      /\ acked' = {a \in acked : a.prefix # nodes[n].prefix_}
      /\ UNCHANGED <<pool, inited_, tab, cur_, prefix2range, range_queue_, ranges, process, loop,
                     flush, failures, chunks>>
  BY DEF Compact, NeedCompaction, CompactFrame
<1>2. process = "up" /\ inited_ = TRUE
  <2>1. process = "up"
    BY <1>1 DEF IInv, Phases
  <2> QED BY <2>1 DEF IInv, Phases, MapInv, MapType
<1>3. n \in Ids
  <2>1. range_queue_ \in Seq(Items) /\ 1 \in 1..Len(range_queue_)
        /\ Head(range_queue_) = range_queue_[1] /\ Head(range_queue_) \in Items
    BY <1>1 DEF IInv, CacheType
  <2>2. r \in Nat /\ r <= Len(ranges) /\ Len(ranges) \in Nat
    BY <2>1, Lengths DEF IInv, MapInv, Pointers, Items
  <2>3. r \in 1..Len(ranges)
    BY <1>1, <2>2 DEF Null
  <2> QED BY <2>3 DEF IInv, Pointers
<1>4. nodes[n] \in NodeRecs /\ nodes \in Seq(NodeRecs)
  BY <1>3, Slots DEF IInv, MapInv, MapType
<1>5. /\ x \in NodeRecs /\ x.prefix_ = nodes[n].prefix_ /\ x.hash_ = nodes[n].hash_
      /\ x.next = nodes[n].next
  <2>1. <<>> \in Seq(1..MaxChunks)
    OBVIOUS
  <2> QED BY <1>4, <2>1 DEF NodeRecs
<1> HIDE DEF x, n, r
<1>6. /\ nodes' \in Seq(NodeRecs) /\ Len(nodes') = Len(nodes) /\ nodes'[n] = x
      /\ \A m \in Ids : m # n => nodes'[m] = nodes[m]
  BY <1>1, <1>3, <1>4, <1>5, Replaced DEF Ids
<1>7. SameLinks
  BY <1>1, <1>5, <1>6 DEF SameLinks
<1>8. MapInv' /\ Ids' = Ids
  <2>1. pool' \in BOOLEAN /\ inited_' \in BOOLEAN /\ cur_' \in Nat
    BY <1>1 DEF IInv, MapInv, MapType
  <2> QED BY <1>7, <2>1, MapKept DEF IInv
<1>9. Pointers'
  <2>1. ranges \in Seq(TabRecs)
    BY DEF IInv, CacheType
  <2> QED BY <1>1, <1>7, <2>1, IndexedPointers
<1>10. CacheType'
  BY <1>1, <1>6 DEF IInv, CacheType
<1>11. Phases' /\ Rebuilding'
  BY <1>1, <1>2 DEF IInv, Phases, Rebuilding
<1>12. Flushing'
  <2>1. \A m \in Ids : nodes'[m].prefix_ = nodes[m].prefix_
    BY <1>5, <1>6
  <2>2. bucket' = bucket
    BY <1>1 DEF bucket
  <2> QED BY <1>1, <1>8, <2>1, <2>2 DEF IInv, Flushing
<1>13. Committed'
  <2>1. ASSUME NEW a \in acked'
        PROVE  /\ OnNode(a.prefix, a.chunk, a.here)' /\ prefix2range[a.prefix] # Null
               /\ a.here = TRUE => Indexes(a.prefix, a.chunk)'
    <3>1. a \in acked /\ a.prefix # nodes[n].prefix_
      BY <1>1
    <3>2. /\ OnNode(a.prefix, a.chunk, a.here) /\ prefix2range[a.prefix] # Null
          /\ a.here = TRUE => Indexes(a.prefix, a.chunk)
      BY <1>2, <3>1 DEF IInv, Committed
    <3>3. PICK m \in Ids : nodes[m].prefix_ = a.prefix /\ Keeps(nodes[m], a.chunk, a.here)
      BY <3>2 DEF OnNode
    <3>4. nodes'[m] = nodes[m]
      BY <1>6, <3>1, <3>3
    <3>5. OnNode(a.prefix, a.chunk, a.here)'
      BY <1>8, <3>3, <3>4 DEF OnNode, Keeps
    <3>6. a.here = TRUE => Indexes(a.prefix, a.chunk)'
      BY <1>1, <3>2 DEF Indexes
    <3> QED BY <3>2, <3>5, <3>6
  <2> QED BY <1>1, <2>1 DEF Committed
<1> QED BY <1>8, <1>9, <1>10, <1>11, <1>12, <1>13 DEF IInv

-----------------------------------------------------------------------------
(* The invariant holds, and what follows from it.                          *)

LEMMA NextInv ==
  ASSUME IInv, Scanning, [Next]_vars
  PROVE  IInv'
<1>1. CASE Constructor
  BY <1>1, ConstructStep, ConstructInitStep, RebuildBeginStep, RebuildNodeStep, RebuildBucketStep
     DEF Constructor
<1>2. CASE Ends
  BY <1>2, EndsStep
<1>3. CASE Flush
  BY <1>3, AppendToRangeStep, PutAndGetStep, PutRunStep, NewRangeStep, TabAppendStep,
     AppendToRangeFailsStep DEF Flush
<1>4. CASE Allocate \/ MaybeNeedCompaction \/ VisitRange \/ PushItem \/ Compact
  BY <1>4, AllocateStep, ScanStep, PushItemStep, CompactStep
<1>5. CASE UNCHANGED vars
  <2>1. UNCHANGED <<pool, inited_, nodes, tab, cur_, prefix2range, range_queue_, ranges, process,
                    loop, flush, failures, chunks, acked>>
    BY <1>5 DEF vars, persistent, vinfo_
  <2>2. MapInv' /\ Ids' = Ids /\ \A n \in Ids : Slot(n)' = Slot(n)
    <3>1. pool' \in BOOLEAN /\ inited_' \in BOOLEAN /\ cur_' \in Nat
      BY <2>1 DEF IInv, MapInv, MapType
    <3> QED BY <2>1, <3>1, MapSame DEF IInv
  <2>3. CacheType' /\ Pointers' /\ Phases' /\ Flushing'
    BY <2>1, <2>2 DEF IInv, CacheType, Pointers, Phases, Flushing, bucket
  <2>4. Committed'
    BY <2>1, <2>2 DEF IInv, Committed, OnNode, Keeps, Indexes
  <2>5. Rebuilding'
    BY <2>1, <2>2 DEF IInv, Rebuilding, Slot
  <2> QED BY <2>2, <2>3, <2>4, <2>5 DEF IInv
<1> QED BY <1>1, <1>2, <1>3, <1>4, <1>5 DEF Next

(* Ranges and entries of prefix2range are only added while a process lasts. *)
LEMMA RangesGrow ==
  ASSUME IInv, [Next]_vars, ~Ends
  PROVE  /\ Len(ranges) \in Nat /\ Len(ranges') \in Nat /\ Len(ranges) <= Len(ranges')
         /\ \A p \in Prefixes : prefix2range[p] # Null => prefix2range'[p] # Null
<1>1. Len(ranges) \in Nat
  BY Lengths DEF IInv, MapInv
<1>2. CASE UNCHANGED <<ranges, prefix2range>>
  BY <1>1, <1>2
<1>3. CASE RebuildNode
  <2>1. /\ process = "rebuilding" /\ loop.tmp # Null /\ NewTab(loop.tmp) /\ tab' = tab
        /\ range_queue_' = range_queue_
        /\ prefix2range' = [prefix2range EXCEPT ![nodes[loop.tmp].prefix_] = Len(ranges) + 1]
    BY <1>3 DEF RebuildNode
  <2>2. loop.tmp \in Nat /\ loop.tmp <= Len(nodes) /\ Len(nodes) \in Nat
    BY Lengths DEF IInv, MapInv, CacheType
  <2>3. loop.tmp \in Ids
    BY <2>1, <2>2 DEF Ids, Null
  <2>4. SameLinks
    BY <2>1, <2>3, HeaderWritten
  <2>5. /\ Len(ranges') = Len(ranges) + 1
        /\ \A p \in Prefixes : prefix2range[p] # Null => prefix2range'[p] # Null
    BY <2>1, <2>3, <2>4, NewTabResult
  <2> QED BY <1>1, <2>5
<1>4. CASE NewRange
  <2>1. /\ flush.at = "NewRange" /\ NewTab(flush.node) /\ tab' = tab
        /\ range_queue_' = range_queue_
        /\ prefix2range' = [prefix2range EXCEPT ![flush.prefix] = Len(ranges) + 1]
    BY <1>4 DEF NewRange, FlushFrame
  <2>2. flush.node \in Ids /\ nodes[flush.node].prefix_ = flush.prefix
    BY <2>1 DEF IInv, Flushing
  <2>3. SameLinks
    BY <2>1, <2>2, HeaderWritten
  <2>4. /\ Len(ranges') = Len(ranges) + 1
        /\ \A p \in Prefixes : prefix2range[p] # Null => prefix2range'[p] # Null
    BY <2>1, <2>2, <2>3, NewTabResult
  <2> QED BY <1>1, <2>4
<1>5. CASE TabAppend \/ AppendToRangeFails
  <2>1. prefix2range' = prefix2range
        /\ (ranges' = ranges \/ (flush.at = "Append" /\ ranges' = Indexed(flush.range)))
    BY <1>5 DEF TabAppend, AppendToRangeFails
  <2>2. Len(ranges') = Len(ranges)
    BY <2>1, IndexedResult
  <2> QED BY <1>1, <2>1, <2>2
<1> QED BY <1>2, <1>3, <1>4, <1>5 DEF Next, vars, vinfo_, Constructor, Construct, ConstructInit,
       RebuildBegin, RebuildBucket, Flush, AppendToRange, PutAndGet, PutRun, Allocate,
       MaybeNeedCompaction, VisitRange, PushItem, Compact, CompactFrame

LEMMA ScanningNext ==
  ASSUME IInv, Scanning, [Next]_vars
  PROVE  Scanning'
<1>0. NoScan \in Scans /\ NoScan.range = 0 /\ NoScan.left = {}
  BY DEF NoScan, Scans, Null
<1>1. CASE Ends
  <2>1. scan' = NoScan /\ ranges' = <<>>
    BY <1>1 DEF Ends
  <2> QED BY <1>0, <2>1 DEF Scanning
<1>2. CASE ~Ends
  <2>1. /\ Len(ranges) \in Nat /\ Len(ranges') \in Nat /\ Len(ranges) <= Len(ranges')
        /\ \A p \in Prefixes : prefix2range[p] # Null => prefix2range'[p] # Null
    BY <1>2, RangesGrow
  <2>2. process = "up" => process' = "up"
    BY <1>2 DEF Next, vars, vinfo_, Constructor, Construct, ConstructInit, RebuildBegin,
       RebuildNode, RebuildBucket, Flush, FlushFrame, AppendToRange, PutAndGet, PutRun, NewRange,
       TabAppend, AppendToRangeFails, Allocate, MaybeNeedCompaction, VisitRange, PushItem, Compact,
       CompactFrame
  <2>3. /\ scan \in Scans /\ scan.range \in Nat /\ scan.range <= Len(ranges)
        /\ scan.left \subseteq Prefixes /\ \A p \in scan.left : prefix2range[p] # Null
        /\ process # "up" => scan = NoScan
    BY DEF Scanning, Scans
  <2>4. CASE scan' = scan
    <3>1. scan'.range <= Len(ranges') /\ \A p \in scan'.left : prefix2range'[p] # Null
      BY <2>1, <2>3, <2>4
    <3> QED BY <2>2, <2>3, <2>4, <3>1 DEF Scanning
  <2>5. CASE scan' = NoScan
    BY <1>0, <2>1, <2>5 DEF Scanning
  <2>6. CASE NewRange /\ scan.at = "loop" /\ scan' = [scan EXCEPT !.left = @ \union {flush.prefix}]
    <3>1. flush.at = "NewRange" /\ prefix2range' = [prefix2range EXCEPT ![flush.prefix] = Len(ranges) + 1]
      BY <2>6 DEF NewRange
    <3>2. flush.prefix \in Prefixes /\ process = "up"
      BY <3>1, FlushUp
    <3>3. prefix2range'[flush.prefix] # Null
      BY <2>1, <3>1, <3>2 DEF Null, IInv, CacheType
    <3>4. scan' \in Scans /\ scan'.range = scan.range /\ scan'.left = scan.left \union {flush.prefix}
      BY <2>3, <2>6, <3>2 DEF Scans
    <3>5. scan'.range <= Len(ranges') /\ \A p \in scan'.left : prefix2range'[p] # Null
      BY <2>1, <2>3, <3>3, <3>4
    <3> QED BY <2>2, <3>2, <3>4, <3>5 DEF Scanning
  <2>7. CASE MaybeNeedCompaction
    <3>1. PICK size \in Uninitialized :
            scan' = [at |-> "loop", left |-> {p \in Prefixes : prefix2range[p] # Null},
                     range |-> Null, range_size_ |-> size]
      BY <2>7 DEF MaybeNeedCompaction
    <3>2. process = "up" /\ process' = "up" /\ UNCHANGED <<prefix2range, ranges>>
      BY <2>7 DEF MaybeNeedCompaction, CompactFrame
    <3>3. size \in Nat
      BY CacheAssumption
    <3>4. /\ scan' \in Scans /\ scan'.range = 0
          /\ scan'.left = {p \in Prefixes : prefix2range[p] # Null}
      BY <3>1, <3>3 DEF Scans, Null
    <3> QED BY <2>1, <3>2, <3>4 DEF Scanning
  <2>8. CASE VisitRange
    <3>1. PICK p \in scan.left :
            LET usage == RangeUsage(prefix2range[p])
                next  == [scan EXCEPT !.left = @ \ {p}]
            IN  \/ usage = 0 /\ scan' = next
                \/ 0 < usage /\ scan' = [next EXCEPT !.range = prefix2range[p],
                                                    !.range_size_ = usage]
      BY <2>8 DEF VisitRange
    <3>2. UNCHANGED <<process, prefix2range, ranges>>
      BY <2>8 DEF VisitRange, CompactFrame
    <3>3. process = "up"
      BY <1>0, <2>3
    <3> DEFINE r == prefix2range[p]
    <3>4. p \in Prefixes /\ r \in Nat /\ r # Null /\ r <= Len(ranges)
      BY <2>3, Lengths DEF IInv, MapInv, Pointers
    <3>5. ranges[r].node \in Ids
      BY <2>1, <3>4 DEF IInv, Pointers, Null
    <3>6. nodes[ranges[r].node].data \in Seq(1..MaxChunks)
      BY <3>5, Slots DEF IInv, MapInv
    <3>7. RangeUsage(r) \in Nat
      BY <3>6 DEF RangeUsage
    <3>8. /\ scan' \in Scans /\ scan'.left = scan.left \ {p}
          /\ scan'.range = scan.range \/ scan'.range = r
      BY <2>3, <3>1, <3>4, <3>7 DEF Scans
    <3> HIDE DEF r
    <3>9. scan'.range <= Len(ranges') /\ \A q \in scan'.left : prefix2range'[q] # Null
      BY <2>3, <3>2, <3>4, <3>8
    <3> QED BY <3>2, <3>3, <3>8, <3>9 DEF Scanning
  <2>9. scan' = scan \/ scan' = NoScan \/ MaybeNeedCompaction \/ VisitRange
        \/ (NewRange /\ scan.at = "loop" /\ scan' = [scan EXCEPT !.left = @ \union {flush.prefix}])
    BY <1>2 DEF Next, vars, Constructor, Construct, ConstructInit, RebuildBegin, RebuildNode,
       RebuildBucket, Flush, AppendToRange, PutAndGet, PutRun, NewRange, TabAppend,
       AppendToRangeFails, Allocate, PushItem, Compact
  <2> QED BY <2>4, <2>5, <2>6, <2>7, <2>8, <2>9
<1> QED BY <1>1, <1>2

LEMMA Invariant == Spec => [](IInv /\ Scanning)
<1>1. Init => IInv /\ Scanning
  <2>1. Init => Scanning
    BY DEF Init, Scanning, Scans, NoScan, Null
  <2> QED BY <2>1, InitInv
<1>2. IInv /\ Scanning /\ [Next]_vars => IInv' /\ Scanning'
  BY NextInv, ScanningNext
<1> QED BY <1>1, <1>2, PTL DEF Spec

(* putAndGet (pmem_hash_map.cc:93-129) never gives a prefix a second node, *)
(* whatever hashes collide, calls fail or processes die.                   *)
THEOREM PrefixHasOneNode == Spec => []OneNodePerPrefix
<1>1. IInv => OneNodePerPrefix
  BY ReachableIs DEF IInv, MapInv, Distinct, OneNodePerPrefix
<1> QED BY <1>1, Invariant, PTL

(* A committed chunk stays on a node of its prefix that the map reaches    *)
(* until its range is compacted, over every crash: of the constructor, of  *)
(* putAndGet and of Append.  The header that a constructor writes over a   *)
(* node (fixed_range_tab.cc:45-47) damages no chunk of the process that    *)
(* wrote it; what an earlier process committed first may be damaged.       *)
THEOREM CommittedStaysReachable == Spec => []CommittedReachable
<1>1. IInv => CommittedReachable
  <2> SUFFICES ASSUME IInv PROVE CommittedReachable
    OBVIOUS
  <2>2. Reachable = Ids
    BY ReachableIs DEF IInv
  <2>3. \A a \in acked : OnNode(a.prefix, a.chunk, a.here)
    BY DEF IInv, Committed
  <2>4. ASSUME NEW a \in acked
        PROVE  \E n \in Reachable :
                 /\ nodes[n].prefix_ = a.prefix
                 /\ \E k \in 1..Len(nodes[n].data) :
                      /\ nodes[n].data[k] = a.chunk
                      /\ (a.here /\ k = 1) => nodes[n].head = "chunk"
    <3>1. a.here \in BOOLEAN
      BY DEF IInv, CacheType, Acks
    <3>2. CASE a.here = TRUE
      BY <2>2, <2>3, <3>2 DEF OnNode, Keeps
    <3>3. CASE a.here = FALSE
      BY <2>2, <2>3, <3>3 DEF OnNode, Keeps
    <3> QED BY <3>1, <3>2, <3>3
  <2> QED BY <2>4 DEF CommittedReachable
<1> QED BY <1>1, Invariant, PTL

(* Get (.cc:81-93) finds the range of the prefix's own node, which indexes *)
(* all that this process has committed for the prefix; NewIterator (.cc:180)*)
(* merges all of it.                                                       *)
THEOREM GetFindsAll == Spec => []GetSearchesAll
<1>1. IInv => GetSearchesAll
  <2> SUFFICES ASSUME IInv PROVE GetSearchesAll
    OBVIOUS
  <2>2. \A p \in Prefixes : Get(p) # Null => nodes[ranges[Get(p)].node].prefix_ = p
    BY DEF IInv, Pointers, Get
  <2>3. ASSUME NEW a \in acked, a.here
        PROVE  /\ Get(a.prefix) # Null
               /\ a.chunk \in Range(ranges[Get(a.prefix)].blklist) \intersect NewIterator
    <3> DEFINE r == prefix2range[a.prefix]
    <3>1. a.prefix \in Prefixes /\ a.here \in BOOLEAN
      BY DEF IInv, CacheType, Acks
    <3>2. a.here = TRUE
      BY <2>3, <3>1
    <3>3. r # Null /\ \E k \in 1..Len(ranges[r].blklist) : ranges[r].blklist[k] = a.chunk
      BY <3>2 DEF IInv, Committed, Indexes
    <3>4. r \in 1..Len(ranges)
      BY <3>1, <3>3, Lengths DEF IInv, MapInv, Pointers, Null
    <3>5. ranges[r].blklist \in Seq(1..MaxChunks)
      BY <3>4, Lengths DEF IInv, MapInv
    <3>6. a.chunk \in Range(ranges[r].blklist)
      BY <3>3, <3>5 DEF Range
    <3>7. r \in Known
      BY <3>1, <3>3 DEF Known
    <3>8. a.chunk \in NewIterator
      BY <3>6, <3>7 DEF NewIterator
    <3> QED BY <3>3, <3>6, <3>8 DEF Get
  <2> QED BY <2>2, <2>3 DEF GetSearchesAll
<1> QED BY <1>1, Invariant, PTL

(* When the constructor has returned, RebuildFromPersistentNode            *)
(* (.cc:156-178) has given every prefix with data its range, however many  *)
(* crashes have interrupted it before.                                     *)
THEOREM RebuildIsComplete == Spec => []RebuildComplete
<1>1. IInv => RebuildComplete
  BY DEF IInv, Committed, RebuildComplete, Get
<1> QED BY <1>1, Invariant, PTL

LEMMA NarrowSeq ==
  ASSUME NEW S, NEW T, NEW s \in Seq(S), \A k \in 1..Len(s) : s[k] \in T
  PROVE  s \in Seq(T)
OBVIOUS

(* Every pointer of the map, of prefix2range, of the queue and of the two  *)
(* threads is null or names a node or a range that exists.                 *)
THEOREM CacheTypeCorrect == Spec => []TypeOK
<1>1. IInv /\ Scanning => TypeOK
  <2> SUFFICES ASSUME IInv, Scanning PROVE TypeOK
    OBVIOUS
  <2>2. Len(nodes) \in Nat /\ Len(ranges) \in Nat /\ Len(range_queue_) \in Nat
    BY Lengths DEF IInv, MapInv
  <2>3. pool \in BOOLEAN /\ inited_ \in BOOLEAN /\ cur_ \in Nat
        /\ nodes \in Seq([hash_ : Nat, prefix_ : Prefixes, next : Nat, data : Seq(1..MaxChunks),
                           head : {"unwritten", "header", "chunk"}])
    BY DEF IInv, MapInv, MapType, NodeRecs
  <2>4. tab \in [Buckets -> NodeId]
    BY <2>2 DEF IInv, MapInv, MapType, NodeId
  <2>5. prefix2range \in [Prefixes -> RangeId]
    <3>1. \A p \in Prefixes : prefix2range[p] \in RangeId
      BY <2>2, Lengths DEF IInv, MapInv, Pointers, RangeId
    <3> QED BY <3>1 DEF IInv, CacheType
  <2>6. range_queue_ \in Seq([range : RangeId, range_size_ : Nat])
    <3>1. ASSUME NEW k \in 1..Len(range_queue_)
          PROVE  range_queue_[k] \in [range : RangeId, range_size_ : Nat]
      <4>1. range_queue_[k] \in [range : Nat, range_size_ : Nat]
        <5>1. range_queue_[k] \in Items
          BY DEF IInv, CacheType
        <5> QED BY <5>1 DEF Items
      <4>2. range_queue_[k].range \in RangeId
        BY <2>2, <4>1 DEF IInv, Pointers, RangeId
      <4> QED BY <4>1, <4>2
    <3> QED BY <3>1, NarrowSeq DEF IInv, CacheType
  <2>7. ranges \in Seq([node : NodeId \ {Null}, blklist : Seq(1..MaxChunks)])
    <3>1. ASSUME NEW k \in 1..Len(ranges)
          PROVE  ranges[k] \in [node : NodeId \ {Null}, blklist : Seq(1..MaxChunks)]
      <4>1. ranges[k] \in [node : Nat, blklist : Seq(1..MaxChunks)]
        <5>1. ranges[k] \in TabRecs
          BY Lengths DEF IInv, MapInv
        <5> QED BY <5>1 DEF TabRecs
      <4>2. ranges[k].node \in NodeId \ {Null}
        BY <2>2 DEF IInv, Pointers, NodeId, Ids, Null
      <4> QED BY <4>1, <4>2
    <3> QED BY <3>1, NarrowSeq DEF IInv, CacheType
  <2>8. loop \in [i : 0..TabLen, tmp : NodeId]
    <3>1. loop \in [i : 0..TabLen, tmp : Nat] /\ loop.tmp <= Len(nodes)
      BY DEF IInv, CacheType
    <3>2. loop.tmp \in NodeId
      BY <2>2, <3>1 DEF NodeId
    <3> QED BY <3>1, <3>2
  <2>9. /\ flush.at \in {"idle", "putAndGet", "run", "NewRange", "Append"}
        /\ flush.node \in NodeId /\ flush.range \in RangeId
    <3>1. flush \in Flushes /\ flush.node <= Len(nodes) /\ flush.range <= Len(ranges)
      BY DEF IInv, CacheType
    <3> QED BY <2>2, <3>1 DEF Flushes, Places, NodeId, RangeId
  <2>10. scan \in [at : {"idle", "loop"}, left : SUBSET Prefixes, range : RangeId,
                   range_size_ : Nat]
    <3>1. scan \in Scans /\ scan.range <= Len(ranges)
      BY DEF Scanning
    <3> QED BY <2>2, <3>1 DEF Scans, RangeId
  <2> QED BY <2>3, <2>4, <2>5, <2>6, <2>7, <2>8, <2>9, <2>10 DEF TypeOK, IInv, CacheType, Acks
<1> QED BY <1>1, Invariant, PTL

-----------------------------------------------------------------------------
(* The map as a set of prefixes.                                           *)

Mapped == {nodes[n].prefix_ : n \in Reachable}
MapOfPrefixes == INSTANCE ContentSet WITH Contents <- Prefixes, stored <- Mapped

MappedWhole == Mapped = {nodes[n].prefix_ : n \in Ids}

LEMMA MappedIs == MapInv => MappedWhole
BY ReachableIs DEF Mapped, MappedWhole

LEMMA MappedNext == MapInv' => MappedWhole'
BY MappedIs, PTL

(* A step other than putAndGet's transaction leaves the prefixes alone. *)
LEMMA PrefixesStay ==
  ASSUME IInv, [Next]_vars
  PROVE  \/ PutRun
         \/ Len(nodes') = Len(nodes) /\ \A n \in Ids : nodes'[n].prefix_ = nodes[n].prefix_
<1>1. ASSUME nodes' = nodes
      PROVE  Len(nodes') = Len(nodes) /\ \A n \in Ids : nodes'[n].prefix_ = nodes[n].prefix_
  BY <1>1
<1>2. ASSUME NEW m \in Ids, NEW d \in Seq(1..MaxChunks), NEW h \in {"unwritten", "header", "chunk"},
             nodes' = [nodes EXCEPT ![m] = [nodes[m] EXCEPT !.data = d, !.head = h]]
      PROVE  Len(nodes') = Len(nodes) /\ \A n \in Ids : nodes'[n].prefix_ = nodes[n].prefix_
  <2> DEFINE x == [nodes[m] EXCEPT !.data = d, !.head = h]
  <2>1. nodes[m] \in NodeRecs /\ nodes \in Seq(NodeRecs)
    BY Slots DEF IInv, MapInv, MapType
  <2>2. x \in NodeRecs /\ x.prefix_ = nodes[m].prefix_
    BY <2>1 DEF NodeRecs
  <2>3. nodes' = [nodes EXCEPT ![m] = x]
    BY <1>2
  <2> HIDE DEF x
  <2>4. Len(nodes') = Len(nodes) /\ nodes'[m] = x /\ \A n \in Ids : n # m => nodes'[n] = nodes[n]
    BY <2>1, <2>2, <2>3, Replaced DEF Ids
  <2> QED BY <2>2, <2>4
<1>3. CASE TabAppend
  <2> DEFINE n == ranges[flush.range].node
             d == Append(nodes[n].data, flush.chunk)
             h == IF nodes[n].data = <<>> THEN "chunk" ELSE nodes[n].head
  <2>1. /\ flush.at = "Append"
        /\ nodes' = [nodes EXCEPT ![n] = [nodes[n] EXCEPT !.data = d, !.head = h]]
    BY <1>3 DEF TabAppend
  <2>2. n \in Ids /\ flush.chunk \in 1..MaxChunks
    BY <2>1, FlushTarget
  <2>3. nodes[n].data \in Seq(1..MaxChunks) /\ h \in {"unwritten", "header", "chunk"}
    BY <2>2, Slots DEF IInv, MapInv
  <2>4. d \in Seq(1..MaxChunks)
    BY <2>2, <2>3
  <2> HIDE DEF n, d, h
  <2> QED BY <1>2, <2>1, <2>2, <2>3, <2>4
<1>4. CASE Compact
  <2> DEFINE r == Head(range_queue_).range
             n == ranges[r].node
  <2>1. range_queue_ # <<>> /\ r # Null /\ nodes' = [nodes EXCEPT ![n].data = <<>>]
    BY <1>4 DEF Compact, NeedCompaction
  <2>2. range_queue_ \in Seq(Items) /\ 1 \in 1..Len(range_queue_)
        /\ Head(range_queue_) = range_queue_[1] /\ Head(range_queue_) \in Items
    BY <2>1 DEF IInv, CacheType
  <2>3. r \in Nat /\ r <= Len(ranges) /\ Len(ranges) \in Nat
    BY <2>2, Lengths DEF IInv, MapInv, Pointers, Items
  <2>4. n \in Ids
    BY <2>1, <2>3 DEF IInv, Pointers, Null
  <2>5. <<>> \in Seq(1..MaxChunks)
    OBVIOUS
  <2> HIDE DEF n, r
  <2>6. nodes[n] \in NodeRecs /\ nodes[n].head \in {"unwritten", "header", "chunk"}
    BY <2>4, Slots DEF IInv, MapInv
  <2>7. nodes' = [nodes EXCEPT ![n] = [nodes[n] EXCEPT !.data = <<>>, !.head = nodes[n].head]]
    BY <2>1, <2>6 DEF NodeRecs
  <2> QED BY <1>2, <2>4, <2>5, <2>6, <2>7
<1>5. CASE RebuildNode \/ NewRange
  <2>1. PICK n \in Ids : NewTab(n) /\ tab' = tab
    <3>1. CASE RebuildNode
      <4>1. /\ loop.tmp # Null /\ loop.tmp \in Nat /\ loop.tmp <= Len(nodes) /\ Len(nodes) \in Nat
            /\ NewTab(loop.tmp) /\ tab' = tab
        BY <3>1, Lengths DEF RebuildNode, IInv, MapInv, CacheType
      <4>2. loop.tmp \in Ids
        BY <4>1 DEF Ids, Null
      <4> QED BY <4>1, <4>2
    <3>2. CASE NewRange
      BY <3>2 DEF NewRange, IInv, Flushing
    <3> QED BY <1>5, <3>1, <3>2
  <2> QED BY <2>1, HeaderWritten DEF SameLinks
<1>6. nodes' = nodes \/ PutRun \/ TabAppend \/ Compact \/ RebuildNode \/ NewRange
  BY DEF Next, vars, persistent, Constructor, Construct, ConstructInit, RebuildBegin,
     RebuildBucket, Ends, Flush, AppendToRange, PutAndGet, AppendToRangeFails, Allocate,
     MaybeNeedCompaction, VisitRange, PushItem
<1> QED BY <1>1, <1>3, <1>4, <1>5, <1>6

(* The persistent map of the cache (pmem_hash_map.cc:93-129) implements    *)
(* ContentSet: a prefix is added once, by the transaction of putAndGet, in *)
(* which its node and the bucket change together, and no crash, failure,   *)
(* reopening or compaction takes one away.                                 *)
THEOREM MapIsContentSet == Spec => MapOfPrefixes!Spec
<1>1. Init => MapOfPrefixes!Init
  <2> SUFFICES ASSUME Init PROVE Mapped = {}
    BY DEF MapOfPrefixes!Init
  <2>1. Mapped = {nodes[n].prefix_ : n \in Ids}
    BY InitInv, MappedIs DEF IInv, MappedWhole
  <2>2. Ids = {}
    BY DEF Init, Ids
  <2> QED BY <2>1, <2>2
<1>2. ASSUME IInv, Scanning, [Next]_vars PROVE [MapOfPrefixes!Next]_Mapped
  <2>1. IInv'
    BY <1>2, NextInv
  <2>2. /\ Mapped = {nodes[n].prefix_ : n \in Ids}
        /\ Mapped' = {nodes'[n].prefix_ : n \in Ids'}
    BY <1>2, <2>1, MappedIs, MappedNext DEF IInv, MappedWhole
  <2>3. CASE PutRun
    <3>1. /\ MapInv' /\ Len(nodes') = Len(nodes) + 1 /\ \A n \in Ids : nodes'[n] = nodes[n]
          /\ nodes'[Len(nodes) + 1].prefix_ = flush.prefix
      BY <1>2, <2>3, PutRunMap
    <3>2. Len(nodes) \in Nat
      BY <1>2 DEF IInv, MapInv, MapType
    <3>3. /\ \A n \in Ids' : n \in Ids \/ n = Len(nodes) + 1
          /\ \A n \in Ids : n \in Ids'
          /\ Len(nodes) + 1 \in Ids'
      BY <3>1, <3>2 DEF Ids
    <3>4. Mapped' = Mapped \cup {flush.prefix}
      BY <2>2, <3>1, <3>3
    <3>5. flush.at = "run"
      BY <2>3 DEF PutRun
    <3>6. flush.prefix \in Prefixes /\ \A n \in Ids : nodes[n].prefix_ # flush.prefix
      BY <1>2, <3>5, FlushUp DEF IInv, Flushing
    <3>7. flush.prefix \notin Mapped
      BY <2>2, <3>6
    <3> QED BY <3>4, <3>6, <3>7 DEF MapOfPrefixes!Next, MapOfPrefixes!Add
  <2>4. CASE Len(nodes') = Len(nodes) /\ \A n \in Ids : nodes'[n].prefix_ = nodes[n].prefix_
    <3>1. Ids' = Ids
      BY <2>4 DEF Ids
    <3> QED BY <2>2, <2>4, <3>1
  <2> QED BY <1>2, <2>3, <2>4, PrefixesStay
<1>3. IInv /\ Scanning /\ [Next]_vars => [MapOfPrefixes!Next]_Mapped
  BY <1>2
<1> QED BY <1>1, <1>3, Invariant, PTL DEF Spec, MapOfPrefixes!Spec

=============================================================================
