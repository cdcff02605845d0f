------------------------- MODULE PmemHashMapProofs -------------------------
(***************************************************************************)
(* pmem_hash_map is a set of contents that survives crashes, getAll is a   *)
(* snapshot of it, and a crash leaks at most one content: proved for any   *)
(* contents, any hash function, any number of buckets and of crashes.      *)
(***************************************************************************)
EXTENDS PmemHashMap, FiniteSetTheorems, SequenceTheorems, WellFoundedInduction, TLAPS

NodeRecs == [p_content : Contents, next : Nat]
PutRecs == [at : {"idle", "put", "run", "commit"}, content : Contents \union {NoContent},
            head : Nat]
ScanRecs == [at : {"idle", "bucket", "walk", "done"}, i : Nat, node : Nat,
             vec : Seq(Contents)]

-----------------------------------------------------------------------------
(* Sequences and numbers.                                                  *)

LEMMA Appended ==
  ASSUME NEW S, NEW s \in Seq(S), NEW x \in S
  PROVE  LET u == Append(s, x)
         IN  /\ u \in Seq(S) /\ Len(s) \in Nat /\ Len(u) = Len(s) + 1 /\ u[Len(s) + 1] = x
             /\ \A m \in 1..Len(s) : u[m] = s[m]
OBVIOUS

LEMMA Shortened ==
  ASSUME NEW S, NEW s \in Seq(S), Len(s) # 0
  PROVE  LET u == SubSeq(s, 1, Len(s) - 1)
         IN  /\ u \in Seq(S) /\ Len(s) \in Nat /\ Len(s) - 1 \in Nat /\ Len(u) = Len(s) - 1
             /\ \A m \in 1..(Len(s) - 1) : u[m] = s[m]
<1> DEFINE n == Len(s) - 1
           u == SubSeq(s, 1, n)
<1>1. n \in Nat /\ Len(s) \in Nat /\ 1 \in Int /\ n \in Int /\ \A m \in 1..n : s[m] \in S
  OBVIOUS
<1>2. /\ u \in Seq(S) /\ Len(u) = IF 1 <= n THEN n - 1 + 1 ELSE 0
      /\ \A m \in 1..(n - 1 + 1) : u[m] = s[1 + m - 1]
  BY <1>1, SubSeqProperties
<1> HIDE DEF n, u
<1>3. Len(u) = n /\ \A m \in 1..n : u[m] = s[m]
  <2>1. n - 1 + 1 = n /\ \A m \in 1..n : 1 + m - 1 = m
    BY <1>1
  <2> QED BY <1>1, <1>2, <2>1
<1> QED BY <1>1, <1>2, <1>3 DEF n, u

(* A set of numbers has a least one: the induction over chains. *)
LEMMA LeastNumber ==
  ASSUME NEW T, T \subseteq Nat, T # {}
  PROVE  \E x \in T : \A y \in T : ~(y < x)
<1>1. IsWellFoundedOn(OpToRel(<, Nat), Nat)
  BY NatLessThanWellFounded, Zenon
<1>2. PICK x \in T : \A y \in T : ~(<<y, x>> \in OpToRel(<, Nat))
  BY <1>1, WFMin, Zenon
<1>3. ASSUME NEW y \in T, y < x PROVE FALSE
  <2>1. y \in Nat /\ x \in Nat
    OBVIOUS
  <2>2. <<y, x>> \in OpToRel(<, Nat)
    BY <1>3, <2>1 DEF OpToRel
  <2> QED BY <1>2, <2>2, Zenon
<1> QED BY <1>3

-----------------------------------------------------------------------------
(* A map: nodes h and bucket heads t, as they are or as a crash would      *)
(* leave them.                                                             *)

HashSlot(c) == hashCode[c] % TabLen
Slot(h, n) == HashSlot(h[n].p_content)

MapType(h, t) ==
  /\ h \in Seq(NodeRecs) /\ t \in [Buckets -> Nat]
  /\ \A b \in Buckets : t[b] <= Len(h)

(* A node is linked to the node before it in its bucket, ... *)
Linked(h) ==
  \A n \in 1..Len(h) :
    /\ h[n].next < n
    /\ h[n].next # Null => Slot(h, h[n].next) = Slot(h, n)
    /\ \A m \in 1..Len(h) : (m < n /\ Slot(h, m) = Slot(h, n)) => m <= h[n].next

(* ... the last one of a bucket is its head, ... *)
Heads(h, t) ==
  \A b \in Buckets : /\ t[b] # Null => Slot(h, t[b]) = b
                     /\ \A m \in 1..Len(h) : Slot(h, m) = b => m <= t[b]

(* ... and no two nodes have a content in common. *)
Distinct(h) == \A m, n \in 1..Len(h) : h[m].p_content = h[n].p_content => m = n

WellLinked(h, t) == MapType(h, t) /\ Linked(h) /\ Heads(h, t) /\ Distinct(h)

LEMMA HashInTab ==
  ASSUME NEW c \in Contents
  PROVE  HashSlot(c) \in Buckets /\ HashSlot(c) \in Nat /\ HashSlot(c) < TabLen
<1>1. hashCode[c] \in Nat /\ TabLen \in Nat /\ TabLen > 0
  BY MapAssumption
<1>2. \A k \in Nat : k % TabLen \in 0..(TabLen - 1)
  BY <1>1
<1>3. HashSlot(c) \in 0..(TabLen - 1)
  BY <1>1, <1>2 DEF HashSlot
<1> QED BY <1>1, <1>3 DEF Buckets

LEMMA NodeFacts ==
  ASSUME NEW h \in Seq(NodeRecs), NEW n \in 1..Len(h)
  PROVE  /\ h[n] \in NodeRecs /\ h[n].p_content \in Contents /\ h[n].next \in Nat
         /\ n \in Nat /\ n # Null /\ Len(h) \in Nat
         /\ Slot(h, n) \in Buckets /\ Slot(h, n) \in Nat /\ Slot(h, n) < TabLen
<1>1. h[n] \in NodeRecs /\ n \in Nat /\ n # Null /\ Len(h) \in Nat
  BY DEF Null
<1>2. h[n].p_content \in Contents /\ h[n].next \in Nat
  BY <1>1 DEF NodeRecs
<1> QED BY <1>1, <1>2, HashInTab DEF Slot

(* put's transaction: a new node in front of its bucket. *)
LEMMA Grown ==
  ASSUME NEW h, NEW t, WellLinked(h, t), NEW c \in Contents,
         \A n \in 1..Len(h) : h[n].p_content # c
  PROVE  LET new == [p_content |-> c, next |-> t[HashSlot(c)]]
             g == Append(h, new)
             u == [t EXCEPT ![HashSlot(c)] = Len(h) + 1]
         IN  /\ WellLinked(g, u) /\ Len(h) \in Nat /\ Len(g) = Len(h) + 1
             /\ g[Len(h) + 1] = new /\ \A n \in 1..Len(h) : g[n] = h[n]
<1> DEFINE b == HashSlot(c)
           new == [p_content |-> c, next |-> t[b]]
           g == Append(h, new)
           N == Len(h)
           u == [t EXCEPT ![b] = N + 1]
<1>1. h \in Seq(NodeRecs) /\ t \in [Buckets -> Nat] /\ (\A d \in Buckets : t[d] <= N) /\ N \in Nat
  BY DEF WellLinked, MapType
<1>2. b \in Buckets /\ t[b] \in Nat /\ t[b] <= N
  BY <1>1, HashInTab
<1>3. new \in NodeRecs /\ new.p_content = c /\ new.next = t[b]
  BY <1>2 DEF NodeRecs
<1>4. u \in [Buckets -> Nat] /\ u[b] = N + 1 /\ \A d \in Buckets : d # b => u[d] = t[d]
  BY <1>1, <1>2
<1> HIDE DEF new, u, b
<1>5. /\ g \in Seq(NodeRecs) /\ Len(g) = N + 1 /\ g[N + 1] = new
      /\ \A n \in 1..N : g[n] = h[n]
  BY <1>1, <1>3, Appended
<1> HIDE DEF g, N
<1>6. /\ \A n \in 1..N : Slot(g, n) = Slot(h, n)
      /\ Slot(g, N + 1) = b
  BY <1>3, <1>5 DEF Slot, b
<1>7. \A n \in 1..Len(g) : n \in 1..N \/ n = N + 1
  BY <1>1, <1>5
<1>8. MapType(g, u)
  <2>1. \A d \in Buckets : u[d] <= N + 1
    BY <1>1, <1>4
  <2> QED BY <1>4, <1>5, <2>1 DEF MapType
<1>9. /\ \A d \in Buckets : (t[d] # Null => Slot(h, t[d]) = d /\ t[d] \in 1..N)
      /\ \A d \in Buckets : \A m \in 1..N : Slot(h, m) = d => m <= t[d]
  BY <1>1 DEF WellLinked, Heads, Null, N
<1>10. Linked(g)
  <2>1. ASSUME NEW n \in 1..N
        PROVE  /\ g[n].next < n
               /\ g[n].next # Null => Slot(g, g[n].next) = Slot(g, n)
               /\ \A m \in 1..Len(g) : (m < n /\ Slot(g, m) = Slot(g, n)) => m <= g[n].next
    <3>1. /\ h[n].next < n /\ (h[n].next # Null => Slot(h, h[n].next) = Slot(h, n))
          /\ \A m \in 1..N : (m < n /\ Slot(h, m) = Slot(h, n)) => m <= h[n].next
          /\ h[n].next \in Nat
      BY <1>1, NodeFacts DEF WellLinked, Linked, N
    <3>2. h[n].next # Null => h[n].next \in 1..N
      BY <1>1, <3>1 DEF Null
    <3>3. \A m \in 1..Len(g) : m < n => m \in 1..N
      BY <1>1, <1>5
    <3> QED BY <1>5, <1>6, <3>1, <3>2, <3>3
  <2>2. /\ g[N + 1].next < N + 1
        /\ g[N + 1].next # Null => Slot(g, g[N + 1].next) = Slot(g, N + 1)
        /\ \A m \in 1..Len(g) : (m < N + 1 /\ Slot(g, m) = Slot(g, N + 1)) => m <= g[N + 1].next
    <3>1. g[N + 1].next = t[b] /\ t[b] < N + 1
      BY <1>1, <1>2, <1>3, <1>5
    <3>2. t[b] # Null => t[b] \in 1..N /\ Slot(h, t[b]) = b
      BY <1>2, <1>9
    <3>3. \A m \in 1..N : Slot(h, m) = b => m <= t[b]
      BY <1>2, <1>9
    <3>4. \A m \in 1..Len(g) : m < N + 1 => m \in 1..N
      BY <1>1, <1>5
    <3> QED BY <1>6, <3>1, <3>2, <3>3, <3>4
  <2> QED BY <1>7, <2>1, <2>2 DEF Linked
<1>11. Heads(g, u)
  <2> SUFFICES ASSUME NEW d \in Buckets
               PROVE  /\ u[d] # Null => Slot(g, u[d]) = d
                      /\ \A m \in 1..Len(g) : Slot(g, m) = d => m <= u[d]
    BY DEF Heads
  <2>1. CASE d = b
    BY <1>1, <1>4, <1>5, <1>6, <2>1
  <2>2. CASE d # b
    BY <1>4, <1>6, <1>7, <1>9, <2>2
  <2> QED BY <2>1, <2>2
<1>12. Distinct(g)
  <2>1. \A m, n \in 1..N : h[m].p_content = h[n].p_content => m = n
    BY DEF WellLinked, Distinct, N
  <2>2. \A n \in 1..N : g[n].p_content # c /\ g[N + 1].p_content = c
    BY <1>3, <1>5 DEF N
  <2> QED BY <1>5, <1>7, <2>1, <2>2 DEF Distinct
<1>13. WellLinked(g, u)
  BY <1>8, <1>10, <1>11, <1>12 DEF WellLinked
<1> QED BY <1>1, <1>5, <1>13 DEF g, u, N, new, b

(* Its undoing. *)
LEMMA Shrunk ==
  ASSUME NEW h, NEW t, WellLinked(h, t), Len(h) # 0
  PROVE  LET g == SubSeq(h, 1, Len(h) - 1)
             u == [t EXCEPT ![Slot(h, Len(h))] = h[Len(h)].next]
         IN  /\ WellLinked(g, u) /\ Len(h) \in Nat /\ Len(g) = Len(h) - 1
             /\ \A n \in 1..(Len(h) - 1) : g[n] = h[n]
<1> DEFINE N == Len(h)
           b == Slot(h, N)
           g == SubSeq(h, 1, N - 1)
           u == [t EXCEPT ![b] = h[N].next]
<1>1. h \in Seq(NodeRecs) /\ t \in [Buckets -> Nat] /\ (\A d \in Buckets : t[d] <= N) /\ N \in Nat
      /\ N \in 1..N /\ N >= 1
  BY DEF WellLinked, MapType
<1>2. b \in Buckets /\ h[N].next \in Nat /\ h[N].next < N
      /\ (h[N].next # Null => Slot(h, h[N].next) = b)
      /\ \A m \in 1..N : (m < N /\ Slot(h, m) = b) => m <= h[N].next
  BY <1>1, NodeFacts DEF WellLinked, Linked
<1>3. u \in [Buckets -> Nat] /\ u[b] = h[N].next /\ \A d \in Buckets : d # b => u[d] = t[d]
  BY <1>1, <1>2
<1>4. g \in Seq(NodeRecs) /\ Len(g) = N - 1 /\ \A n \in 1..(N - 1) : g[n] = h[n]
  BY <1>1, Shortened
<1> HIDE DEF u, b, g
<1>5. \A n \in 1..(N - 1) : Slot(g, n) = Slot(h, n) /\ n \in 1..N /\ n < N
  BY <1>1, <1>4 DEF Slot
<1>6. \A d \in Buckets : d # b => t[d] <= N - 1 /\ (t[d] # Null => t[d] \in 1..(N - 1))
  <2> SUFFICES ASSUME NEW d \in Buckets, d # b
               PROVE  t[d] <= N - 1 /\ (t[d] # Null => t[d] \in 1..(N - 1))
    OBVIOUS
  <2>1. t[d] \in Nat /\ t[d] <= N /\ (t[d] # Null => Slot(h, t[d]) = d)
    BY <1>1 DEF WellLinked, Heads
  <2>2. t[d] # N
    BY <1>1, <2>1 DEF Null, b
  <2> QED BY <1>1, <2>1, <2>2 DEF Null
<1>7. MapType(g, u)
  <2>1. \A d \in Buckets : u[d] <= N - 1
    BY <1>1, <1>2, <1>3, <1>6
  <2> QED BY <1>3, <1>4, <2>1 DEF MapType
<1>8. Linked(g)
  <2> SUFFICES ASSUME NEW n \in 1..(N - 1)
               PROVE  /\ g[n].next < n
                      /\ g[n].next # Null => Slot(g, g[n].next) = Slot(g, n)
                      /\ \A m \in 1..(N - 1) : (m < n /\ Slot(g, m) = Slot(g, n)) => m <= g[n].next
    BY <1>4 DEF Linked
  <2>1. /\ h[n].next < n /\ (h[n].next # Null => Slot(h, h[n].next) = Slot(h, n))
        /\ \A m \in 1..N : (m < n /\ Slot(h, m) = Slot(h, n)) => m <= h[n].next
        /\ h[n].next \in Nat
    BY <1>1, <1>5, NodeFacts DEF WellLinked, Linked
  <2>2. h[n].next # Null => h[n].next \in 1..(N - 1)
    BY <1>1, <2>1 DEF Null
  <2> QED BY <1>4, <1>5, <2>1, <2>2
<1>9. Heads(g, u)
  <2> SUFFICES ASSUME NEW d \in Buckets
               PROVE  /\ u[d] # Null => Slot(g, u[d]) = d
                      /\ \A m \in 1..(N - 1) : Slot(g, m) = d => m <= u[d]
    BY <1>4 DEF Heads
  <2>1. CASE d = b
    <3>1. h[N].next # Null => h[N].next \in 1..(N - 1)
      BY <1>1, <1>2 DEF Null
    <3> QED BY <1>2, <1>3, <1>5, <2>1, <3>1
  <2>2. CASE d # b
    <3>1. (t[d] # Null => Slot(h, t[d]) = d) /\ \A m \in 1..N : Slot(h, m) = d => m <= t[d]
      BY DEF WellLinked, Heads
    <3> QED BY <1>3, <1>5, <1>6, <2>2, <3>1
  <2> QED BY <2>1, <2>2
<1>10. Distinct(g)
  BY <1>4, <1>5 DEF WellLinked, Distinct
<1>11. WellLinked(g, u)
  BY <1>7, <1>8, <1>9, <1>10 DEF WellLinked
<1> QED BY <1>1, <1>4, <1>11 DEF g, u, b

-----------------------------------------------------------------------------
(* The invariant.                                                          *)

Types ==
  /\ pool \in BOOLEAN /\ process \in {"down", "created", "running"}
  /\ failures \in 0..MaxCrashes /\ tabLen_ \in {0, TabLen}
  /\ allocated \subseteq Contents /\ IsFiniteSet(allocated)
  /\ put \in PutRecs /\ put.head <= Len(heap)
  /\ getAll \in ScanRecs /\ getAll.node <= Len(heap)
  /\ before \subseteq Contents

(* A map that was not initialised is empty, and only a process that has    *)
(* come up writes or reads.                                                *)
Phases ==
  /\ tabLen_ = 0 => heap = <<>>
  /\ process = "created" => tabLen_ = 0
  /\ pool = FALSE => (process = "down" /\ tabLen_ = 0)
  /\ process # "running" => (put = PutIdle /\ getAll = ScanIdle /\ before = {})

(* The content of a put is in no node before its transaction runs; the     *)
(* bucket head that was read before it is still the head when it runs.     *)
Fresh(c) == \A n \in 1..Len(heap) : heap[n].p_content # c
Putting ==
  /\ \A n \in 1..Len(heap) : heap[n].p_content \in allocated
  /\ put.at # "idle" => put.content \in allocated
  /\ put.at \in {"put", "run"} => Fresh(put.content)
  /\ put.at \in {"run", "commit"} => tabLen_ = TabLen
  /\ put.at = "run" => put.head = tab_[bucket]
  /\ put.at = "commit" =>
       Len(heap) # 0 /\ heap[Len(heap)] = [p_content |-> put.content, next |-> put.head]

(* getAll has been through the buckets below i and, in bucket i, through   *)
(* the nodes that are newer than its node.                                 *)
Passed(n) == \/ Slot(heap, n) < getAll.i
             \/ getAll.at = "walk" /\ Slot(heap, n) = getAll.i /\ getAll.node < n

(* What it has returned is what it has passed: all of it that was stored   *)
(* when it was called, and nothing twice.                                  *)
Returned(c) == \E k \in 1..Len(getAll.vec) : getAll.vec[k] = c
Loop ==
  /\ getAll.i <= tabLen_
  /\ getAll.at = "walk" => /\ getAll.i < tabLen_
                           /\ getAll.node # Null => Slot(heap, getAll.node) = getAll.i
  /\ getAll.at = "done" => getAll.i = tabLen_
Held == \A c \in before : ~Fresh(c)
Complete == \A n \in 1..Len(heap) :
              (heap[n].p_content \in before /\ Passed(n)) => Returned(heap[n].p_content)
Sound == \A k \in 1..Len(getAll.vec) :
           \E n \in 1..Len(heap) : heap[n].p_content = getAll.vec[k] /\ Passed(n)
Once == \A k, l \in 1..Len(getAll.vec) : getAll.vec[k] = getAll.vec[l] => k = l
Scanning == Loop /\ Held /\ Complete /\ Sound /\ Once

IInv == WellLinked(heap, tab_) /\ Types /\ Phases /\ Putting /\ Scanning

LEMMA Facts ==
  ASSUME IInv
  PROVE  /\ heap \in Seq(NodeRecs) /\ Len(heap) \in Nat /\ tab_ \in [Buckets -> Nat]
         /\ \A b \in Buckets : tab_[b] \in Nat /\ tab_[b] <= Len(heap)
         /\ TabLen \in Nat /\ TabLen > 0 /\ MaxCrashes \in Nat /\ failures \in Nat
         /\ tabLen_ \in Nat /\ tabLen_ <= TabLen
         /\ put.at \in {"idle", "put", "run", "commit"} /\ put.head \in Nat
         /\ getAll.at \in {"idle", "bucket", "walk", "done"}
         /\ getAll.i \in Nat /\ getAll.node \in Nat /\ getAll.vec \in Seq(Contents)
<1>1. heap \in Seq(NodeRecs) /\ Len(heap) \in Nat /\ tab_ \in [Buckets -> Nat]
      /\ \A b \in Buckets : tab_[b] \in Nat /\ tab_[b] <= Len(heap)
  BY DEF IInv, WellLinked, MapType
<1>2. TabLen \in Nat /\ TabLen > 0 /\ MaxCrashes \in Nat
  BY MapAssumption
<1>3. failures \in Nat /\ tabLen_ \in Nat /\ tabLen_ <= TabLen
  BY <1>2 DEF IInv, Types
<1>4. put \in PutRecs /\ getAll \in ScanRecs
  BY DEF IInv, Types
<1>5. put.at \in {"idle", "put", "run", "commit"} /\ put.head \in Nat
  BY <1>4 DEF PutRecs
<1>6. getAll.at \in {"idle", "bucket", "walk", "done"}
      /\ getAll.i \in Nat /\ getAll.node \in Nat /\ getAll.vec \in Seq(Contents)
  BY <1>4 DEF ScanRecs
<1> QED BY <1>1, <1>2, <1>3, <1>5, <1>6

LEMMA PutContent ==
  ASSUME IInv, put.at # "idle"
  PROVE  /\ process = "running" /\ put.content \in Contents /\ put.content \in allocated
         /\ put.at \in {"run", "commit"} => bucket = HashSlot(put.content)
         /\ HashSlot(put.content) \in Buckets
<1>1. process = "running"
  BY DEF IInv, Phases, PutIdle
<1>2. put.content \in allocated /\ put.content \in Contents
  BY DEF IInv, Putting, Types
<1>3. put.at \in {"run", "commit"} => bucket = HashSlot(put.content)
  BY DEF IInv, Putting, bucket, HashSlot
<1> QED BY <1>1, <1>2, <1>3, HashInTab

(* What a crash leaves is a map as well. *)
LEMMA Durable ==
  ASSUME IInv
  PROVE  /\ WellLinked(durableHeap, durableTab) /\ Len(durableHeap) \in Nat
         /\ Len(durableHeap) = IF put.at = "commit" THEN Len(heap) - 1 ELSE Len(heap)
         /\ Len(durableHeap) <= Len(heap)
         /\ \A n \in 1..Len(durableHeap) : durableHeap[n] = heap[n] /\ n \in 1..Len(heap)
<1>1. CASE put.at # "commit"
  <2>1. durableHeap = heap /\ durableTab = tab_
    BY <1>1 DEF durableHeap, durableTab
  <2> QED BY <1>1, <2>1, Facts DEF IInv
<1>2. CASE put.at = "commit"
  <2>1. Len(heap) # 0 /\ heap[Len(heap)] = [p_content |-> put.content, next |-> put.head]
    BY <1>2 DEF IInv, Putting
  <2>2. bucket = Slot(heap, Len(heap)) /\ put.head = heap[Len(heap)].next
    BY <1>2, <2>1, PutContent DEF Slot
  <2>3. durableHeap = SubSeq(heap, 1, Len(heap) - 1)
    BY <1>2 DEF durableHeap
  <2>4. durableTab = [tab_ EXCEPT ![Slot(heap, Len(heap))] = heap[Len(heap)].next]
    BY <1>2, <2>2 DEF durableTab
  <2>5. /\ WellLinked(durableHeap, durableTab) /\ Len(heap) \in Nat
        /\ Len(durableHeap) = Len(heap) - 1
        /\ \A n \in 1..(Len(heap) - 1) : durableHeap[n] = heap[n]
    BY <2>1, <2>3, <2>4, Shrunk DEF IInv
  <2> QED BY <1>2, <2>1, <2>5
<1> QED BY <1>1, <1>2

-----------------------------------------------------------------------------
(* The chains.                                                             *)

(* The chain from a node on is every older node of its bucket. *)
Older(n) == IF n = Null THEN {} ELSE {m \in 1..n : Slot(heap, m) = Slot(heap, n)}
Chain(n) == {heap[m].p_content : m \in Older(n)}
SatisfiesChain(f) ==
  f = [n \in 0..Len(heap) |-> IF n = Null THEN {}
         ELSE {heap[n].p_content} \cup (IF heap[n].next < n THEN f[heap[n].next] ELSE {})]

LEMMA ChainStep ==
  ASSUME IInv, NEW n \in 1..Len(heap)
  PROVE  Chain(n) = {heap[n].p_content} \cup Chain(heap[n].next)
<1> DEFINE next == heap[n].next
<1>1. /\ next \in Nat /\ next < n /\ n \in Nat /\ n >= 1 /\ n # Null /\ Len(heap) \in Nat
      /\ next # Null => Slot(heap, next) = Slot(heap, n)
      /\ \A m \in 1..n : m \in 1..Len(heap)
      /\ \A m \in 1..Len(heap) : (m < n /\ Slot(heap, m) = Slot(heap, n)) => m <= next
  BY Facts, NodeFacts DEF IInv, WellLinked, Linked
<1> HIDE DEF next
<1>2. Older(n) = {n} \cup Older(next)
  <2>1. Older(n) = {m \in 1..n : Slot(heap, m) = Slot(heap, n)}
    BY <1>1 DEF Older
  <2>2. CASE next = Null
    <3>1. Older(next) = {}
      BY <2>2 DEF Older
    <3>2. \A m \in 1..n : Slot(heap, m) = Slot(heap, n) => m = n
      BY <1>1, <2>2 DEF Null
    <3> QED BY <1>1, <2>1, <3>1, <3>2
  <2>3. CASE next # Null
    <3>1. Older(next) = {m \in 1..next : Slot(heap, m) = Slot(heap, n)}
      BY <1>1, <2>3 DEF Older
    <3>2. \A m \in 1..n : Slot(heap, m) = Slot(heap, n) => (m = n \/ m \in 1..next)
      BY <1>1
    <3>3. \A m \in 1..next : m \in 1..n
      BY <1>1
    <3> QED BY <1>1, <2>1, <3>1, <3>2, <3>3
  <2> QED BY <2>2, <2>3
<1> QED BY <1>2 DEF Chain, next

LEMMA ChainIs ==
  ASSUME IInv
  PROVE  \A n \in 0..Len(heap) : ChainOf[n] = Chain(n)
<1> DEFINE f == [n \in 0..Len(heap) |-> Chain(n)]
<1>0. Chain(Null) = {}
  BY DEF Chain, Older
<1>1. \A n \in 0..Len(heap) : n # Null => /\ n \in 1..Len(heap) /\ n \in Nat
                                          /\ heap[n].next \in 0..Len(heap) /\ heap[n].next < n
  <2> SUFFICES ASSUME NEW n \in 0..Len(heap), n # Null
               PROVE  /\ n \in 1..Len(heap) /\ n \in Nat
                      /\ heap[n].next \in 0..Len(heap) /\ heap[n].next < n
    OBVIOUS
  <2>1. n \in 1..Len(heap) /\ n \in Nat /\ Len(heap) \in Nat
    BY Facts DEF Null
  <2>2. heap[n].next \in Nat /\ heap[n].next < n
    BY <2>1, Facts, NodeFacts DEF IInv, WellLinked, Linked
  <2> QED BY <2>1, <2>2
<1>2. SatisfiesChain(f)
  <2>1. ASSUME NEW n \in 0..Len(heap)
        PROVE  Chain(n) = IF n = Null THEN {}
                 ELSE {heap[n].p_content} \cup (IF heap[n].next < n THEN f[heap[n].next] ELSE {})
    <3>1. CASE n = Null
      BY <1>0, <3>1
    <3>2. CASE n # Null
      <4>1. f[heap[n].next] = Chain(heap[n].next)
        BY <1>1, <3>2
      <4> HIDE DEF f
      <4>2. Chain(n) = {heap[n].p_content} \cup Chain(heap[n].next)
        BY <1>1, <3>2, ChainStep
      <4> QED BY <1>1, <3>2, <4>1, <4>2
    <3> QED BY <3>1, <3>2
  <2> QED BY <2>1 DEF SatisfiesChain
<1>3. SatisfiesChain(ChainOf)
  <2> HIDE DEF f
  <2>1. ChainOf = CHOOSE g : SatisfiesChain(g)
    BY DEF ChainOf, SatisfiesChain
  <2> QED BY <1>2, <2>1
<1>4. \A n \in 0..Len(heap) : ChainOf[n] = IF n = Null THEN {}
        ELSE {heap[n].p_content} \cup (IF heap[n].next < n THEN ChainOf[heap[n].next] ELSE {})
  BY <1>3 DEF SatisfiesChain
<1> HIDE DEF f
<1> DEFINE T == {n \in 0..Len(heap) : ChainOf[n] # Chain(n)}
<1>5. ASSUME T # {} PROVE FALSE
  <2>1. T \subseteq Nat
    OBVIOUS
  <2>2. PICK x \in T : \A y \in T : ~(y < x)
    BY <1>5, <2>1, LeastNumber
  <2>3. x \in 0..Len(heap) /\ ChainOf[x] # Chain(x)
    OBVIOUS
  <2>4. x # Null
    BY <1>0, <1>4, <2>3
  <2>5. heap[x].next \in 0..Len(heap) /\ heap[x].next < x /\ x \in 1..Len(heap)
    BY <1>1, <2>3, <2>4
  <2>6. ChainOf[heap[x].next] = Chain(heap[x].next)
    BY <2>2, <2>5
  <2>7. Chain(x) = {heap[x].p_content} \cup Chain(heap[x].next)
    BY <2>5, ChainStep
  <2> QED BY <1>4, <2>3, <2>4, <2>5, <2>6, <2>7
<1> QED BY <1>5

(* The map holds the contents of all durable nodes. *)
StoredWhole == Stored = {heap[n].p_content : n \in 1..Len(durableHeap)}

LEMMA StoredIs == IInv => StoredWhole
<1> SUFFICES ASSUME IInv PROVE StoredWhole
  OBVIOUS
<1> DEFINE N == Len(durableHeap)
           t == durableTab
           g == durableHeap
<1>1. /\ N \in Nat /\ N <= Len(heap) /\ Len(heap) \in Nat
      /\ \A n \in 1..N : g[n] = heap[n] /\ n \in 1..Len(heap)
  BY Durable, Facts
<1>2. /\ g \in Seq(NodeRecs) /\ \A b \in Buckets : t[b] \in Nat /\ t[b] <= N
      /\ \A b \in Buckets : (t[b] # Null => Slot(g, t[b]) = b)
      /\ \A b \in Buckets : \A m \in 1..N : Slot(g, m) = b => m <= t[b]
  BY Durable DEF WellLinked, MapType, Heads
<1> HIDE DEF N, t, g
<1>3. \A n \in 1..N : Slot(g, n) = Slot(heap, n)
  BY <1>1 DEF Slot
<1>4. \A b \in Buckets : Older(t[b]) = {n \in 1..N : Slot(heap, n) = b}
  <2> SUFFICES ASSUME NEW b \in Buckets PROVE Older(t[b]) = {n \in 1..N : Slot(heap, n) = b}
    OBVIOUS
  <2>1. CASE t[b] = Null
    <3>1. \A n \in 1..N : Slot(heap, n) # b
      BY <1>1, <1>2, <1>3, <2>1 DEF Null
    <3> QED BY <2>1, <3>1 DEF Older
  <2>2. CASE t[b] # Null
    <3>1. t[b] \in 1..N /\ Slot(heap, t[b]) = b
      BY <1>1, <1>2, <1>3, <2>2 DEF Null
    <3>2. \A n : (n \in 1..t[b] /\ Slot(heap, n) = b) <=> (n \in 1..N /\ Slot(heap, n) = b)
      BY <1>1, <1>2, <1>3, <3>1
    <3> QED BY <2>2, <3>1, <3>2 DEF Older
  <2> QED BY <2>1, <2>2
<1>5. \A b \in Buckets : ChainOf[t[b]] = {heap[n].p_content : n \in {m \in 1..N : Slot(heap, m) = b}}
  <2> SUFFICES ASSUME NEW b \in Buckets
               PROVE  ChainOf[t[b]] = {heap[n].p_content : n \in {m \in 1..N : Slot(heap, m) = b}}
    OBVIOUS
  <2>1. t[b] \in 0..Len(heap)
    BY <1>1, <1>2
  <2>2. ChainOf[t[b]] = Chain(t[b])
    BY <2>1, ChainIs
  <2> QED BY <1>4, <2>2 DEF Chain
<1>6. \A n \in 1..N : Slot(heap, n) \in Buckets
  BY <1>1, Facts, NodeFacts
<1>7. Stored = {heap[n].p_content : n \in 1..N}
  BY <1>5, <1>6 DEF Stored, t
<1> QED BY <1>7 DEF StoredWhole, N

LEMMA StoredNext == IInv' => StoredWhole'
BY StoredIs, PTL

-----------------------------------------------------------------------------
(* The steps.                                                              *)

LEMMA IdleScans ==
  ASSUME IInv
  PROVE  /\ (getAll' = ScanIdle /\ before' = {} /\ tabLen_' \in Nat) => Scanning'
         /\ PutIdle \in PutRecs /\ ScanIdle \in ScanRecs
<1>1. ASSUME getAll' = ScanIdle, before' = {}, tabLen_' \in Nat PROVE Scanning'
  <2>1. getAll'.at = "idle" /\ getAll'.i = 0 /\ getAll'.vec = <<>> /\ Len(getAll'.vec) = 0
    BY <1>1 DEF ScanIdle
  <2>2. Loop'
    BY <1>1, <2>1 DEF Loop
  <2>3. Held' /\ Complete' /\ Sound' /\ Once'
    BY <1>1, <2>1 DEF Held, Complete, Sound, Once
  <2> QED BY <2>2, <2>3 DEF Scanning
<1>2. PutIdle \in PutRecs
  BY DEF PutIdle, PutRecs, Null
<1>3. ScanIdle \in ScanRecs
  BY DEF ScanIdle, ScanRecs, Null
<1> QED BY <1>1, <1>2, <1>3

(* Nodes that are appended hold nothing that a running getAll must return, *)
(* and do not disturb it.                                                  *)
LEMMA ScanKept ==
  ASSUME IInv, UNCHANGED <<getAll, before, tabLen_>>,
         Len(heap') \in Nat, Len(heap) <= Len(heap'),
         \A n \in 1..Len(heap) : heap'[n] = heap[n],
         \A n \in 1..Len(heap') : n \notin 1..Len(heap) => heap'[n].p_content \notin before
  PROVE  Scanning'
<1>1. /\ Len(heap) \in Nat /\ getAll.node \in Nat /\ getAll.node <= Len(heap)
      /\ getAll' = getAll /\ before' = before /\ tabLen_' = tabLen_
  BY Facts DEF IInv, Types
<1>2. Loop /\ Held /\ Complete /\ Sound /\ Once
  BY DEF IInv, Scanning
<1>3. \A n \in 1..Len(heap) : /\ Slot(heap', n) = Slot(heap, n) /\ n \in 1..Len(heap')
                              /\ heap'[n].p_content = heap[n].p_content
                              /\ (Passed(n))' <=> Passed(n)
  <2> TAKE n \in 1..Len(heap)
  <2>1. n \in 1..Len(heap') /\ heap'[n] = heap[n]
    BY <1>1
  <2>2. Slot(heap', n) = Slot(heap, n)
    BY <2>1 DEF Slot
  <2>3. (Slot(heap', n) < getAll'.i \/ (getAll'.at = "walk" /\ Slot(heap', n) = getAll'.i /\ getAll'.node < n))
        <=> (Slot(heap, n) < getAll.i \/ (getAll.at = "walk" /\ Slot(heap, n) = getAll.i /\ getAll.node < n))
    BY <1>1, <2>2
  <2> QED BY <2>1, <2>2, <2>3 DEF Passed
<1>4. Loop'
  <2>1. getAll.node # Null => getAll.node \in 1..Len(heap)
    BY <1>1 DEF Null
  <2> QED BY <1>1, <1>2, <1>3, <2>1 DEF Loop
<1>5. Held'
  BY <1>1, <1>2, <1>3 DEF Held, Fresh
<1>6. Complete'
  BY <1>1, <1>2, <1>3 DEF Complete, Returned
<1>7. Sound'
  BY <1>1, <1>2, <1>3 DEF Sound
<1>8. Once'
  BY <1>1, <1>2 DEF Once
<1> QED BY <1>4, <1>5, <1>6, <1>7, <1>8 DEF Scanning

LEMMA Unmoved ==
  ASSUME IInv, UNCHANGED <<getAll, before, tabLen_, heap>>
  PROVE  Scanning'
<1>1. Len(heap') \in Nat /\ Len(heap) <= Len(heap') /\ heap' = heap
  BY Facts
<1> QED BY <1>1, ScanKept

LEMMA EmptyMap ==
  LET t == [b \in Buckets |-> Null] IN WellLinked(<<>>, t)
<1> DEFINE t == [b \in Buckets |-> Null]
<1>1. <<>> \in Seq(NodeRecs) /\ Len(<<>>) = 0
  OBVIOUS
<1>2. t \in [Buckets -> Nat] /\ \A b \in Buckets : t[b] = Null /\ t[b] <= 0
  BY DEF Null
<1> HIDE DEF t
<1>3. MapType(<<>>, t)
  BY <1>1, <1>2 DEF MapType
<1>4. Linked(<<>>) /\ Heads(<<>>, t) /\ Distinct(<<>>)
  BY <1>1, <1>2 DEF Linked, Heads, Distinct
<1> QED BY <1>3, <1>4 DEF WellLinked, t

LEMMA InitInv == Init => IInv
<1> SUFFICES ASSUME Init PROVE IInv
  OBVIOUS
<1>1. WellLinked(heap, tab_)
  BY EmptyMap DEF Init
<1>2. heap = <<>> /\ Len(heap) = 0
  BY DEF Init
<1>3. put = PutIdle /\ getAll = ScanIdle /\ before = {} /\ allocated = {} /\ tabLen_ = 0
      /\ put.at = "idle" /\ put.head = 0 /\ getAll.node = 0 /\ getAll.at = "idle"
      /\ getAll.i = 0 /\ Len(getAll.vec) = 0
  BY DEF Init, PutIdle, ScanIdle, Null
<1>4. PutIdle \in PutRecs /\ ScanIdle \in ScanRecs
  BY DEF PutIdle, PutRecs, ScanIdle, ScanRecs, Null
<1>5. IsFiniteSet(allocated)
  BY <1>3, FS_EmptySet
<1>6. Types
  <2>1. pool \in BOOLEAN
    BY DEF Init
  <2>2. process = "down" /\ failures = 0 /\ failures \in 0..MaxCrashes
    BY MapAssumption DEF Init
  <2> QED BY <1>2, <1>3, <1>4, <1>5, <2>1, <2>2 DEF Types
<1>7. Phases
  BY <1>2, <1>3 DEF Init, Phases
<1>8. Putting
  BY <1>2, <1>3 DEF Putting
<1>9. Scanning
  BY <1>2, <1>3 DEF Scanning, Loop, Held, Complete, Sound, Once
<1> QED BY <1>1, <1>6, <1>7, <1>8, <1>9 DEF IInv


LEMMA CreateInv == ASSUME IInv, Create PROVE IInv'
<1>1. Scanning'
  BY Unmoved DEF Create
<1>2. UNCHANGED <<heap, tabLen_, tab_, allocated, failures, put, getAll, before>>
      /\ pool' = TRUE /\ process' = "created" /\ process = "down" /\ pool = FALSE
  BY DEF Create, IInv, Types
<1>3. WellLinked(heap, tab_)'
  BY <1>2 DEF IInv
<1>4. Types'
  <2>1. pool' \in BOOLEAN /\ process' \in {"down", "created", "running"}
    BY <1>2
  <2> QED BY <1>2, <2>1 DEF IInv, Types
<1>5. Phases'
  BY <1>2, Zenon DEF IInv, Phases
<1>6. Putting'
  BY <1>2 DEF IInv, Putting, Fresh, bucket
<1> QED BY <1>1, <1>3, <1>4, <1>5, <1>6 DEF IInv

LEMMA OpenInv == ASSUME IInv, Open PROVE IInv'
<1>2. UNCHANGED <<heap, tabLen_, tab_, allocated, failures, put, getAll, before, pool>>
      /\ pool = TRUE /\ process' = "running"
  BY DEF Open, persistent, IInv, Types
<1>1. Scanning'
  BY <1>2, Unmoved
<1>3. WellLinked(heap, tab_)'
  BY <1>2 DEF IInv
<1>4. Types'
  <2>1. pool' \in BOOLEAN /\ process' \in {"down", "created", "running"}
    BY <1>2
  <2> QED BY <1>2, <2>1 DEF IInv, Types
<1>5. Phases'
  BY <1>2, Zenon DEF IInv, Phases
<1>6. Putting'
  BY <1>2 DEF IInv, Putting, Fresh, bucket
<1> QED BY <1>1, <1>3, <1>4, <1>5, <1>6 DEF IInv

(* init writes an empty table into a map that has no nodes yet. *)
LEMMA MapInitInv == ASSUME IInv, MapInit PROVE IInv'
<1>1. /\ UNCHANGED <<heap, pool, allocated, failures, put, getAll, before>>
      /\ process = "created" /\ process' = "running"
      /\ tabLen_' = TabLen /\ tab_' = [b \in Buckets |-> Null]
  BY DEF MapInit
<1>2. tabLen_ = 0 /\ heap = <<>> /\ put = PutIdle /\ getAll = ScanIdle /\ before = {}
  BY <1>1 DEF IInv, Phases
<1>3. Len(heap) = 0 /\ put.at = "idle"
  BY <1>2 DEF PutIdle
<1>4. WellLinked(heap, tab_)'
  BY <1>1, <1>2, EmptyMap
<1>5. Types'
  <2>1. pool' \in BOOLEAN /\ process' \in {"down", "created", "running"}
    BY <1>1 DEF IInv, Types
  <2> QED BY <1>1, <2>1 DEF IInv, Types
<1>6. Phases'
  <2>1. tabLen_' # 0
    BY <1>1, Facts
  <2>2. pool # FALSE
    BY <1>1 DEF IInv, Phases
  <2> QED BY <1>1, <2>1, <2>2, Zenon DEF Phases
<1>7. Putting'
  BY <1>1, <1>3 DEF Putting
<1>8. Scanning'
  BY <1>1, <1>2, Facts, IdleScans
<1> QED BY <1>4, <1>5, <1>6, <1>7, <1>8 DEF IInv

(* A crash, an abort or the division by zero: the open transaction is      *)
(* undone and the process is gone.                                         *)
LEMMA DiesInv == ASSUME IInv, process # "down", Dies PROVE IInv'
<1>1. /\ UNCHANGED <<tabLen_, pool, allocated>> /\ failures < MaxCrashes
      /\ failures' = failures + 1 /\ process' = "down" /\ put' = PutIdle
      /\ getAll' = ScanIdle /\ before' = {} /\ heap' = durableHeap /\ tab_' = durableTab
  BY DEF Dies
<1>2. WellLinked(heap, tab_)'
  BY <1>1, Durable
<1>3. put'.at = "idle" /\ put'.head = 0 /\ getAll'.node = 0
  BY <1>1 DEF PutIdle, ScanIdle, Null
<1>4. Len(heap') \in Nat /\ \A n \in 1..Len(heap') : heap'[n] = heap[n] /\ n \in 1..Len(heap)
  BY <1>1, Durable
<1>5. Types'
  <2>1. failures' \in 0..MaxCrashes
    BY <1>1, Facts
  <2>2. put' \in PutRecs /\ getAll' \in ScanRecs /\ put'.head <= Len(heap') /\ getAll'.node <= Len(heap')
    BY <1>1, <1>3, <1>4, IdleScans
  <2>3. /\ process' \in {"down", "created", "running"} /\ pool' \in BOOLEAN /\ tabLen_' \in {0, TabLen}
        /\ allocated' \subseteq Contents /\ IsFiniteSet(allocated') /\ before' \subseteq Contents
    BY <1>1 DEF IInv, Types
  <2> QED BY <2>1, <2>2, <2>3 DEF Types
<1>6. Phases'
  <2>1. ASSUME tabLen_' = 0 PROVE heap' = <<>>
    <3>1. heap = <<>> /\ Len(heap) = 0
      BY <1>1, <2>1 DEF IInv, Phases
    <3>2. put.at # "commit"
      BY <3>1 DEF IInv, Putting
    <3> QED BY <1>1, <3>1, <3>2 DEF durableHeap
  <2>2. pool' = FALSE => tabLen_' = 0
    BY <1>1, Zenon DEF IInv, Phases
  <2>3. process' # "created"
    BY <1>1
  <2> QED BY <1>1, <2>1, <2>2, <2>3, Zenon DEF Phases
<1>7. Putting'
  <2>1. \A n \in 1..Len(heap') : heap'[n].p_content \in allocated'
    BY <1>1, <1>4 DEF IInv, Putting
  <2> QED BY <1>3, <2>1 DEF Putting
<1>8. Scanning'
  <2>1. tabLen_' \in Nat
    BY <1>1, Facts
  <2> QED BY <1>1, <2>1, IdleScans
<1> QED BY <1>2, <1>5, <1>6, <1>7, <1>8 DEF IInv

LEMMA FailureInv == ASSUME IInv, Crash \/ PutDividesByZero \/ PutAbort PROVE IInv'
<1>1. (put.at = "put" \/ put.at = "run") => process # "down"
  BY PutContent
<1> QED BY <1>1, DiesInv DEF Crash, PutDividesByZero, PutAbort

LEMMA NewContentInv == ASSUME IInv, NewContent PROVE IInv'
<1>1. /\ UNCHANGED <<heap, tabLen_, tab_, pool, process, failures, getAll, before>>
      /\ process = "running" /\ put.at = "idle"
  BY DEF NewContent
<1>2. PICK c \in Contents \ allocated :
        /\ allocated' = allocated \cup {c}
        /\ put' = [PutIdle EXCEPT !.at = "put", !.content = c]
  BY DEF NewContent
<1>3. put' = [at |-> "put", content |-> c, head |-> 0]
  BY <1>2 DEF PutIdle, Null
<1>4. put'.at = "put" /\ put'.content = c /\ put'.head = 0 /\ put' \in PutRecs
  <2>1. c \in Contents \union {NoContent} /\ 0 \in Nat
    BY <1>2
  <2> QED BY <1>3, <2>1 DEF PutRecs
<1>5. WellLinked(heap, tab_)'
  BY <1>1 DEF IInv
<1>6. Types'
  <2>1. IsFiniteSet(allocated') /\ allocated' \subseteq Contents
    BY <1>2, FS_AddElement DEF IInv, Types
  <2>2. put'.head <= Len(heap')
    BY <1>1, <1>4, Facts
  <2> QED BY <1>1, <1>4, <2>1, <2>2 DEF IInv, Types
<1>7. Phases'
  BY <1>1, Zenon DEF IInv, Phases
<1>8. Putting'
  <2>1. \A n \in 1..Len(heap) : heap[n].p_content \in allocated
    BY DEF IInv, Putting
  <2> QED BY <1>1, <1>2, <1>4, <2>1 DEF Putting, Fresh
<1>9. Scanning'
  BY <1>1, Unmoved
<1> QED BY <1>5, <1>6, <1>7, <1>8, <1>9 DEF IInv

LEMMA PutInv == ASSUME IInv, Put PROVE IInv'
<1>1. /\ UNCHANGED <<heap, tabLen_, tab_, pool, allocated, process, failures, getAll, before>>
      /\ put.at = "put" /\ tabLen_ # 0 /\ put' = [put EXCEPT !.at = "run", !.head = tab_[bucket]]
  BY DEF Put, persistent
<1>2. tabLen_ = TabLen
  BY <1>1 DEF IInv, Types
<1>3. bucket = HashSlot(put.content) /\ bucket \in Buckets /\ process = "running" /\ put.content \in Contents
      /\ tab_[bucket] \in Nat /\ tab_[bucket] <= Len(heap)
  BY <1>1, <1>2, PutContent, Facts DEF bucket, HashSlot
<1>4. put'.at = "run" /\ put'.content = put.content /\ put'.head = tab_[bucket] /\ put' \in PutRecs
  <2>1. put \in PutRecs
    BY DEF IInv, Types
  <2> QED BY <1>1, <1>3, <2>1 DEF PutRecs
<1>5. bucket' = bucket
  BY <1>1, <1>4 DEF bucket
<1>6. WellLinked(heap, tab_)'
  BY <1>1 DEF IInv
<1>7. Types'
  BY <1>1, <1>3, <1>4 DEF IInv, Types
<1>8. Phases'
  BY <1>1, <1>3, Zenon DEF IInv, Phases
<1>9. Putting'
  <2>1. /\ \A n \in 1..Len(heap) : heap[n].p_content \in allocated
        /\ put.content \in allocated /\ Fresh(put.content)
    BY <1>1 DEF IInv, Putting
  <2>2. (Fresh(put.content))'
    BY <1>1, <1>4, <2>1 DEF Fresh
  <2> QED BY <1>1, <1>2, <1>4, <1>5, <2>1, <2>2 DEF Putting
<1>10. Scanning'
  BY <1>1, Unmoved
<1> QED BY <1>6, <1>7, <1>8, <1>9, <1>10 DEF IInv

LEMMA PutRunInv == ASSUME IInv, PutRun PROVE IInv'
<1> DEFINE c == put.content
           new == [p_content |-> c, next |-> put.head]
           N == Len(heap)
<1>1. /\ UNCHANGED <<tabLen_, pool, allocated, process, failures, getAll, before>>
      /\ put.at = "run" /\ put' = [put EXCEPT !.at = "commit"]
      /\ heap' = Append(heap, new) /\ tab_' = [tab_ EXCEPT ![bucket] = N + 1]
  BY DEF PutRun, PutRunFrame, NewHead
<1>2. /\ put.head = tab_[bucket] /\ bucket = HashSlot(c) /\ c \in Contents /\ process = "running"
      /\ c \in allocated /\ tabLen_ = TabLen /\ Fresh(c)
      /\ \A n \in 1..N : heap[n].p_content \in allocated
  BY <1>1, PutContent DEF IInv, Putting
<1>3. /\ WellLinked(heap', tab_') /\ N \in Nat /\ Len(heap') = N + 1
      /\ heap'[N + 1] = new /\ \A n \in 1..N : heap'[n] = heap[n]
  <2>1. WellLinked(heap, tab_) /\ \A n \in 1..Len(heap) : heap[n].p_content # c
    BY <1>2 DEF IInv, Fresh
  <2>2. /\ heap' = Append(heap, [p_content |-> c, next |-> tab_[HashSlot(c)]])
        /\ tab_' = [tab_ EXCEPT ![HashSlot(c)] = Len(heap) + 1]
        /\ new = [p_content |-> c, next |-> tab_[HashSlot(c)]]
    BY <1>1, <1>2
  <2> HIDE DEF c, new
  <2> QED BY <1>2, <2>1, <2>2, Grown DEF N
<1>4. put'.at = "commit" /\ put'.content = c /\ put'.head = put.head /\ put' \in PutRecs
  <2>1. put \in PutRecs
    BY DEF IInv, Types
  <2> QED BY <1>1, <2>1 DEF PutRecs
<1>5. new.p_content = c
  OBVIOUS
<1>6. \A n \in 1..Len(heap') : n \notin 1..N => n = N + 1
  BY <1>3
<1>7. Types'
  <2>1. put.head <= N /\ getAll.node <= N /\ getAll.node \in Nat /\ put.head \in Nat
    BY Facts DEF IInv, Types
  <2>2. put'.head <= Len(heap') /\ getAll'.node <= Len(heap')
    BY <1>1, <1>3, <1>4, <2>1
  <2> QED BY <1>1, <1>4, <2>2 DEF IInv, Types
<1>8. Phases'
  <2>1. tabLen_' # 0
    BY <1>1, <1>2, Facts
  <2>2. process' = "running" /\ pool' # FALSE
    BY <1>1, <1>2 DEF IInv, Phases
  <2> QED BY <2>1, <2>2 DEF Phases
<1>9. Putting'
  <2>1. \A n \in 1..Len(heap') : heap'[n].p_content \in allocated
    BY <1>2, <1>3, <1>5, <1>6
  <2> HIDE DEF new
  <2>2. heap'[Len(heap')] = new /\ Len(heap') # 0 /\ new = [p_content |-> put'.content, next |-> put'.head]
    BY <1>3, <1>4 DEF new
  <2> QED BY <1>1, <1>2, <1>4, <2>1, <2>2 DEF Putting
<1>10. Scanning'
  <2>1. c \notin before
    BY <1>2 DEF IInv, Scanning, Held
  <2>2. Len(heap') \in Nat /\ N <= Len(heap')
    BY <1>3
  <2>3. \A n \in 1..Len(heap') : n \notin 1..N => heap'[n].p_content \notin before
    BY <1>3, <1>5, <1>6, <2>1
  <2> QED BY <1>1, <1>3, <2>2, <2>3, ScanKept
<1> QED BY <1>3, <1>7, <1>8, <1>9, <1>10 DEF IInv

LEMMA PutCommitInv == ASSUME IInv, PutCommit PROVE IInv'
<1>1. /\ UNCHANGED <<heap, tabLen_, tab_, pool, allocated, process, failures, getAll, before>>
      /\ put.at = "commit" /\ put' = PutIdle
  BY DEF PutCommit, persistent
<1>2. put'.at = "idle" /\ put'.head = 0
  BY <1>1 DEF PutIdle, Null
<1>3. WellLinked(heap, tab_)'
  BY <1>1 DEF IInv
<1>4. Types'
  <2>1. put' \in PutRecs /\ put'.head <= Len(heap')
    BY <1>1, <1>2, Facts, IdleScans
  <2> QED BY <1>1, <2>1 DEF IInv, Types
<1>5. Phases'
  <2>1. process = "running"
    BY <1>1, PutContent
  <2> QED BY <1>1, <2>1, Zenon DEF IInv, Phases
<1>6. Putting'
  BY <1>1, <1>2 DEF IInv, Putting
<1>7. Scanning'
  BY <1>1, Unmoved
<1> QED BY <1>3, <1>4, <1>5, <1>6, <1>7 DEF IInv


(* A step of the reader touches nothing but the reader. *)
LEMMA ReaderFrame ==
  ASSUME IInv, ScanFrame, process = "running", getAll' \in ScanRecs, getAll'.node <= Len(heap),
         before' \subseteq Contents, Scanning'
  PROVE  IInv'
<1>1. UNCHANGED <<heap, tabLen_, tab_, pool, allocated, process, failures, put>>
  BY DEF ScanFrame, persistent
<1>2. WellLinked(heap, tab_)'
  BY <1>1 DEF IInv
<1>3. Types'
  BY <1>1 DEF IInv, Types
<1>4. Phases'
  BY <1>1, Zenon DEF IInv, Phases
<1>5. Putting'
  BY <1>1 DEF IInv, Putting, Fresh, bucket
<1> QED BY <1>2, <1>3, <1>4, <1>5 DEF IInv

LEMMA Reading ==
  ASSUME IInv, getAll.at # "idle"
  PROVE  process = "running"
BY DEF IInv, Phases, ScanIdle

LEMMA SamePassed ==
  ASSUME IInv, UNCHANGED <<heap, before>>, getAll'.vec = getAll.vec,
         \A n \in 1..Len(heap) : (Passed(n))' <=> Passed(n)
  PROVE  Held' /\ Complete' /\ Sound' /\ Once'
<1>1. Held /\ Complete /\ Sound /\ Once
  BY DEF IInv, Scanning
<1>2. Held'
  BY <1>1 DEF Held, Fresh
<1>3. Complete'
  BY <1>1 DEF Complete, Returned
<1>4. Sound'
  BY <1>1 DEF Sound
<1>5. Once'
  BY <1>1 DEF Once
<1> QED BY <1>2, <1>3, <1>4, <1>5

LEMMA ScanBeginInv == ASSUME IInv, ScanBegin PROVE IInv'
<1>1. /\ ScanFrame /\ heap' = heap /\ tabLen_' = tabLen_ /\ process = "running"
      /\ getAll' = [ScanIdle EXCEPT !.at = "bucket"] /\ before' = Stored
  BY DEF ScanBegin, ScanFrame, persistent
<1>2. getAll' = [at |-> "bucket", i |-> 0, node |-> 0, vec |-> <<>>]
  BY <1>1 DEF ScanIdle, Null
<1>3. /\ getAll'.at = "bucket" /\ getAll'.i = 0 /\ getAll'.node = 0 /\ getAll'.vec = <<>>
      /\ getAll' \in ScanRecs /\ Len(getAll'.vec) = 0
  BY <1>2 DEF ScanRecs
<1>4. \A c \in before' : \E n \in 1..Len(heap) : heap[n].p_content = c /\ c \in Contents
  <2>1. before' = {heap[n].p_content : n \in 1..Len(durableHeap)}
    BY <1>1, StoredIs DEF StoredWhole
  <2>2. \A n \in 1..Len(durableHeap) : n \in 1..Len(heap)
    BY Durable
  <2>3. \A n \in 1..Len(heap) : heap[n].p_content \in Contents
    BY Facts, NodeFacts
  <2> QED BY <2>1, <2>2, <2>3
<1>5. Loop'
  BY <1>1, <1>3, Facts DEF Loop
<1>6. Held'
  BY <1>1, <1>4 DEF Held, Fresh
<1>7. \A n \in 1..Len(heap) : ~(Passed(n))'
  <2> TAKE n \in 1..Len(heap)
  <2>1. Slot(heap, n) \in Nat
    BY Facts, NodeFacts
  <2>2. ~(Slot(heap', n) < getAll'.i) /\ getAll'.at # "walk"
    BY <1>1, <1>3, <2>1
  <2> QED BY <2>2 DEF Passed
<1>8. Complete' /\ Sound' /\ Once'
  BY <1>1, <1>3, <1>7 DEF Complete, Sound, Once
<1>9. Scanning'
  BY <1>5, <1>6, <1>8 DEF Scanning
<1>10. before' \subseteq Contents /\ getAll'.node <= Len(heap)
  BY <1>3, <1>4, Facts
<1> QED BY <1>1, <1>3, <1>9, <1>10, ReaderFrame

LEMMA ScanBucketInv == ASSUME IInv, ScanBucket PROVE IInv'
<1>1. /\ ScanFrame /\ heap' = heap /\ tabLen_' = tabLen_ /\ before' = before /\ process = "running"
      /\ getAll.at = "bucket"
  BY Reading DEF ScanBucket, ScanFrame, persistent
<1>2. /\ getAll.i \in Nat /\ getAll.i <= tabLen_ /\ tabLen_ \in Nat /\ tabLen_ <= TabLen /\ TabLen \in Nat
      /\ Len(heap) \in Nat /\ getAll.node <= Len(heap) /\ getAll \in ScanRecs
  BY Facts DEF IInv, Scanning, Loop, Types
<1>3. ASSUME getAll.i < tabLen_,
             getAll' = [getAll EXCEPT !.at = "walk", !.node = tab_[getAll.i]]
      PROVE  IInv'
  <2> DEFINE b == getAll.i
  <2>1. b \in Buckets
    BY <1>2, <1>3 DEF Buckets
  <2>2. tab_[b] \in Nat /\ tab_[b] <= Len(heap)
    BY <2>1, Facts
  <2>3. /\ getAll'.at = "walk" /\ getAll'.i = b /\ getAll'.node = tab_[b] /\ getAll'.vec = getAll.vec
        /\ getAll' \in ScanRecs
    BY <1>2, <1>3, <2>2 DEF ScanRecs
  <2>4. /\ tab_[b] # Null => Slot(heap, tab_[b]) = b
        /\ \A m \in 1..Len(heap) : Slot(heap, m) = b => m <= tab_[b]
    BY <2>1 DEF IInv, WellLinked, Heads
  <2>5. Loop'
    BY <1>1, <1>2, <1>3, <2>3, <2>4 DEF Loop
  <2>6. \A n \in 1..Len(heap) : (Passed(n))' <=> Passed(n)
    <3> TAKE n \in 1..Len(heap)
    <3>1. ~(Slot(heap, n) = b /\ tab_[b] < n)
      BY <1>2, <2>2, <2>4
    <3> QED BY <1>1, <2>3, <3>1 DEF Passed
  <2>7. Held' /\ Complete' /\ Sound' /\ Once'
    BY <1>1, <2>3, <2>6, SamePassed
  <2>8. Scanning'
    BY <2>5, <2>7 DEF Scanning
  <2>9. before' \subseteq Contents
    BY <1>1 DEF IInv, Types
  <2> QED BY <1>1, <2>2, <2>3, <2>8, <2>9, ReaderFrame
<1>4. ASSUME getAll.i >= tabLen_, getAll' = [getAll EXCEPT !.at = "done"]
      PROVE  IInv'
  <2>1. /\ getAll'.at = "done" /\ getAll'.i = getAll.i /\ getAll'.node = getAll.node
        /\ getAll'.vec = getAll.vec /\ getAll' \in ScanRecs
    BY <1>2, <1>4 DEF ScanRecs
  <2>2. Loop'
    BY <1>1, <1>2, <1>4, <2>1 DEF Loop
  <2>3. \A n \in 1..Len(heap) : (Passed(n))' <=> Passed(n)
    BY <1>1, <2>1 DEF Passed
  <2>4. Held' /\ Complete' /\ Sound' /\ Once'
    BY <1>1, <2>1, <2>3, SamePassed
  <2>5. Scanning'
    BY <2>2, <2>4 DEF Scanning
  <2>6. before' \subseteq Contents
    BY <1>1 DEF IInv, Types
  <2> QED BY <1>1, <1>2, <2>1, <2>5, <2>6, ReaderFrame
<1> QED BY <1>3, <1>4 DEF ScanBucket

(* The inner loop passes exactly one node, which it had not passed before. *)
LEMMA ScanNodeInv ==
  ASSUME IInv, ScanFrame, before' = before, getAll.at = "walk", getAll.node # Null,
         getAll' = [getAll EXCEPT !.vec = Append(@, heap[getAll.node].p_content),
                                  !.node = heap[getAll.node].next]
  PROVE  IInv'
<1> DEFINE n == getAll.node
           c == heap[n].p_content
           K == Len(getAll.vec)
<1>1. heap' = heap /\ tabLen_' = tabLen_ /\ process = "running"
  BY Reading DEF ScanFrame, persistent
<1>2. /\ getAll.i \in Nat /\ getAll.i < tabLen_ /\ tabLen_ \in Nat /\ Len(heap) \in Nat
      /\ n \in 1..Len(heap) /\ Slot(heap, n) = getAll.i /\ getAll \in ScanRecs
      /\ getAll.vec \in Seq(Contents)
  BY Facts DEF IInv, Scanning, Loop, Types, Null
<1>3. /\ heap[n].next \in Nat /\ heap[n].next < n /\ n \in Nat /\ c \in Contents
      /\ heap[n].next # Null => Slot(heap, heap[n].next) = getAll.i
      /\ \A m \in 1..Len(heap) : (m < n /\ Slot(heap, m) = getAll.i) => m <= heap[n].next
      /\ heap[n].next <= Len(heap)
  <2>1. heap[n].next \in Nat /\ n \in Nat /\ c \in Contents
    BY <1>2, Facts, NodeFacts
  <2>2. /\ heap[n].next < n
        /\ heap[n].next # Null => Slot(heap, heap[n].next) = Slot(heap, n)
        /\ \A m \in 1..Len(heap) : (m < n /\ Slot(heap, m) = Slot(heap, n)) => m <= heap[n].next
    BY <1>2 DEF IInv, WellLinked, Linked
  <2> QED BY <1>2, <2>1, <2>2
<1>4. Append(getAll.vec, c) \in Seq(Contents)
  BY <1>2, <1>3
<1>5. /\ getAll'.at = "walk" /\ getAll'.i = getAll.i /\ getAll'.node = heap[n].next
      /\ getAll'.vec = Append(getAll.vec, c) /\ getAll' \in ScanRecs
  BY <1>2, <1>3, <1>4 DEF ScanRecs
<1>6. /\ K \in Nat /\ Len(getAll'.vec) = K + 1 /\ getAll'.vec[K + 1] = c
      /\ \A k \in 1..K : getAll'.vec[k] = getAll.vec[k]
  BY <1>2, <1>3, <1>5, Appended
<1>7. \A k \in 1..Len(getAll'.vec) : k \in 1..K \/ k = K + 1
  BY <1>6
<1>8. \A k \in 1..K : k \in 1..Len(getAll'.vec) /\ K + 1 \in 1..Len(getAll'.vec)
  BY <1>6
<1>9. K + 1 \in 1..Len(getAll'.vec)
  BY <1>6
<1> HIDE DEF K, c, n
<1>10. ~Passed(n)
  <2>1. ~(getAll.i < getAll.i) /\ ~(n < n)
    BY <1>2, <1>3
  <2> QED BY <1>2, <2>1 DEF Passed, n
<1>11. \A m \in 1..Len(heap) : (Passed(m))' <=> (Passed(m) \/ m = n)
  <2> TAKE m \in 1..Len(heap)
  <2>1. (Passed(m))' <=> (Slot(heap, m) < getAll.i \/ (Slot(heap, m) = getAll.i /\ heap[n].next < m))
    BY <1>1, <1>5 DEF Passed
  <2>2. Passed(m) <=> (Slot(heap, m) < getAll.i \/ (Slot(heap, m) = getAll.i /\ n < m))
    BY DEF Passed, n
  <2>3. Slot(heap, m) = getAll.i => (heap[n].next < m <=> (n < m \/ m = n))
    BY <1>3
  <2> QED BY <1>2, <2>1, <2>2, <2>3
<1>12. Held /\ Complete /\ Sound /\ Once
  BY DEF IInv, Scanning
<1>13. Loop'
  BY <1>1, <1>2, <1>3, <1>5 DEF Loop
<1>14. Held'
  BY <1>1, <1>12 DEF Held, Fresh
<1>15. Complete'
  <2> SUFFICES ASSUME NEW m \in 1..Len(heap), heap[m].p_content \in before, (Passed(m))'
               PROVE  \E k \in 1..Len(getAll'.vec) : getAll'.vec[k] = heap[m].p_content
    BY <1>1 DEF Complete, Returned
  <2>1. CASE m = n
    BY <1>6, <1>9, <2>1 DEF c
  <2>2. CASE Passed(m)
    <3>1. PICK k \in 1..K : getAll.vec[k] = heap[m].p_content
      BY <1>12, <2>2 DEF Complete, Returned, K
    <3> QED BY <1>6, <1>8, <3>1
  <2> QED BY <1>11, <2>1, <2>2
<1>16. Sound'
  <2> SUFFICES ASSUME NEW k \in 1..Len(getAll'.vec)
               PROVE  \E m \in 1..Len(heap) : heap[m].p_content = getAll'.vec[k] /\ (Passed(m))'
    BY <1>1 DEF Sound
  <2>1. CASE k = K + 1
    BY <1>2, <1>6, <1>11, <2>1 DEF c
  <2>2. CASE k \in 1..K
    <3>1. PICK m \in 1..Len(heap) : heap[m].p_content = getAll.vec[k] /\ Passed(m)
      BY <1>12, <2>2 DEF Sound, K
    <3> QED BY <1>6, <1>11, <2>2, <3>1
  <2> QED BY <1>7, <2>1, <2>2
<1>17. Once'
  <2>1. ASSUME NEW k \in 1..K, getAll.vec[k] = c PROVE FALSE
    <3>1. PICK m \in 1..Len(heap) : heap[m].p_content = getAll.vec[k] /\ Passed(m)
      BY <1>12 DEF Sound, K
    <3>2. m = n
      BY <1>2, <2>1, <3>1 DEF IInv, WellLinked, Distinct, c
    <3> QED BY <1>10, <3>1, <3>2
  <2>2. \A k, l \in 1..K : getAll.vec[k] = getAll.vec[l] => k = l
    BY <1>12 DEF Once, K
  <2> QED BY <1>6, <1>7, <2>1, <2>2 DEF Once
<1>18. Scanning'
  BY <1>13, <1>14, <1>15, <1>16, <1>17 DEF Scanning
<1>19. before' \subseteq Contents /\ getAll'.node <= Len(heap)
  BY <1>3, <1>5 DEF IInv, Types
<1> QED BY <1>1, <1>5, <1>18, <1>19, ReaderFrame

LEMMA ScanWalkInv == ASSUME IInv, ScanWalk PROVE IInv'
<1>1. /\ ScanFrame /\ heap' = heap /\ tabLen_' = tabLen_ /\ before' = before /\ process = "running"
      /\ getAll.at = "walk"
  BY Reading DEF ScanWalk, ScanFrame, persistent
<1>2. /\ getAll.i \in Nat /\ getAll.i < tabLen_ /\ tabLen_ \in Nat
      /\ getAll.node <= Len(heap) /\ getAll \in ScanRecs
  BY <1>1, Facts DEF IInv, Scanning, Loop, Types
<1>3. ASSUME getAll.node = Null, getAll' = [getAll EXCEPT !.at = "bucket", !.i = @ + 1]
      PROVE  IInv'
  <2>1. /\ getAll'.at = "bucket" /\ getAll'.i = getAll.i + 1 /\ getAll'.node = getAll.node
        /\ getAll'.vec = getAll.vec /\ getAll' \in ScanRecs
    <3> DEFINE j == getAll.i + 1
    <3>1. j \in Nat /\ getAll' = [getAll EXCEPT !.at = "bucket", !.i = j]
      BY <1>2, <1>3
    <3> HIDE DEF j
    <3>2. /\ getAll'.at = "bucket" /\ getAll'.i = j /\ getAll'.node = getAll.node
          /\ getAll'.vec = getAll.vec /\ getAll' \in ScanRecs
      BY <1>2, <3>1 DEF ScanRecs
    <3> QED BY <3>2 DEF j
  <2>2. Loop'
    BY <1>1, <1>2, <2>1 DEF Loop
  <2>3. \A n \in 1..Len(heap) : (Passed(n))' <=> Passed(n)
    <3> TAKE n \in 1..Len(heap)
    <3>1. Slot(heap, n) \in Nat /\ Null < n
      BY Facts, NodeFacts DEF Null
    <3>2. Slot(heap, n) < getAll.i + 1 <=> (Slot(heap, n) < getAll.i \/ Slot(heap, n) = getAll.i)
      BY <1>2, <3>1
    <3> QED BY <1>1, <1>3, <2>1, <3>1, <3>2 DEF Passed
  <2>4. Held' /\ Complete' /\ Sound' /\ Once'
    BY <1>1, <2>1, <2>3, SamePassed
  <2>5. Scanning'
    BY <2>2, <2>4 DEF Scanning
  <2>6. before' \subseteq Contents
    BY <1>1 DEF IInv, Types
  <2> QED BY <1>1, <1>2, <2>1, <2>5, <2>6, ReaderFrame
<1> QED BY <1>1, <1>3, ScanNodeInv DEF ScanWalk

LEMMA ScanReturnInv == ASSUME IInv, ScanReturn PROVE IInv'
<1>1. /\ ScanFrame /\ tabLen_' = tabLen_ /\ process = "running"
      /\ getAll' = ScanIdle /\ before' = {}
  BY Reading DEF ScanReturn, ScanFrame, persistent
<1>2. Scanning' /\ getAll' \in ScanRecs
  BY <1>1, Facts, IdleScans
<1>3. getAll'.node <= Len(heap)
  BY <1>1, Facts DEF ScanIdle, Null
<1> QED BY <1>1, <1>2, <1>3, ReaderFrame

LEMMA StutterInv == ASSUME IInv, UNCHANGED vars PROVE IInv'
<1>1. UNCHANGED <<heap, tabLen_, tab_, pool, allocated, process, failures, put, getAll, before>>
  BY DEF vars, persistent
<1>2. Scanning'
  BY <1>1, Unmoved
<1>3. WellLinked(heap, tab_)'
  BY <1>1 DEF IInv
<1>4. Types' /\ Phases'
  BY <1>1, Zenon DEF IInv, Types, Phases
<1>5. Putting'
  BY <1>1 DEF IInv, Putting, Fresh, bucket
<1> QED BY <1>2, <1>3, <1>4, <1>5 DEF IInv

LEMMA NextInv == IInv /\ [Next]_vars => IInv'
<1> SUFFICES ASSUME IInv, [Next]_vars PROVE IInv'
  OBVIOUS
<1>1. CASE Create
  BY <1>1, CreateInv
<1>2. CASE MapInit
  BY <1>2, MapInitInv
<1>3. CASE Open
  BY <1>3, OpenInv
<1>4. CASE Crash \/ PutDividesByZero \/ PutAbort
  BY <1>4, FailureInv
<1>5. CASE NewContent
  BY <1>5, NewContentInv
<1>6. CASE Put
  BY <1>6, PutInv
<1>7. CASE PutRun
  BY <1>7, PutRunInv
<1>8. CASE PutCommit
  BY <1>8, PutCommitInv
<1>9. CASE Scan
  BY <1>9, ScanBeginInv, ScanBucketInv, ScanWalkInv, ScanReturnInv DEF Scan
<1>10. CASE UNCHANGED vars
  BY <1>10, StutterInv
<1> QED BY <1>1, <1>2, <1>3, <1>4, <1>5, <1>6, <1>7, <1>8, <1>9, <1>10 DEF Next

LEMMA Invariant == Spec => []IInv
BY InitInv, NextInv, PTL DEF Spec

-----------------------------------------------------------------------------
(* What the steps do to the set of stored contents.                        *)

DurableLen == IF put.at = "commit" THEN Len(heap) - 1 ELSE Len(heap)
DurableCounted == Len(durableHeap) = DurableLen

LEMMA DurableNow == IInv => DurableCounted
BY Durable DEF DurableCounted, DurableLen

LEMMA DurableNext == IInv' => DurableCounted'
BY DurableNow, PTL

LEMMA StoredBefore ==
  ASSUME IInv
  PROVE  /\ Stored = {heap[n].p_content : n \in 1..DurableLen}
         /\ DurableLen \in Nat /\ DurableLen <= Len(heap) /\ Len(heap) \in Nat
         /\ \A n \in 1..DurableLen : n \in 1..Len(heap)
<1>1. Len(durableHeap) = DurableLen
  BY DurableNow DEF DurableCounted
<1> QED BY <1>1, StoredIs, Durable, Facts DEF StoredWhole

LEMMA StoredAfter ==
  ASSUME IInv'
  PROVE  Stored' = {heap'[n].p_content : n \in 1..DurableLen'}
BY StoredNext, DurableNext DEF StoredWhole, DurableCounted

LEMMA StoredSame ==
  ASSUME IInv, IInv', DurableLen' = DurableLen, \A n \in 1..DurableLen : heap'[n] = heap[n]
  PROVE  Stored' = Stored
<1>1. Stored = {heap[n].p_content : n \in 1..DurableLen}
  BY StoredBefore
<1>2. Stored' = {heap'[n].p_content : n \in 1..DurableLen'}
  BY StoredAfter
<1> QED BY <1>1, <1>2

(* The content of an unfinished put is allocated and not stored. *)
LEMMA InFlight ==
  ASSUME IInv, put.at # "idle"
  PROVE  put.content \in allocated \ Stored /\ put.content \in Contents
<1>1. put.content \in allocated /\ put.content \in Contents
  BY PutContent
<1>2. \A n \in 1..DurableLen : heap[n].p_content # put.content
  <2>1. CASE put.at = "commit"
    <3>1. Len(heap) \in 1..Len(heap) /\ Len(heap) \in Nat /\ heap[Len(heap)].p_content = put.content
      BY <2>1, Facts DEF IInv, Putting
    <3>2. DurableLen = Len(heap) - 1
      BY <2>1 DEF DurableLen
    <3>3. \A n \in 1..DurableLen : n \in 1..Len(heap) /\ n # Len(heap)
      BY <3>1, <3>2
    <3> QED BY <3>1, <3>3 DEF IInv, WellLinked, Distinct
  <2>2. CASE put.at # "commit"
    <3>1. put.at \in {"put", "run"} /\ DurableLen = Len(heap)
      BY <2>2, Facts DEF DurableLen
    <3> QED BY <3>1 DEF IInv, Putting, Fresh
  <2> QED BY <2>1, <2>2
<1> QED BY <1>1, <1>2, StoredBefore

LEMMA CommitStores ==
  ASSUME IInv, IInv', PutCommit
  PROVE  Stored' = Stored \cup {put.content}
<1>1. heap' = heap /\ put.at = "commit" /\ put'.at = "idle"
  BY DEF PutCommit, persistent, PutIdle
<1>2. Len(heap) \in Nat /\ Len(heap) # 0 /\ heap[Len(heap)].p_content = put.content
  BY <1>1, Facts DEF IInv, Putting
<1>3. DurableLen = Len(heap) - 1 /\ DurableLen' = Len(heap)
  BY <1>1 DEF DurableLen
<1>4. Stored' = {heap[n].p_content : n \in 1..Len(heap)}
  BY <1>1, <1>3, StoredAfter
<1>5. Stored = {heap[n].p_content : n \in 1..(Len(heap) - 1)}
  BY <1>3, StoredBefore
<1>6. \A n : n \in 1..Len(heap) <=> (n \in 1..(Len(heap) - 1) \/ n = Len(heap))
  BY <1>2
<1> QED BY <1>2, <1>4, <1>5, <1>6

LEMMA DeathKeeps ==
  ASSUME IInv, IInv', Dies
  PROVE  Stored' = Stored
<1>1. heap' = durableHeap /\ put'.at = "idle"
  BY DEF Dies, PutIdle
<1>2. Len(durableHeap) = DurableLen
  BY DurableNow DEF DurableCounted
<1>3. DurableLen' = DurableLen
  BY <1>1, <1>2 DEF DurableLen
<1>4. \A n \in 1..DurableLen : heap'[n] = heap[n]
  BY <1>1, <1>2, Durable
<1> QED BY <1>3, <1>4, StoredSame

LEMMA PutRunKeeps ==
  ASSUME IInv, IInv', PutRun
  PROVE  Stored' = Stored
<1> DEFINE new == [p_content |-> put.content, next |-> put.head]
<1>1. put.at = "run" /\ put' = [put EXCEPT !.at = "commit"] /\ heap' = Append(heap, new)
  BY DEF PutRun, PutRunFrame, NewHead
<1>2. put'.at = "commit"
  <2>1. put \in PutRecs
    BY DEF IInv, Types
  <2> QED BY <1>1, <2>1 DEF PutRecs
<1>3. new \in NodeRecs
  BY <1>1, PutContent, Facts DEF NodeRecs
<1> HIDE DEF new
<1>4. Len(heap) \in Nat /\ Len(heap') = Len(heap) + 1 /\ \A n \in 1..Len(heap) : heap'[n] = heap[n]
  BY <1>1, <1>3, Facts, Appended
<1>5. DurableLen = Len(heap) /\ DurableLen' = DurableLen
  BY <1>1, <1>2, <1>4 DEF DurableLen
<1> QED BY <1>4, <1>5, StoredSame

(* Every other step leaves the nodes alone and opens no transaction. *)
LEMMA OthersKeep ==
  ASSUME IInv, IInv', heap' = heap, put.at = "commit" <=> put'.at = "commit"
  PROVE  Stored' = Stored
<1>1. DurableLen' = DurableLen
  BY DEF DurableLen
<1> QED BY <1>1, StoredSame

LEMMA NewContentKeeps ==
  ASSUME IInv, IInv', NewContent
  PROVE  Stored' = Stored /\ put'.at = "put"
<1>1. heap' = heap /\ put.at = "idle" /\ put'.at = "put"
  BY DEF NewContent, PutIdle
<1> QED BY <1>1, OthersKeep

LEMMA PutKeeps ==
  ASSUME IInv, IInv', Put
  PROVE  Stored' = Stored /\ put'.at = "run"
<1>1. put \in PutRecs
  BY DEF IInv, Types
<1>2. heap' = heap /\ put.at = "put" /\ put'.at = "run"
  BY <1>1 DEF Put, persistent, PutRecs
<1> QED BY <1>2, OthersKeep

Quiet == Create \/ MapInit \/ Open \/ Scan \/ UNCHANGED vars

LEMMA QuietKeeps ==
  ASSUME IInv, IInv', Quiet
  PROVE  Stored' = Stored /\ UNCHANGED <<allocated, failures, put>>
<1>1. UNCHANGED <<heap, allocated, failures, put>>
  BY DEF Quiet, Create, MapInit, Open, Scan, ScanBegin, ScanBucket, ScanWalk, ScanReturn,
         ScanFrame, vars, persistent
<1> QED BY <1>1, OthersKeep

LEMMA Steps ==
  ASSUME [Next]_vars
  PROVE  NewContent \/ Put \/ PutRun \/ PutCommit \/ Dies \/ Quiet
BY DEF Next, Crash, PutDividesByZero, PutAbort, Quiet

-----------------------------------------------------------------------------
(* The theorems.                                                           *)

(* The nodes, the bucket heads and the loop variables of put and getAll    *)
(* stay in their types and within the heap, whatever crash rolls a         *)
(* transaction back (pmem_hash_map.h:34-103).                              *)
THEOREM MapTypeCorrect == Spec => []TypeOK
<1>1. IInv => TypeOK
  <2> SUFFICES ASSUME IInv PROVE TypeOK
    OBVIOUS
  <2>1. heap \in Seq([p_content : Contents, next : Nat])
    BY Facts DEF NodeRecs
  <2>2. tab_ \in [Buckets -> 0..Len(heap)]
    BY Facts
  <2>3. put.head \in 0..Len(heap) /\ getAll.node \in 0..Len(heap)
    BY Facts DEF IInv, Types
  <2>4. getAll.i \in 0..TabLen
    BY Facts DEF IInv, Scanning, Loop
  <2> QED BY <2>1, <2>2, <2>3, <2>4, Facts DEF IInv, Types, TypeOK
<1> QED BY <1>1, Invariant, PTL

LEMMA AllPassed ==
  ASSUME IInv, getAll.at = "done", NEW n \in 1..Len(heap)
  PROVE  Passed(n)
<1>1. tabLen_ # 0
  <2>1. Len(heap) # 0
    BY Facts
  <2> QED BY <2>1 DEF IInv, Phases
<1>2. getAll.i = TabLen
  BY <1>1 DEF IInv, Scanning, Loop, Types
<1>3. Slot(heap, n) < TabLen
  BY Facts, NodeFacts
<1> QED BY <1>2, <1>3 DEF Passed

(* A sequence that repeats nothing has as many members as places. *)
LEMMA NoRepeats ==
  ASSUME NEW S, NEW s \in Seq(S), \A k, l \in 1..Len(s) : s[k] = s[l] => k = l
  PROVE  Cardinality({s[k] : k \in 1..Len(s)}) = Len(s)
<1> DEFINE I == 1..Len(s)
           R == {s[k] : k \in I}
           f == [k \in I |-> s[k]]
<1>1. Len(s) \in Nat /\ IsFiniteSet(I) /\ Cardinality(I) = Len(s)
  <2>1. Len(s) \in Nat /\ 1 \in Int /\ Len(s) \in Int
    OBVIOUS
  <2>2. IsFiniteSet(I) /\ Cardinality(I) = IF 1 > Len(s) THEN 0 ELSE Len(s) - 1 + 1
    BY <2>1, FS_Interval
  <2> QED BY <2>1, <2>2
<1>2. f \in [I -> R] /\ (\A k \in I : f[k] = s[k]) /\ \A r \in R : \E k \in I : s[k] = r
  OBVIOUS
<1>3. \A k, l \in I : s[k] = s[l] => k = l
  OBVIOUS
<1> HIDE DEF I, R, f
<1>4. f \in Bijection(I, R)
  <2>1. f \in Injection(I, R)
    BY <1>2, <1>3 DEF Injection, IsInjective
  <2>2. f \in Surjection(I, R)
    BY <1>2 DEF Surjection
  <2> QED BY <2>1, <2>2 DEF Bijection
<1>5. ExistsBijection(I, R)
  BY <1>4 DEF ExistsBijection
<1>6. Cardinality(R) = Len(s)
  BY <1>1, <1>5, FS_Bijection
<1> QED BY <1>6 DEF R, I

(* A getAll that overlaps with puts returns everything that was stored     *)
(* when it was called, nothing twice, and nothing that is neither stored   *)
(* nor about to be, for any number of contents, buckets and crashes        *)
(* (pmem_hash_map.h:62-73 against the put of lines 88-102).                *)
THEOREM GetAllSeesSnapshot == Spec => []GetAllIsSnapshot
<1>1. IInv => GetAllIsSnapshot
  <2> SUFFICES ASSUME IInv, getAll.at = "done" PROVE GetAllIsSnapshot
    BY DEF GetAllIsSnapshot
  <2> DEFINE returned == {getAll.vec[n] : n \in 1..Len(getAll.vec)}
             inFlight == IF put.at = "commit" THEN {put.content} ELSE {}
  <2>1. Held /\ Complete /\ Sound /\ Once
    BY DEF IInv, Scanning
  <2>2. \A n \in 1..Len(heap) : Passed(n)
    BY AllPassed
  <2>3. before \subseteq returned
    BY <2>1, <2>2 DEF Held, Fresh, Complete, Returned
  <2>4. returned \subseteq Stored \cup inFlight
    <3> SUFFICES ASSUME NEW k \in 1..Len(getAll.vec)
                 PROVE  getAll.vec[k] \in Stored \cup inFlight
      OBVIOUS
    <3>1. PICK n \in 1..Len(heap) : heap[n].p_content = getAll.vec[k]
      BY <2>1 DEF Sound
    <3>2. CASE n \in 1..DurableLen
      BY <3>1, <3>2, StoredBefore
    <3>3. CASE n \notin 1..DurableLen
      <4>1. put.at = "commit" /\ n = Len(heap)
        BY <3>3, StoredBefore DEF DurableLen
      <4>2. heap[n].p_content = put.content
        BY <4>1 DEF IInv, Putting
      <4> QED BY <3>1, <4>1, <4>2
    <3> QED BY <3>2, <3>3
  <2>5. Cardinality(returned) = Len(getAll.vec)
    BY <2>1, Facts, NoRepeats DEF Once
  <2> QED BY <2>3, <2>4, <2>5 DEF GetAllIsSnapshot
<1> QED BY <1>1, Invariant, PTL

LEMMA Leaked ==
  ASSUME IInv
  PROVE  /\ IsFiniteSet(allocated \ Stored) /\ Cardinality(allocated \ Stored) \in Nat
         /\ failures \in Nat
<1>1. IsFiniteSet(allocated)
  BY DEF IInv, Types
<1>2. allocated \ Stored \in SUBSET allocated
  OBVIOUS
<1>3. IsFiniteSet(allocated \ Stored)
  BY <1>1, <1>2, FS_Subset
<1> QED BY <1>3, FS_CardinalityType, Facts

LEMMA LeaksNext ==
  ASSUME IInv, LeaksBounded, [Next]_vars
  PROVE  LeaksBounded'
<1> DEFINE L == allocated \ Stored
           M == allocated' \ Stored'
<1>0. IInv'
  BY NextInv
<1>1. /\ IsFiniteSet(L) /\ Cardinality(L) \in Nat /\ failures \in Nat
      /\ Cardinality(L) <= failures + (IF put.at = "idle" THEN 0 ELSE 1)
  BY Leaked DEF LeaksBounded
<1> SUFFICES Cardinality(M) <= failures' + (IF put'.at = "idle" THEN 0 ELSE 1)
  BY DEF LeaksBounded
<1>2. CASE NewContent
  <2>1. Stored' = Stored /\ put'.at = "put" /\ put.at = "idle" /\ failures' = failures
    BY <1>0, <1>2, NewContentKeeps DEF NewContent
  <2>2. PICK c \in Contents \ allocated : allocated' = allocated \cup {c}
    BY <1>2 DEF NewContent
  <2>3. CASE c \in Stored
    <3>1. M = L
      BY <2>1, <2>2, <2>3
    <3> QED BY <1>1, <2>1, <3>1
  <2>4. CASE c \notin Stored
    <3>1. M = L \cup {c} /\ c \notin L
      BY <2>1, <2>2, <2>4
    <3> HIDE DEF L, M
    <3>2. Cardinality(M) = Cardinality(L) + 1
      BY <1>1, <3>1, FS_AddElement
    <3> QED BY <1>1, <2>1, <3>2
  <2> QED BY <2>3, <2>4
<1>3. CASE Put
  <2>1. Stored' = Stored /\ put'.at = "run" /\ put.at = "put" /\ failures' = failures /\ allocated' = allocated
    BY <1>0, <1>3, PutKeeps DEF Put, persistent
  <2> QED BY <1>1, <2>1
<1>4. CASE PutRun
  <2>1. Stored' = Stored /\ put.at = "run" /\ failures' = failures /\ allocated' = allocated
    BY <1>0, <1>4, PutRunKeeps DEF PutRun, PutRunFrame
  <2>2. put \in PutRecs /\ put' = [put EXCEPT !.at = "commit"]
    BY <1>4 DEF IInv, Types, PutRun, PutRunFrame
  <2>3. put'.at = "commit"
    BY <2>2 DEF PutRecs
  <2> QED BY <1>1, <2>1, <2>3
<1>5. CASE PutCommit
  <2>1. Stored' = Stored \cup {put.content} /\ put.at = "commit" /\ put'.at = "idle"
        /\ failures' = failures /\ allocated' = allocated
    BY <1>0, <1>5, CommitStores DEF PutCommit, persistent, PutIdle
  <2>2. put.content \in L
    BY <2>1, InFlight
  <2>3. M = L \ {put.content}
    BY <2>1
  <2> HIDE DEF L, M
  <2>4. Cardinality(M) = Cardinality(L) - 1
    BY <1>1, <2>2, <2>3, FS_RemoveElement
  <2> QED BY <1>1, <2>1, <2>4
<1>6. CASE Dies
  <2>1. Stored' = Stored /\ put'.at = "idle" /\ failures' = failures + 1 /\ allocated' = allocated
    BY <1>0, <1>6, DeathKeeps DEF Dies, PutIdle
  <2> QED BY <1>1, <2>1
<1>7. CASE Quiet
  <2>1. Stored' = Stored /\ put' = put /\ failures' = failures /\ allocated' = allocated
    BY <1>0, <1>7, QuietKeeps
  <2> QED BY <1>1, <2>1
<1> QED BY <1>2, <1>3, <1>4, <1>5, <1>6, <1>7, Steps

(* Allocating a content and putting it are two transactions, and a death   *)
(* between them leaks one content; no other way to leak exists, however    *)
(* often the process dies (tests/test_pmem_hash_map.cc:89-100).            *)
THEOREM LeaksStayBounded == Spec => []LeaksBounded
<1>1. Init => LeaksBounded
  <2> SUFFICES ASSUME Init PROVE LeaksBounded
    OBVIOUS
  <2>1. allocated \ Stored = {} /\ failures = 0 /\ put.at = "idle"
    BY DEF Init, PutIdle
  <2>2. Cardinality({}) = 0
    BY FS_EmptySet
  <2> QED BY <2>1, <2>2 DEF LeaksBounded
<1>2. IInv /\ LeaksBounded /\ [Next]_vars => LeaksBounded'
  BY LeaksNext
<1> QED BY <1>1, <1>2, Invariant, PTL DEF Spec

(* The chains implement a set of contents: a put adds its content when its *)
(* transaction commits, and no crash, abort or reader changes the set      *)
(* (pmem_hash_map.h:88-102).                                               *)
THEOREM MapImplementsContentSet == Spec => ImplementsContentSet
<1>1. Init => Abstract!Init
  <2> SUFFICES ASSUME Init PROVE Stored = {}
    BY DEF Abstract!Init
  <2>1. Stored = {heap[n].p_content : n \in 1..DurableLen}
    BY InitInv, StoredBefore
  <2>2. DurableLen = 0
    BY DEF Init, DurableLen, PutIdle
  <2> QED BY <2>1, <2>2
<1>2. ASSUME IInv, [Next]_vars PROVE [Abstract!Next]_Stored
  <2>1. IInv'
    BY <1>2, NextInv
  <2>2. CASE PutCommit
    <3>1. Stored' = Stored \cup {put.content}
      BY <1>2, <2>1, <2>2, CommitStores
    <3>2. put.content \in Contents /\ put.content \notin Stored
      BY <1>2, <2>2, InFlight DEF PutCommit
    <3> QED BY <3>1, <3>2 DEF Abstract!Next, Abstract!Add
  <2>3. CASE ~PutCommit
    <3>1. Stored' = Stored
      BY <1>2, <2>1, <2>3, Steps, NewContentKeeps, PutKeeps, PutRunKeeps, DeathKeeps, QuietKeeps
    <3> QED BY <3>1
  <2> QED BY <2>2, <2>3
<1>3. IInv /\ [Next]_vars => [Abstract!Next]_Stored
  BY <1>2
<1> QED BY <1>1, <1>3, Invariant, PTL DEF Spec, ImplementsContentSet, Abstract!Spec

=============================================================================
