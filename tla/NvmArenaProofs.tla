--------------------------- MODULE NvmArenaProofs ---------------------------
(***************************************************************************)
(* NVMArena never hands out overlapping or misaligned memory: proved for   *)
(* every block, alignment unit and set of request sizes that               *)
(* ArenaAssumption allows.                                                 *)
(***************************************************************************)
EXTENDS NvmArena, FiniteSetTheorems, WellFoundedInduction, TLAPS

(* A multiple of the alignment unit is aligned. *)
LEMMA MultipleIsAligned ==
  ASSUME NEW q \in Nat
  PROVE  (kAlignUnit * q) % kAlignUnit = 0
<1> DEFINE d == kAlignUnit
           x == d * q
           e == x \div d
           m == x % d
<1>1. d \in Nat \ {0} /\ x \in Nat
  BY ArenaAssumption
<1> HIDE DEF d
<1>2. e \in Int /\ m \in 0..(d - 1) /\ x = d * e + m
  BY <1>1
<1>3. d * (q - e) = m
  BY <1>1, <1>2
<1>4. m = 0
  <2> HIDE DEF x, e, m
  <2>1. CASE q - e >= 1
    <3>1. d * (q - e) >= d
      BY <1>1, <1>2, <2>1
    <3> QED BY <1>1, <1>2, <1>3, <3>1
  <2>2. CASE q - e <= -1
    <3>1. d * (q - e) <= -d
      BY <1>1, <1>2, <2>2
    <3> QED BY <1>1, <1>2, <1>3, <3>1
  <2>3. CASE q - e = 0
    <3>1. d * (q - e) = 0
      BY <1>1, <2>3
    <3> QED BY <1>3, <3>1
  <2> QED BY <1>2, <2>1, <2>2, <2>3
<1> QED BY <1>4 DEF d

(* The slop is less than one alignment unit and reaches an aligned address.*)
LEMMA SlopFacts ==
  ASSUME NEW addr \in Nat
  PROVE  /\ Slop(addr) \in Nat
         /\ Slop(addr) < kAlignUnit
         /\ (addr + Slop(addr)) % kAlignUnit = 0
<1> DEFINE q == addr \div kAlignUnit
           m == addr % kAlignUnit
<1>1. m \in Nat /\ m < kAlignUnit
  BY ArenaAssumption
<1>2. Slop(addr) \in Nat /\ Slop(addr) < kAlignUnit
  BY <1>1, ArenaAssumption DEF Slop
<1>3. q \in Nat
  BY ArenaAssumption
<1>4. addr = kAlignUnit * q + m
  BY ArenaAssumption
<1>5. (addr + Slop(addr)) % kAlignUnit = 0
  <2>1. CASE m = 0
    <3>1. addr + Slop(addr) = addr
      BY <2>1 DEF Slop
    <3> QED BY <2>1, <3>1
  <2>2. CASE m # 0
    <3>1. Slop(addr) = kAlignUnit - m
      BY <2>2 DEF Slop
    <3> HIDE DEF q, m
    <3>2. addr + Slop(addr) = kAlignUnit * (q + 1)
      BY <1>1, <1>3, <1>4, <3>1, ArenaAssumption
    <3> QED BY <1>3, <3>2, MultipleIsAligned
  <2> QED BY <2>1, <2>2
<1> QED BY <1>2, <1>5

(* What one aligned request needs: no wrap-around, so the size_t sum is    *)
(* the sum.                                                                *)
LEMMA NeededIsSum ==
  ASSUME NEW bytes \in Requests, NEW addr \in Nat
  PROVE  Plus(bytes, Slop(addr)) = bytes + Slop(addr)
<1>1. bytes + Slop(addr) < SizeMod
  BY SlopFacts, ArenaAssumption
<1> QED BY <1>1 DEF Plus

-----------------------------------------------------------------------------

IInv == /\ TypeOK
        /\ RemainingIsGap
        /\ RegionsOutsideGap
        /\ NoOverlap
        /\ AlignedResults

LEMMA InitIInv == Init => IInv
<1> SUFFICES ASSUME Init PROVE IInv
  OBVIOUS
<1>1. TypeOK
  <2>1. /\ aligned_alloc_ptr_ \in Nat
        /\ unaligned_alloc_ptr_ \in Nat
        /\ alloc_bytes_remaining_ \in Nat
        /\ allocs \in Nat
    BY ArenaAssumption DEF Init
  <2>2. exited \in BOOLEAN
    BY Zenon DEF Init
  <2>3. regions \subseteq Region
    BY DEF Init
  <2> QED BY <2>1, <2>2, <2>3 DEF TypeOK
<1>2. RemainingIsGap
  BY ArenaAssumption DEF Init, RemainingIsGap
<1>3. RegionsOutsideGap /\ NoOverlap /\ AlignedResults
  BY DEF Init, RegionsOutsideGap, NoOverlap, AlignedResults
<1> QED BY <1>1, <1>2, <1>3 DEF IInv

(* The history variables keep their types when a call returns.             *)
LEMMA ReturnType ==
  ASSUME IInv,
         NEW bytes \in Nat, NEW addr \in Nat, NEW isAligned \in BOOLEAN,
         Return(addr, bytes, isAligned)
  PROVE  exited' \in BOOLEAN /\ allocs' \in Nat /\ regions' \subseteq Region
<1>1. allocs \in Nat /\ regions \subseteq Region /\ exited \in BOOLEAN
  BY DEF IInv, TypeOK
<1>2. [id |-> allocs, lo |-> addr, bytes |-> bytes, aligned |-> isAligned]
        \in Region
  BY <1>1 DEF Region
<1>3. regions' \subseteq Region
  BY <1>1, <1>2 DEF Return
<1>4. allocs' \in Nat
  BY <1>1 DEF Return
<1>5. exited' \in BOOLEAN
  BY <1>1, Zenon DEF Return
<1> QED BY <1>3, <1>4, <1>5

(* A region carved out of the gap, at the end of it that moves, keeps all  *)
(* of IInv.                                                                *)
LEMMA CarvePreserves ==
  ASSUME IInv,
         NEW bytes \in Nat \ {0}, NEW addr \in Nat, NEW isAligned \in BOOLEAN,
         Return(addr, bytes, isAligned),
         TypeOK', RemainingIsGap',
         isAligned => addr % kAlignUnit = 0,
         aligned_alloc_ptr_ <= addr, addr + bytes <= unaligned_alloc_ptr_,
         aligned_alloc_ptr_ <= aligned_alloc_ptr_',
         unaligned_alloc_ptr_' <= unaligned_alloc_ptr_,
         addr + bytes <= aligned_alloc_ptr_' \/ unaligned_alloc_ptr_' <= addr
  PROVE  IInv'
<1> DEFINE new == [id |-> allocs, lo |-> addr, bytes |-> bytes,
                   aligned |-> isAligned]
<1>1. /\ regions' = regions \cup {new}
      /\ regions \subseteq Region /\ new \in Region
      /\ new.lo = addr /\ new.bytes = bytes /\ new.aligned = isAligned
  BY DEF Return, IInv, TypeOK, Region
<1>2. \A r \in Region : r.lo \in Nat /\ r.bytes \in Nat
  BY DEF Region
<1> HIDE DEF new
<1>3. RegionsOutsideGap'
  <2>1. SUFFICES ASSUME NEW r \in regions'
                 PROVE  End(r) <= aligned_alloc_ptr_' \/ unaligned_alloc_ptr_' <= r.lo
    BY DEF RegionsOutsideGap, End
  <2>2. CASE r = new
    BY <1>1, <2>2 DEF End
  <2>3. CASE r \in regions
    BY <1>1, <1>2, <2>3 DEF RegionsOutsideGap, TypeOK, IInv, End
  <2> QED BY <1>1, <2>2, <2>3
<1>4. \A r \in regions : End(r) <= addr \/ addr + bytes <= r.lo
  BY <1>1, <1>2, ArenaAssumption
     DEF RegionsOutsideGap, TypeOK, IInv, End
<1>5. NoOverlap'
  BY <1>1, <1>2, <1>4, ArenaAssumption
     DEF NoOverlap, RemainingIsGap, TypeOK, IInv, End
<1>6. AlignedResults'
  BY <1>1 DEF AlignedResults, IInv
<1> QED BY <1>3, <1>5, <1>6 DEF IInv

LEMMA FallbackPreserves == IInv /\ AllocateFallback => IInv'
BY DEF IInv, AllocateFallback, ptrs, TypeOK, RemainingIsGap,
       RegionsOutsideGap, NoOverlap, AlignedResults, End

LEMMA AllocatePreserves ==
  ASSUME IInv, NEW bytes \in Requests, Allocate(bytes)
  PROVE  IInv'
<1>1. bytes \in Nat \ {0}
  BY ArenaAssumption
<1>2. CASE /\ bytes <= alloc_bytes_remaining_
           /\ unaligned_alloc_ptr_' = unaligned_alloc_ptr_ - bytes
           /\ alloc_bytes_remaining_' = alloc_bytes_remaining_ - bytes
           /\ UNCHANGED aligned_alloc_ptr_
           /\ Return(unaligned_alloc_ptr_', bytes, FALSE)
  <2>1. unaligned_alloc_ptr_' \in Nat
    BY <1>1, <1>2 DEF IInv, TypeOK, RemainingIsGap
  <2>2. TypeOK'
    <3>1. /\ exited' \in BOOLEAN
          /\ allocs' \in Nat
          /\ regions' \subseteq Region
      BY <1>1, <1>2, <2>1, ReturnType
    <3>2. /\ aligned_alloc_ptr_' \in Nat
          /\ alloc_bytes_remaining_' \in Nat
      BY <1>1, <1>2 DEF IInv, TypeOK
    <3> QED BY <2>1, <3>1, <3>2 DEF TypeOK
  <2>3. RemainingIsGap'
    BY <1>1, <1>2, ArenaAssumption DEF IInv, TypeOK, RemainingIsGap
  <2>4. /\ aligned_alloc_ptr_ <= unaligned_alloc_ptr_'
        /\ unaligned_alloc_ptr_' + bytes <= unaligned_alloc_ptr_
    BY <1>1, <1>2 DEF IInv, TypeOK, RemainingIsGap
  <2>5. /\ aligned_alloc_ptr_ <= aligned_alloc_ptr_'
        /\ unaligned_alloc_ptr_' <= unaligned_alloc_ptr_
        /\ unaligned_alloc_ptr_' <= unaligned_alloc_ptr_'
    BY <1>1, <1>2, <2>1 DEF IInv, TypeOK
  <2> QED BY <1>1, <1>2, <2>1, <2>2, <2>3, <2>4, <2>5, CarvePreserves
<1>3. CASE bytes > alloc_bytes_remaining_ /\ AllocateFallback
  BY <1>3, FallbackPreserves
<1> QED BY <1>2, <1>3 DEF Allocate

LEMMA AllocateAlignedPreserves ==
  ASSUME IInv, NEW bytes \in Requests, AllocateAligned(bytes)
  PROVE  IInv'
<1> DEFINE slop   == Slop(aligned_alloc_ptr_)
           needed == Plus(bytes, slop)
<1>1. bytes \in Nat \ {0}
  BY ArenaAssumption
<1>2. /\ slop \in Nat
      /\ (aligned_alloc_ptr_ + slop) % kAlignUnit = 0
      /\ needed = bytes + slop
  BY SlopFacts, NeededIsSum DEF IInv, TypeOK
<1>3. \/ /\ needed <= alloc_bytes_remaining_
         /\ aligned_alloc_ptr_' = aligned_alloc_ptr_ + needed
         /\ alloc_bytes_remaining_' = alloc_bytes_remaining_ - needed
         /\ UNCHANGED unaligned_alloc_ptr_
         /\ Return(aligned_alloc_ptr_ + slop, bytes, TRUE)
      \/ AllocateFallback
  BY DEF AllocateAligned
<1> HIDE DEF slop, needed
<1>4. CASE /\ needed <= alloc_bytes_remaining_
           /\ aligned_alloc_ptr_' = aligned_alloc_ptr_ + needed
           /\ alloc_bytes_remaining_' = alloc_bytes_remaining_ - needed
           /\ UNCHANGED unaligned_alloc_ptr_
           /\ Return(aligned_alloc_ptr_ + slop, bytes, TRUE)
  <2> DEFINE addr == aligned_alloc_ptr_ + slop
  <2>1. addr \in Nat
    BY <1>2 DEF IInv, TypeOK
  <2>2. TypeOK'
    <3>1. /\ exited' \in BOOLEAN
          /\ allocs' \in Nat
          /\ regions' \subseteq Region
      BY <1>1, <1>4, <2>1, ReturnType
    <3>2. /\ aligned_alloc_ptr_' \in Nat
          /\ unaligned_alloc_ptr_' \in Nat
          /\ alloc_bytes_remaining_' \in Nat
      BY <1>1, <1>2, <1>4 DEF IInv, TypeOK
    <3> QED BY <3>1, <3>2 DEF TypeOK
  <2>3. RemainingIsGap'
    BY <1>1, <1>2, <1>4, ArenaAssumption DEF IInv, TypeOK, RemainingIsGap
  <2>4. /\ aligned_alloc_ptr_ <= addr
        /\ addr + bytes <= unaligned_alloc_ptr_
        /\ addr + bytes <= aligned_alloc_ptr_'
        /\ aligned_alloc_ptr_ <= aligned_alloc_ptr_'
        /\ unaligned_alloc_ptr_' <= unaligned_alloc_ptr_
    BY <1>1, <1>2, <1>4 DEF IInv, TypeOK, RemainingIsGap
  <2>5. addr % kAlignUnit = 0 /\ Return(addr, bytes, TRUE)
    BY <1>2, <1>4
  <2> HIDE DEF addr
  <2> QED BY <1>1, <2>1, <2>2, <2>3, <2>4, <2>5, CarvePreserves
<1>5. CASE AllocateFallback
  BY <1>5, FallbackPreserves
<1> QED BY <1>3, <1>4, <1>5

(* The inductive invariant of NVMArena: the accounting is the gap, every   *)
(* region is on one side of it, and regions are disjoint and aligned.      *)
THEOREM ArenaInvariant == Spec => []IInv
<1>1. IInv /\ [Next]_vars => IInv'
  <2> SUFFICES ASSUME IInv, [Next]_vars PROVE IInv'
    OBVIOUS
  <2>1. CASE Next
    BY <2>1, AllocatePreserves, AllocateAlignedPreserves DEF Next
  <2>2. CASE UNCHANGED vars
    BY <2>2 DEF IInv, vars, ptrs, TypeOK, RemainingIsGap,
                RegionsOutsideGap, NoOverlap, AlignedResults, End
  <2> QED BY <2>1, <2>2
<1> QED BY InitIInv, <1>1, PTL DEF Spec

(* Memory handed out by Allocate and AllocateAligned (nvm_arena.cc:64-103) *)
(* never overlaps and stays in the block.                                  *)
THEOREM NeverOverlaps == Spec => []NoOverlap
<1>1. IInv => NoOverlap
  BY DEF IInv
<1> QED BY ArenaInvariant, <1>1, PTL

(* The assertion of nvm_arena.cc:101 never fails.                          *)
THEOREM AlwaysAligned == Spec => []AlignedResults
<1>1. IInv => AlignedResults
  BY DEF IInv
<1> QED BY ArenaInvariant, <1>1, PTL

(* The two pointers and the count of the remaining bytes never go below 0, *)
(* although both fast paths subtract from them (nvm_arena.cc:64-103).      *)
THEOREM ArenaTypeCorrect == Spec => []TypeOK
<1>1. IInv => TypeOK
  BY DEF IInv
<1> QED BY ArenaInvariant, <1>1, PTL

-----------------------------------------------------------------------------
(* Sums.                                                                   *)

(* A set of numbers has a least one: the induction over sums. *)
LEMMA LeastNumber ==
  ASSUME NEW T, T \subseteq Nat, T # {}
  PROVE  \E x \in T : \A y \in T : ~(y < x)
<1>1. IsWellFoundedOn(OpToRel(<, Nat), Nat)
  BY NatLessThanWellFounded, Zenon
<1>2. PICK x \in T : \A y \in T : ~(<<y, x>> \in OpToRel(<, Nat))
  BY <1>1, WFMin, Zenon
<1>3. ASSUME NEW y \in T, y < x PROVE FALSE
  <2>1. y \in Nat /\ x \in Nat
    OBVIOUS
  <2>2. <<y, x>> \in OpToRel(<, Nat)
    BY <1>3, <2>1 DEF OpToRel
  <2> QED BY <1>2, <2>2, Zenon
<1> QED BY <1>3

(* f adds up b. *)
Sums(f, N, b) == f = [n \in 0..N |-> IF n = 0 THEN 0 ELSE f[n - 1] + b[n - 1]]

LEMMA SumIs ==
  ASSUME NEW f, NEW N \in Nat, NEW b
  PROVE  Sums(f, N, b) <=> /\ f = [n \in 0..N |-> f[n]] /\ f[0] = 0
                           /\ \A n \in 1..N : f[n] = f[n - 1] + b[n - 1]
<1>1. ASSUME Sums(f, N, b)
      PROVE  /\ f = [n \in 0..N |-> f[n]] /\ f[0] = 0
             /\ \A n \in 1..N : f[n] = f[n - 1] + b[n - 1]
  <2>1. DOMAIN f = 0..N /\ f = [n \in DOMAIN f |-> f[n]]
    BY <1>1, Zenon DEF Sums
  <2>2. ASSUME NEW n \in 0..N PROVE f[n] = IF n = 0 THEN 0 ELSE f[n - 1] + b[n - 1]
    BY <1>1, Zenon DEF Sums
  <2>3. 0 \in 0..N /\ \A n \in 1..N : n \in 0..N /\ n # 0
    OBVIOUS
  <2> QED BY <2>1, <2>2, <2>3
<1>2. ASSUME f = [n \in 0..N |-> f[n]], f[0] = 0, \A n \in 1..N : f[n] = f[n - 1] + b[n - 1]
      PROVE  Sums(f, N, b)
  <2>1. ASSUME NEW n \in 0..N PROVE f[n] = IF n = 0 THEN 0 ELSE f[n - 1] + b[n - 1]
    <3>1. n = 0 \/ n \in 1..N
      OBVIOUS
    <3> QED BY <1>2, <3>1
  <2> QED BY <1>2, <2>1 DEF Sums
<1> QED BY <1>1, <1>2

LEMMA SumSteps ==
  ASSUME NEW f, NEW N \in Nat, NEW b, Sums(f, N, b)
  PROVE  f[0] = 0 /\ \A n \in 1..N : f[n] = f[n - 1] + b[n - 1]
<1>1. /\ f = [n \in 0..N |-> f[n]] /\ f[0] = 0
      /\ \A n \in 1..N : f[n] = f[n - 1] + b[n - 1]
  BY SumIs
<1> QED BY <1>1

LEMMA SumExists ==
  ASSUME NEW N \in Nat, NEW b
  PROVE  \E f : Sums(f, N, b)
<1> DEFINE T == {n \in Nat : ~ \E f : Sums(f, n, b)}
<1>1. ASSUME T # {} PROVE FALSE
  <2>1. PICK x \in T : \A y \in T : ~(y < x)
    BY <1>1, LeastNumber
  <2>2. x \in Nat /\ ~ \E f : Sums(f, x, b)
    OBVIOUS
  <2>3. CASE x = 0
    <3> DEFINE g == [n \in 0..0 |-> 0]
    <3>1. Sums(g, 0, b)
      BY DEF Sums
    <3> QED BY <2>2, <2>3, <3>1
  <2>4. CASE x # 0
    <3>1. x - 1 \in Nat /\ x - 1 < x
      BY <2>2, <2>4
    <3>2. PICK f : Sums(f, x - 1, b)
      BY <2>1, <3>1
    <3> DEFINE g == [n \in 0..x |-> IF n = x THEN f[x - 1] + b[x - 1] ELSE f[n]]
    <3>3. f[0] = 0 /\ \A n \in 1..(x - 1) : f[n] = f[n - 1] + b[n - 1]
      BY <3>1, <3>2, SumSteps
    <3>4. g = [n \in 0..x |-> g[n]] /\ g[0] = 0
      BY <2>2, <2>4, <3>3
    <3>5. ASSUME NEW n \in 1..x PROVE g[n] = g[n - 1] + b[n - 1]
      <4>1. g[n - 1] = f[n - 1]
        BY <2>2
      <4>2. CASE n = x
        BY <2>2, <4>1, <4>2
      <4>3. CASE n # x
        <5>1. n \in 1..(x - 1) /\ g[n] = f[n]
          BY <2>2, <4>3
        <5> QED BY <3>3, <4>1, <5>1
      <4> QED BY <4>2, <4>3
    <3> HIDE DEF g
    <3>6. Sums(g, x, b)
      BY <2>2, <3>4, <3>5, SumIs
    <3> QED BY <2>2, <3>6
  <2> QED BY <2>3, <2>4
<1> QED BY <1>1

(* Two sums of the same numbers agree as far as both go. *)
LEMMA SumsAgree ==
  ASSUME NEW f, NEW g, NEW N \in Nat, NEW M \in Nat, N <= M, NEW b, NEW c,
         Sums(f, N, b), Sums(g, M, c), \A n \in 0..(N - 1) : b[n] = c[n]
  PROVE  \A n \in 0..N : f[n] = g[n]
<1> DEFINE T == {n \in 0..N : f[n] # g[n]}
<1>1. /\ f[0] = 0 /\ \A n \in 1..N : f[n] = f[n - 1] + b[n - 1]
      /\ g[0] = 0 /\ \A n \in 1..M : g[n] = g[n - 1] + c[n - 1]
  <2>1. f[0] = 0 /\ \A n \in 1..N : f[n] = f[n - 1] + b[n - 1]
    BY SumSteps
  <2>2. g[0] = 0 /\ \A n \in 1..M : g[n] = g[n - 1] + c[n - 1]
    BY SumSteps
  <2> QED BY <2>1, <2>2
<1>2. ASSUME T # {} PROVE FALSE
  <2> T \subseteq Nat
    OBVIOUS
  <2>1. PICK x \in T : \A y \in T : ~(y < x)
    BY <1>2, LeastNumber, Zenon
  <2>2. x \in 0..N /\ f[x] # g[x]
    OBVIOUS
  <2>3. x \in 1..N /\ x \in 1..M /\ x - 1 \in 0..N /\ x - 1 \in 0..(N - 1) /\ x - 1 < x
    BY <1>1, <2>2
  <2>4. f[x - 1] = g[x - 1]
    BY <2>1, <2>3
  <2> QED BY <1>1, <2>2, <2>3, <2>4
<1> QED BY <1>2

-----------------------------------------------------------------------------
(* What was handed out.                                                    *)

Bytes == [n \in Nat |-> (CHOOSE r \in regions : r.id = n).bytes]
HandedWhole == Sums(HandedOutBy, allocs, Bytes)

LEMMA HandedIs == allocs \in Nat => HandedWhole
<1> SUFFICES ASSUME allocs \in Nat PROVE HandedWhole
  OBVIOUS
<1> DEFINE S(f) == f = [n \in 0..allocs |-> IF n = 0 THEN 0
                         ELSE f[n - 1] + (CHOOSE r \in regions : r.id = n - 1).bytes]
<1>1. \A f : S(f) <=> Sums(f, allocs, Bytes)
  <2>1. \A n \in 0..allocs : n # 0 => Bytes[n - 1] = (CHOOSE r \in regions : r.id = n - 1).bytes
    BY DEF Bytes
  <2> QED BY <2>1 DEF Sums
<1>2. \E f : S(f)
  BY <1>1, SumExists
<1>3. HandedOutBy = CHOOSE f : S(f)
  BY DEF HandedOutBy
<1> HIDE DEF S
<1>4. S(HandedOutBy)
  BY <1>2, <1>3
<1> QED BY <1>1, <1>4 DEF HandedWhole

LEMMA HandedNext == (allocs \in Nat)' => HandedWhole'
BY HandedIs, PTL

(* Regions are numbered in the order of the calls. *)
Numbered ==
  /\ \A r \in regions : r.id \in 0..(allocs - 1)
  /\ \A r, s \in regions : r.id = s.id => r = s
  /\ \A n \in 0..(allocs - 1) : \E r \in regions : r.id = n
  /\ IsFiniteSet(regions)

UInv == Numbered /\ HandedOut \in Nat /\ UsageIsTight

LEMMA InitUInv == Init => UInv
<1> SUFFICES ASSUME Init PROVE UInv
  OBVIOUS
<1>1. allocs = 0 /\ regions = {} /\ alloc_bytes_remaining_ = block_sz
  BY DEF Init
<1>2. Numbered
  BY <1>1, FS_EmptySet DEF Numbered
<1>3. HandedOut = 0
  <2>1. Sums(HandedOutBy, 0, Bytes)
    BY <1>1, HandedIs DEF HandedWhole
  <2>2. HandedOutBy[0] = 0
    BY <2>1, SumIs, Zenon
  <2> QED BY <1>1, <2>2 DEF HandedOut
<1>4. UsageIsTight
  <2>1. {r \in regions : r.aligned} = {} /\ Cardinality({}) = 0
    BY <1>1, FS_EmptySet
  <2>2. Cardinality({r \in regions : r.aligned}) = 0
    BY <2>1
  <2>3. ApproximateMemoryUsage = 0 /\ (kAlignUnit - 1) * 0 = 0
    BY <1>1, ArenaAssumption DEF ApproximateMemoryUsage
  <2> QED BY <1>3, <2>2, <2>3 DEF UsageIsTight
<1> QED BY <1>2, <1>3, <1>4 DEF UInv

(* What a call that returns adds. *)
LEMMA ReturnAdds ==
  ASSUME IInv, UInv, NEW bytes \in Nat, NEW addr \in Nat, NEW isAligned \in BOOLEAN,
         Return(addr, bytes, isAligned)
  PROVE  /\ Numbered' /\ HandedOut' = HandedOut + bytes
         /\ LET c == Cardinality({r \in regions : r.aligned})
            IN  /\ c \in Nat
                /\ Cardinality({r \in regions : r.aligned})' = IF isAligned THEN c + 1 ELSE c
<1> DEFINE new == [id |-> allocs, lo |-> addr, bytes |-> bytes, aligned |-> isAligned]
           A == {r \in regions : r.aligned}
<1>1. /\ allocs \in Nat /\ allocs' = allocs + 1 /\ regions' = regions \cup {new}
      /\ new.id = allocs /\ new.bytes = bytes /\ new.aligned = isAligned
  BY DEF Return, IInv, TypeOK
<1> HIDE DEF new
<1>2. /\ \A r \in regions : r.id \in 0..(allocs - 1)
      /\ \A r, s \in regions : r.id = s.id => r = s
      /\ \A n \in 0..(allocs - 1) : \E r \in regions : r.id = n
      /\ IsFiniteSet(regions)
  BY DEF UInv, Numbered
<1>3. new \notin regions
  BY <1>1, <1>2
<1>4. Numbered'
  <2>1. IsFiniteSet(regions')
    BY <1>1, <1>2, FS_AddElement
  <2>2. \A r \in regions' : r.id \in 0..(allocs' - 1)
    BY <1>1, <1>2
  <2>3. \A r, s \in regions' : r.id = s.id => r = s
    BY <1>1, <1>2
  <2>4. \A n \in 0..(allocs' - 1) : \E r \in regions' : r.id = n
    <3>1. \A n \in 0..(allocs' - 1) : n \in 0..(allocs - 1) \/ n = allocs
      BY <1>1
    <3> QED BY <1>1, <1>2, <3>1
  <2> QED BY <2>1, <2>2, <2>3, <2>4 DEF Numbered
<1>5. \A n \in 0..(allocs - 1) : Bytes[n] = Bytes'[n]
  <2> SUFFICES ASSUME NEW n \in 0..(allocs - 1) PROVE Bytes[n] = Bytes'[n]
    OBVIOUS
  <2>1. PICK x \in regions : x.id = n
    BY <1>2
  <2>2. \A r \in regions : r.id = n => r = x
    BY <1>2, <2>1
  <2>3. \A r \in regions' : r.id = n => r = x
    BY <1>1, <2>2
  <2>4. (CHOOSE r \in regions : r.id = n) = x
    BY <2>1, <2>2
  <2>5. (CHOOSE r \in regions' : r.id = n) = x
    BY <1>1, <2>1, <2>3
  <2>6. n \in Nat
    BY <1>1
  <2>7. Bytes[n] = (CHOOSE r \in regions : r.id = n).bytes
    BY <2>6, Zenon DEF Bytes
  <2>8. Bytes'[n] = (CHOOSE r \in regions' : r.id = n).bytes
    BY <2>6, Zenon DEF Bytes
  <2> QED BY <2>4, <2>5, <2>7, <2>8
<1>6. Bytes'[allocs] = bytes
  <2>1. \A r \in regions' : r.id = allocs => r = new
    BY <1>1, <1>2
  <2>2. (CHOOSE r \in regions' : r.id = allocs) = new
    BY <1>1, <2>1
  <2> QED BY <1>1, <2>2 DEF Bytes
<1>7. HandedOut' = HandedOut + bytes
  <2> DEFINE N == allocs
             M == allocs'
             f == HandedOutBy
             g == HandedOutBy'
             b == Bytes
             c == Bytes'
  <2>1. Sums(f, N, b) /\ Sums(g, M, c)
    BY <1>1, HandedIs, HandedNext DEF HandedWhole
  <2>2. HandedOut = f[N] /\ HandedOut' = g[M]
    BY DEF HandedOut
  <2>3. N \in Nat /\ M \in Nat /\ N <= M /\ M = N + 1 /\ c[N] = bytes
        /\ \A n \in 0..(N - 1) : b[n] = c[n]
    BY <1>1, <1>5, <1>6
  <2> HIDE DEF N, M, f, g, b, c
  <2>4. \A n \in 0..N : f[n] = g[n]
    BY <2>1, <2>3, SumsAgree
  <2>5. \A n \in 1..M : g[n] = g[n - 1] + c[n - 1]
    BY <2>1, <2>3, SumSteps
  <2>6. M \in 1..M /\ M - 1 = N /\ N \in 0..N
    BY <2>3
  <2> QED BY <2>2, <2>3, <2>4, <2>5, <2>6
<1>8. /\ Cardinality(A) \in Nat
      /\ Cardinality(A') = IF isAligned THEN Cardinality(A) + 1 ELSE Cardinality(A)
  <2>1. IsFiniteSet(A)
    BY <1>2, FS_Subset
  <2>2. Cardinality(A) \in Nat
    BY <2>1, FS_CardinalityType
  <2>3. CASE isAligned = TRUE
    <3>1. A' = A \cup {new} /\ new \notin A
      BY <1>1, <1>3, <2>3
    <3> HIDE DEF A
    <3> QED BY <2>1, <2>2, <2>3, <3>1, FS_AddElement
  <2>4. CASE isAligned = FALSE
    <3>1. A' = A
      BY <1>1, <2>4
    <3> QED BY <2>2, <2>4, <3>1
  <2> QED BY <2>3, <2>4
<1> QED BY <1>4, <1>7, <1>8

(* A call that takes its bytes and less than one unit of slop, if it is an *)
(* aligned one, keeps the usage tight.                                     *)
LEMMA UsageStep ==
  ASSUME IInv, UInv, NEW bytes \in Nat, NEW addr \in Nat, NEW isAligned \in BOOLEAN,
         NEW slop \in Nat, slop < kAlignUnit, isAligned = FALSE => slop = 0,
         alloc_bytes_remaining_' = alloc_bytes_remaining_ - (bytes + slop),
         Return(addr, bytes, isAligned)
  PROVE  UInv'
<1> DEFINE c == Cardinality({r \in regions : r.aligned})
           d == Cardinality({r \in regions' : r.aligned})
           k == kAlignUnit - 1
           u == ApproximateMemoryUsage
           v == ApproximateMemoryUsage'
           x == HandedOut
           y == HandedOut'
<1>1. /\ Numbered' /\ y = x + bytes /\ c \in Nat /\ d = IF isAligned THEN c + 1 ELSE c
  BY ReturnAdds
<1>2. x \in Nat /\ x <= u /\ u <= x + k * c
  BY DEF UInv, UsageIsTight
<1>3. u \in Int /\ v = u + bytes + slop /\ k \in Nat /\ slop <= k
  BY ArenaAssumption DEF IInv, TypeOK, ApproximateMemoryUsage
<1>4. UsageIsTight' <=> (y <= v /\ v <= y + k * d)
  BY DEF UsageIsTight
<1>5. HandedOut' \in Nat
  BY <1>1, <1>2
<1> HIDE DEF c, d, k, u, v, x, y
<1>6. y <= v /\ v <= y + k * d
  <2>1. k * c \in Nat
    BY <1>1, <1>3
  <2>2. CASE isAligned = TRUE
    <3>1. k * d = k * c + k
      BY <1>1, <1>3, <2>2
    <3> QED BY <1>1, <1>2, <1>3, <2>1, <3>1
  <2>3. CASE isAligned = FALSE
    BY <1>1, <1>2, <1>3, <2>1, <2>3
  <2> QED BY <2>2, <2>3
<1> QED BY <1>1, <1>4, <1>5, <1>6 DEF UInv

LEMMA SameUsage ==
  ASSUME UInv, UNCHANGED <<allocs, regions, alloc_bytes_remaining_>>
  PROVE  UInv'
<1>1. Numbered' /\ HandedOut' = HandedOut
  BY DEF UInv, Numbered, HandedOut, HandedOutBy
<1> QED BY <1>1 DEF UInv, UsageIsTight, ApproximateMemoryUsage

LEMMA NextUInv ==
  ASSUME IInv, UInv, [Next]_vars
  PROVE  UInv'
<1>1. CASE UNCHANGED vars
  BY <1>1, SameUsage DEF vars, ptrs
<1>2. ASSUME NEW bytes \in Requests, Allocate(bytes) PROVE UInv'
  <2>1. bytes \in Nat /\ 0 \in Nat /\ 0 < kAlignUnit
    BY ArenaAssumption
  <2>2. CASE AllocateFallback
    BY <2>2, SameUsage DEF AllocateFallback, ptrs
  <2>3. CASE /\ bytes <= alloc_bytes_remaining_
             /\ unaligned_alloc_ptr_' = unaligned_alloc_ptr_ - bytes
             /\ alloc_bytes_remaining_' = alloc_bytes_remaining_ - bytes
             /\ Return(unaligned_alloc_ptr_', bytes, FALSE)
    <3>1. unaligned_alloc_ptr_' \in Nat
      BY <2>1, <2>3 DEF IInv, TypeOK, RemainingIsGap
    <3>2. alloc_bytes_remaining_' = alloc_bytes_remaining_ - (bytes + 0)
      BY <2>1, <2>3
    <3> QED BY <2>1, <2>3, <3>1, <3>2, UsageStep
  <2> QED BY <1>2, <2>2, <2>3 DEF Allocate
<1>3. ASSUME NEW bytes \in Requests, AllocateAligned(bytes) PROVE UInv'
  <2> DEFINE slop == Slop(aligned_alloc_ptr_)
             needed == Plus(bytes, slop)
  <2>1. /\ bytes \in Nat /\ slop \in Nat /\ slop < kAlignUnit /\ needed = bytes + slop
        /\ aligned_alloc_ptr_ + slop \in Nat
    <3>1. aligned_alloc_ptr_ \in Nat /\ bytes \in Nat
      BY ArenaAssumption DEF IInv, TypeOK
    <3>2. slop \in Nat /\ slop < kAlignUnit /\ needed = bytes + slop
      BY <3>1, SlopFacts, NeededIsSum
    <3> QED BY <3>1, <3>2
  <2>2. \/ /\ alloc_bytes_remaining_' = alloc_bytes_remaining_ - needed
           /\ Return(aligned_alloc_ptr_ + slop, bytes, TRUE)
        \/ AllocateFallback
    BY <1>3 DEF AllocateAligned
  <2> HIDE DEF slop, needed
  <2>3. CASE AllocateFallback
    BY <2>3, SameUsage DEF AllocateFallback, ptrs
  <2>4. CASE /\ alloc_bytes_remaining_' = alloc_bytes_remaining_ - needed
             /\ Return(aligned_alloc_ptr_ + slop, bytes, TRUE)
    <3>1. alloc_bytes_remaining_' = alloc_bytes_remaining_ - (bytes + slop)
      BY <2>1, <2>4
    <3> QED BY <2>1, <2>4, <3>1, UsageStep
  <2> QED BY <2>2, <2>3, <2>4
<1> QED BY <1>1, <1>2, <1>3 DEF Next

(* What ApproximateMemoryUsage reports (nvm_arena.h:40) is what was handed *)
(* out and, for each aligned call, less than one alignment unit of slop    *)
(* (nvm_arena.cc:87).                                                      *)
THEOREM UsageStaysTight == Spec => []UsageIsTight
<1>1. IInv /\ UInv /\ [Next]_vars => UInv'
  BY NextUInv
<1>2. UInv => UsageIsTight
  BY DEF UInv
<1> QED BY InitUInv, ArenaInvariant, <1>1, <1>2, PTL DEF Spec

=============================================================================
