------------------------ MODULE PersistentPtrProofs -------------------------
(***************************************************************************)
(* DenotesTarget and ComparesLikeIndexes for every word size, type size,   *)
(* array, pool and set of addresses that the assumptions admit.            *)
(*                                                                         *)
(* The invariant: a variable holds exactly the PMEMoid that its target     *)
(* has, whichever operations led there, and the thread's cache answers for *)
(* the pool only with the address at which it is mapped now.               *)
(***************************************************************************)
EXTENDS PersistentPtr, TLAPS

OffsetOf(e) == ArrayOff + e * Size
Element(e) == [pool_uuid_lo |-> Uuid, off |-> OffsetOf(e)]
OfStack == [pool_uuid_lo |-> VolatileUuid, off |-> Stack]

(* The one PMEMoid of a target. *)
Canon(e) == IF e \in Elements THEN Element(e)
            ELSE IF e = Nothing THEN OID_NULL ELSE OfStack

Represents == \A p \in Ptrs : oid[p] = Canon(target[p])

Caches == [pop : Bases \union {0}, uuid_lo : {0, Uuid}, invalidate : 0..MaxCloses]
EnvType == env \in [base : Bases \union {0}, cache : Caches, invalidate : 0..MaxCloses]

(* An entry that counts as many closed pools as there are is of the pool   *)
(* that is open now.                                                       *)
CacheFits ==
  /\ env.cache.invalidate <= env.invalidate
  /\ (env.cache.invalidate = env.invalidate /\ env.cache.uuid_lo = Uuid)
       => (env.cache.pop = env.base /\ env.base # 0)

TargetType == oid \in [Ptrs -> PMEMoid] /\ target \in [Ptrs -> Targets]

IInv ==
  /\ Bases # {} /\ EnvType /\ TargetType /\ CacheFits /\ Represents
  /\ env.base = 0 => StackForgotten

-----------------------------------------------------------------------------
(* Arithmetic.                                                             *)

LEMMA ModSmall == ASSUME NEW w \in Nat \ {0}, NEW x \in 0..(w - 1) PROVE x % w = x
OBVIOUS

LEMMA ModNegative ==
  ASSUME NEW w \in Nat \ {0}, NEW x \in (-w)..(-1) PROVE x % w = x + w
OBVIOUS

LEMMA ModInRange == ASSUME NEW w \in Nat \ {0}, NEW x \in Int PROVE x % w \in 0..(w - 1)
OBVIOUS

LEMMA ProductGrows ==
  ASSUME NEW s \in Nat \ {0}, NEW a \in Int, NEW b \in Int, a < b
  PROVE  a * s \in Int /\ b * s \in Int /\ a * s + s <= b * s
OBVIOUS

LEMMA ProductDistributes ==
  ASSUME NEW s \in Int, NEW a \in Int, NEW b \in Int
  PROVE  (a + b) * s = a * s + b * s /\ (a - b) * s = a * s - b * s
OBVIOUS

LEMMA ExactDivision == ASSUME NEW s \in Nat \ {0}, NEW k \in Int PROVE (k * s) \div s = k
OBVIOUS

(* The assumptions, as the proofs below use them. *)
LEMMA Sizes ==
  /\ Word \in Nat /\ Word >= 3 /\ Uuid \in uint64 /\ Uuid \notin {0, VolatileUuid}
  /\ VolatileUuid \in uint64 /\ VolatileUuid # 0
  /\ Size \in Nat \ {0} /\ Size < Word /\ Count \in Nat /\ ArrayOff \in Nat /\ ArrayOff > 0
  /\ BaseOff \in Nat /\ BaseOff < Size /\ PoolSize \in Nat /\ MaxCloses \in Nat
  /\ Stack \in uint64 /\ Stack # 0 /\ Stack + Size <= Word
  /\ 0 \notin Bases /\ Bases \subseteq uint64
  /\ \A b \in Bases : b + PoolSize <= Word
BY OidAssumption, PtrAssumption DEF uint64, VolatileUuid

(* Objects of the array lie in the pool, one after the other. *)
LEMMA OffsetBounds ==
  ASSUME NEW e \in Elements
  PROVE  /\ e * Size \in Int /\ OffsetOf(e) \in Nat /\ OffsetOf(e) > 0
         /\ OffsetOf(e) + Size <= PoolSize
<1>1. e \in Nat /\ e < Count + 1
  BY Sizes DEF Elements
<1>2. e * Size \in Int /\ e * Size + Size <= (Count + 1) * Size
  BY <1>1, Sizes, ProductGrows
<1>3. 0 <= e * Size
  <2>1. CASE e = 0
    BY <2>1, Sizes
  <2>2. CASE 0 < e
    BY <2>2, <1>1, Sizes, ProductGrows
  <2> QED BY <1>1, <2>1, <2>2
<1>4. ArrayOff + (Count + 1) * Size <= PoolSize /\ (Count + 1) * Size \in Int
  BY PtrAssumption, Sizes
<1> QED BY <1>1, <1>2, <1>3, <1>4, Sizes DEF OffsetOf

(* With a pool that can be mapped, offsets are words. *)
LEMMA OffsetIsWord ==
  ASSUME Bases # {}, NEW e \in Elements
  PROVE  OffsetOf(e) \in uint64 /\ OffsetOf(e) + BaseOff \in uint64 /\ PoolSize < Word
<1>1. PICK b \in Bases : b \in uint64 /\ b # 0 /\ b + PoolSize <= Word
  BY Sizes
<1> QED BY <1>1, OffsetBounds, Sizes DEF uint64

LEMMA OffsetOrder ==
  ASSUME NEW e \in Elements, NEW f \in Elements
  PROVE  (e < f <=> OffsetOf(e) < OffsetOf(f)) /\ (e = f <=> OffsetOf(e) = OffsetOf(f))
<1>1. e \in Int /\ f \in Int /\ e * Size \in Int /\ f * Size \in Int
  BY OffsetBounds DEF Elements
<1>2. e < f => e * Size + Size <= f * Size
  BY <1>1, ProductGrows, Sizes
<1>3. f < e => f * Size + Size <= e * Size
  BY <1>1, ProductGrows, Sizes
<1> QED BY <1>1, <1>2, <1>3, Sizes DEF OffsetOf

(* Adding and subtracting a distance, with the words wrapping around. *)
LEMMA OffsetMoves ==
  ASSUME Bases # {}, NEW e \in Elements, NEW s \in Int
  PROVE  /\ e + s \in Elements => (OffsetOf(e) + s * Size) % Word = OffsetOf(e + s)
         /\ e - s \in Elements => (OffsetOf(e) - s * Size) % Word = OffsetOf(e - s)
<1>1. e \in Int /\ e * Size \in Int /\ s * Size \in Int
  BY Sizes DEF Elements
<1>2. (e + s) * Size = e * Size + s * Size /\ (e - s) * Size = e * Size - s * Size
  BY <1>1, Sizes, ProductDistributes
<1>3. ASSUME e + s \in Elements PROVE (OffsetOf(e) + s * Size) % Word = OffsetOf(e + s)
  <2>1. OffsetOf(e) + s * Size = OffsetOf(e + s)
    BY <1>1, <1>2, Sizes DEF OffsetOf
  <2> QED BY <1>3, <2>1, OffsetIsWord, ModSmall, Sizes DEF uint64
<1>4. ASSUME e - s \in Elements PROVE (OffsetOf(e) - s * Size) % Word = OffsetOf(e - s)
  <2>1. OffsetOf(e) - s * Size = OffsetOf(e - s)
    BY <1>1, <1>2, Sizes DEF OffsetOf
  <2> QED BY <1>4, <2>1, OffsetIsWord, ModSmall, Sizes DEF uint64
<1> QED BY <1>3, <1>4

-----------------------------------------------------------------------------
(* The operators of persistent_ptr on the PMEMoids of targets.             *)

LEMMA CanonType == ASSUME Bases # {}, NEW e \in Targets PROVE Canon(e) \in PMEMoid
BY OffsetIsWord, Sizes DEF Canon, Element, OID_NULL, OfStack, PMEMoid, uint64

(* operator+, -, += and -= lead from element to element. *)
LEMMA Arithmetic ==
  ASSUME Bases # {}, NEW e \in Elements, NEW s \in Int
  PROVE  /\ e + s \in Elements => Plus(Canon(e), s, Size) = Canon(e + s)
         /\ e + s \in Elements => PlusAssign(Canon(e), s, Size) = Canon(e + s)
         /\ e - s \in Elements => Minus(Canon(e), s, Size) = Canon(e - s)
         /\ e - s \in Elements => MinusAssign(Canon(e), s, Size) = Canon(e - s)
BY OffsetMoves DEF Canon, Element, Plus, PlusAssign, Minus, MinusAssign

(* Where the pool is mapped. *)
LEMMA BaseAddress ==
  ASSUME EnvType
  PROVE  /\ env.base \in Nat /\ env.base \in Bases \union {0}
         /\ env.base # 0 => /\ env.base \in Bases /\ env.base > 0
                            /\ env.base + PoolSize <= Word
<1>1. env.base \in Bases \union {0}
  BY DEF EnvType
<1>2. \A b \in Bases : b \in Nat /\ b > 0
  BY PtrAssumption, Sizes
<1> QED BY <1>1, <1>2, Sizes

(* What pmemobj_oid makes of the address of an element, of the address on  *)
(* the stack and of null.                                                  *)
LEMMA OidOfAddress ==
  ASSUME EnvType, env.base # 0
  PROVE  /\ \A e \in Elements : pmemobj_oid(AddressOf(e), env.base, PoolSize) = Canon(e)
         /\ pmemobj_oid(Stack, env.base, PoolSize) = OID_NULL
         /\ pmemobj_oid(0, env.base, PoolSize) = OID_NULL
<1>1. env.base \in Bases /\ env.base \in Nat /\ env.base > 0
  BY BaseAddress, Sizes DEF uint64
<1>2. ASSUME NEW e \in Elements
      PROVE  pmemobj_oid(AddressOf(e), env.base, PoolSize) = Canon(e)
  <2>1. AddressOf(e) = env.base + OffsetOf(e)
    BY <1>1, OffsetBounds, Sizes DEF AddressOf, OffsetOf
  <2>2. env.base <= AddressOf(e) /\ AddressOf(e) < env.base + PoolSize
        /\ AddressOf(e) - env.base = OffsetOf(e)
    BY <1>1, <2>1, OffsetBounds, Sizes
  <2> QED BY <1>1, <2>2 DEF pmemobj_oid, Canon, Element
<1>3. ~(env.base <= Stack /\ Stack < env.base + PoolSize)
  BY <1>1, PtrAssumption, Sizes
<1> QED BY <1>1, <1>2, <1>3 DEF pmemobj_oid

(* A lookup for the pool's id gives the address where the pool is now. *)
LEMMA LookUpFinds ==
  ASSUME EnvType, CacheFits, NEW o, o.pool_uuid_lo = Uuid
  PROVE  LookUp(o, env).pop = env.base /\ (Hit(o, env) => env.base # 0)
BY DEF EnvType, Caches, CacheFits, LookUp, Hit, pmemobj_pool_by_oid

(* What a lookup leaves in the cache is of this pool. *)
LEMMA LookUpFits ==
  ASSUME EnvType, CacheFits, NEW o, o.pool_uuid_lo = Uuid
  PROVE  /\ LookUp(o, env) \in Caches
         /\ LookUp(o, env).invalidate <= env.invalidate
         /\ (LookUp(o, env).invalidate = env.invalidate /\ LookUp(o, env).uuid_lo = Uuid)
              => (LookUp(o, env).pop = env.base /\ env.base # 0)
<1>1. CASE Hit(o, env)
  BY <1>1 DEF EnvType, CacheFits, LookUp
<1>2. CASE ~Hit(o, env)
  BY <1>2, Sizes DEF EnvType, CacheFits, LookUp, Caches, pmemobj_pool_by_oid
<1> QED BY <1>1, <1>2

(* pmemobj_direct of an offset in the pool. *)
LEMMA DirectOfOffset ==
  ASSUME EnvType, CacheFits, NEW n \in uint64, n # 0, env.base + n < Word,
         NEW o, o.pool_uuid_lo = Uuid, o.off = n
  PROVE  get(o, env) = IF env.base = 0 THEN 0 ELSE env.base + n
<1>1. LooksUp(o)
  BY Sizes DEF LooksUp
<1>2. LookUp(o, env).pop = env.base /\ (Hit(o, env) => env.base # 0)
  BY LookUpFinds
<1>3. env.base \in Nat /\ env.base + n \in 0..(Word - 1)
  BY BaseAddress, Sizes DEF uint64
<1>4. (env.base + n) % Word = env.base + n
  BY <1>3, ModSmall, Sizes
<1> QED BY <1>1, <1>2, <1>4, Sizes DEF get, pmemobj_direct

(* get() of each kind of target, and of a place BaseOff inside of it. *)
LEMMA GetElement ==
  ASSUME Bases # {}, EnvType, CacheFits, NEW e \in Elements
  PROVE  /\ env.base = 0 => get(Canon(e), env) = 0
         /\ env.base # 0 => /\ get(Canon(e), env) = AddressOf(e)
                            /\ get(Canon(e), env) = env.base + OffsetOf(e)
                            /\ get(Upcast(Canon(e), BaseOff), env) = AddressOf(e) + BaseOff
<1>1. env.base \in Nat /\ (env.base # 0 => env.base + PoolSize <= Word)
  BY BaseAddress, Sizes DEF uint64
<1>2. env.base + OffsetOf(e) + BaseOff < Word
  BY <1>1, OffsetBounds, OffsetIsWord, Sizes DEF uint64
<1>3. (OffsetOf(e) + BaseOff) % Word = OffsetOf(e) + BaseOff
  BY OffsetIsWord, ModSmall, Sizes DEF uint64
<1>4. AddressOf(e) = env.base + OffsetOf(e)
  BY <1>1, OffsetBounds, Sizes DEF AddressOf, OffsetOf
<1>5. Canon(e).pool_uuid_lo = Uuid /\ Canon(e).off = OffsetOf(e)
  BY DEF Canon, Element
<1>6. Upcast(Canon(e), BaseOff).pool_uuid_lo = Uuid
      /\ Upcast(Canon(e), BaseOff).off = OffsetOf(e) + BaseOff
  BY <1>3 DEF Canon, Element, Upcast, calculate_offset
<1>7. get(Canon(e), env) = IF env.base = 0 THEN 0 ELSE env.base + OffsetOf(e)
  BY <1>1, <1>2, <1>5, OffsetBounds, OffsetIsWord, DirectOfOffset, Sizes
<1>8. get(Upcast(Canon(e), BaseOff), env)
        = IF env.base = 0 THEN 0 ELSE env.base + (OffsetOf(e) + BaseOff)
  BY <1>1, <1>2, <1>6, OffsetBounds, OffsetIsWord, DirectOfOffset, Sizes
<1> QED BY <1>1, <1>4, <1>7, <1>8, OffsetBounds, Sizes

LEMMA GetOther ==
  /\ get(OID_NULL, env) = 0 /\ get(Upcast(OID_NULL, BaseOff), env) = 0
  /\ get(OfStack, env) = Stack /\ get(Upcast(OfStack, BaseOff), env) = Stack + BaseOff
<1>1. get(OID_NULL, env) = 0 /\ get(OfStack, env) = Stack
  BY Sizes DEF get, OID_NULL, OfStack, pmemobj_direct, LooksUp
<1>2. get(Upcast(OID_NULL, BaseOff), env) = 0
  BY Sizes DEF get, OID_NULL, pmemobj_direct, LooksUp, Upcast
<1>3. (Stack + BaseOff) % Word = Stack + BaseOff
  BY ModSmall, Sizes DEF uint64
<1>4. get(Upcast(OfStack, BaseOff), env) = Stack + BaseOff
  BY <1>3, Sizes DEF get, OfStack, Upcast, calculate_offset
<1> QED BY <1>1, <1>2, <1>4

(* The conversion to a base and back. *)
LEMMA UpcastBack ==
  ASSUME NEW o \in PMEMoid
  PROVE  Equal(Upcast(Upcast(o, BaseOff), -BaseOff), o)
<1>1. o.off \in uint64 /\ o.off + BaseOff \in Int
  BY Sizes DEF PMEMoid, uint64
<1>2. (((o.off + BaseOff) % Word) - BaseOff) % Word = o.off
  <2>1. CASE o.off + BaseOff < Word
    <3>1. (o.off + BaseOff) % Word = o.off + BaseOff
      BY <1>1, <2>1, ModSmall, Sizes DEF uint64
    <3> QED BY <3>1, <1>1, ModSmall, Sizes DEF uint64
  <2>2. CASE o.off + BaseOff >= Word
    <3>1. (o.off + BaseOff) % Word = o.off + BaseOff - Word
      BY <1>1, <2>2, Sizes DEF uint64
    <3>2. (o.off + BaseOff - Word) - BaseOff = o.off - Word
      BY <1>1, Sizes DEF uint64
    <3>3. (o.off - Word) % Word = o.off
      BY <1>1, ModNegative, Sizes DEF uint64
    <3> QED BY <3>1, <3>2, <3>3
  <2> QED BY <1>1, <2>1, <2>2, Sizes
<1>3. (((o.off + BaseOff) % Word) + (-BaseOff)) % Word = o.off
  BY <1>1, <1>2, ModInRange, Sizes
<1> QED BY <1>3 DEF PMEMoid, Equal, OID_EQUALS, Upcast, calculate_offset

-----------------------------------------------------------------------------
(* The invariant.                                                          *)

LEMMA InitInv == Init => IInv
<1> SUFFICES ASSUME Init PROVE IInv
  OBVIOUS
<1>1. PICK b \in Bases : env = [base |-> b, cache |-> NoCache, invalidate |-> 0]
  BY DEF Init
<1>2. EnvType /\ CacheFits
  BY <1>1, Sizes DEF EnvType, CacheFits, Caches, NoCache
<1>3. Canon(Nothing) = OID_NULL /\ Nothing \in Targets
  BY DEF Canon, Nothing, Elements, Targets
<1>4. TargetType
  BY <1>1, <1>3, CanonType DEF Init, TargetType
<1>5. Represents
  BY <1>3 DEF Init, Represents
<1>6. env.base # 0
  BY <1>1, Sizes
<1> QED BY <1>1, <1>2, <1>4, <1>5, <1>6 DEF IInv

(* An assignment that gives a variable the PMEMoid of its new target. *)
LEMMA BecomesStep ==
  ASSUME IInv, NEW p \in Ptrs, NEW e \in Targets, Becomes(p, Canon(e), e)
  PROVE  TargetType' /\ Represents'
<1>1. Canon(e) \in PMEMoid
  BY CanonType DEF IInv
<1>2. TargetType'
  BY <1>1 DEF IInv, TargetType, Becomes
<1>3. Represents'
  BY DEF IInv, TargetType, Represents, Becomes, Canon, Elements, Nothing, OID_NULL, OfStack,
         Element, OffsetOf, VolatileUuid
<1> QED BY <1>2, <1>3

(* Every computation in the program is such an assignment, or two. *)
LEMMA ComputesStep ==
  ASSUME IInv, Computes
  PROVE  env.base # 0 /\ TargetType' /\ Represents'
<1> USE DEF IInv
<1>1. \A p \in Ptrs : target[p] \in Targets /\ oid[p] = Canon(target[p])
  BY DEF TargetType, Represents
<1>2. ASSUME NEW p \in Ptrs, Step(p)
      PROVE  \E e \in Targets : Becomes(p, Canon(e), e)
  <2>1. target[p] \in Elements /\ target[p] \in Int /\ Count \in Int
    BY <1>2, Sizes DEF Step, Elements
  <2>2. CASE target[p] < Count /\ Becomes(p, Increment(oid[p], Size), target[p] + 1)
    <3>1. target[p] + 1 \in Elements
      BY <2>1, <2>2, Sizes DEF Elements
    <3> QED BY <1>1, <2>1, <2>2, <3>1, Arithmetic DEF Increment, Targets
  <2>3. CASE target[p] > 0 /\ Becomes(p, Decrement(oid[p], Size), target[p] - 1)
    <3>1. target[p] - 1 \in Elements
      BY <2>1, <2>3, Sizes DEF Elements
    <3> QED BY <1>1, <2>1, <2>3, <3>1, Arithmetic DEF Decrement, Targets
  <2> QED BY <1>2, <2>2, <2>3 DEF Step
<1>3. ASSUME NEW p \in Ptrs, NEW s \in Distances, Advance(p, s) \/ Retreat(p, s)
      PROVE  \E e \in Targets : Becomes(p, Canon(e), e)
  <2>1. s \in Int
    BY Sizes DEF Distances
  <2> QED BY <1>1, <1>3, <2>1, Arithmetic DEF Advance, Retreat, Targets
<1>4. ASSUME NEW p \in Ptrs, NEW q \in Ptrs, NEW s \in Distances,
             AssignSum(p, q, s) \/ AssignDifference(p, q, s)
      PROVE  \E e \in Targets : Becomes(p, Canon(e), e)
  <2>1. s \in Int
    BY Sizes DEF Distances
  <2> QED BY <1>1, <1>4, <2>1, Arithmetic DEF AssignSum, AssignDifference, Targets
<1>5. ASSUME NEW p \in Ptrs, AssignNull(p)
      PROVE  \E e \in Targets : Becomes(p, Canon(e), e)
  <2>1. Canon(Nothing) = OID_NULL /\ Nothing \in Targets
    BY DEF Canon, Nothing, Elements, Targets
  <2> QED BY <1>5, <2>1 DEF AssignNull
<1>6. ASSUME NEW p \in Ptrs, AssignPointerTo(p) \/ AssignAddress(p)
      PROVE  \E e \in Targets : Becomes(p, Canon(e), e)
  <2>1. env.base # 0
    BY <1>6 DEF AssignPointerTo, AssignAddress, Becomes
  <2>2. /\ Canon(Nothing) = OID_NULL /\ Nothing \in Targets
        /\ Canon(OnStack) = OfStack /\ OnStack \in Targets
    BY DEF Canon, Nothing, OnStack, Elements, Targets
  <2>3. \A e \in 0..(Count - 1) :
          /\ e \in Elements /\ e \in Targets
          /\ FromAddress(AddressOf(e), env.base, PoolSize) = Canon(e)
          /\ pointer_to(AddressOf(e), env.base, PoolSize) = Canon(e)
    <3>1. SUFFICES ASSUME NEW e \in 0..(Count - 1)
                   PROVE  /\ e \in Elements /\ e \in Targets
                          /\ FromAddress(AddressOf(e), env.base, PoolSize) = Canon(e)
                          /\ pointer_to(AddressOf(e), env.base, PoolSize) = Canon(e)
      BY <3>1
    <3>2. e \in Elements /\ e \in Targets
      BY Sizes DEF Elements, Targets
    <3>3. FromAddress(AddressOf(e), env.base, PoolSize) = Canon(e)
      BY <2>1, <3>2, OidOfAddress DEF FromAddress
    <3>4. Canon(e).off # 0
      BY <3>2, OffsetBounds DEF Canon, Element
    <3> QED BY <3>2, <3>3, <3>4 DEF pointer_to, OID_IS_NULL
  <2>4. FromAddress(Stack, env.base, PoolSize) = OID_NULL
        /\ pointer_to(Stack, env.base, PoolSize) = OfStack
    BY <2>1, OidOfAddress DEF FromAddress, pointer_to, OfStack, OID_NULL, OID_IS_NULL
  <2> QED BY <1>6, <2>2, <2>3, <2>4 DEF AssignPointerTo, AssignAddress
<1>7. ASSUME NEW p \in Ptrs, NEW q \in Ptrs, Assign(p, q)
      PROVE  \E e \in Targets : Becomes(p, Canon(e), e)
  BY <1>1, <1>7 DEF Assign
<1>8. ASSUME NEW p \in Ptrs, NEW q \in Ptrs, Swap(p, q)
      PROVE  env.base # 0 /\ TargetType' /\ Represents'
  <2>1. TargetType'
    BY <1>8 DEF Swap, TargetType
  <2>2. \A u \in Ptrs : oid'[u] = Canon(target'[u])
    BY <1>1, <1>8 DEF Swap, TargetType
  <2>3. Represents'
    BY <2>2 DEF Represents, Canon, Elements, Nothing, OID_NULL, OfStack, Element, OffsetOf,
                VolatileUuid
  <2> QED BY <1>8, <2>1, <2>3 DEF Swap
<1>9. ASSUME NEW p \in Ptrs, \E e \in Targets : Becomes(p, Canon(e), e)
      PROVE  env.base # 0 /\ TargetType' /\ Represents'
  BY <1>9, BecomesStep DEF Becomes
<1>10. CASE \E p \in Ptrs : Step(p) \/ AssignNull(p) \/ AssignPointerTo(p) \/ AssignAddress(p)
  BY <1>10, <1>2, <1>5, <1>6, <1>9
<1>11. CASE \E p \in Ptrs, s \in Distances : Advance(p, s) \/ Retreat(p, s)
  BY <1>11, <1>3, <1>9
<1>12. CASE \E p, q \in Ptrs : Assign(p, q) \/ Swap(p, q)
  BY <1>12, <1>7, <1>8, <1>9
<1>13. CASE \E p, q \in Ptrs, s \in Distances : AssignSum(p, q, s) \/ AssignDifference(p, q, s)
  BY <1>13, <1>4, <1>9
<1> QED BY <1>10, <1>11, <1>12, <1>13 DEF Computes

(* Following a pointer changes the cache at most, and it still fits. *)
LEMMA FollowsStep ==
  ASSUME IInv, NEW p \in Ptrs, Follows(oid[p])
  PROVE  EnvType' /\ CacheFits' /\ env'.base = env.base
<1> DEFINE o == oid[p]
<1>1. o = Canon(target[p]) /\ target[p] \in Targets
  BY DEF IInv, Represents, TargetType
<1>2. LooksUp(o) => o.pool_uuid_lo = Uuid
  BY <1>1 DEF LooksUp, Canon, Element, OID_NULL, OfStack
<1>3. CASE LooksUp(o)
  <2> DEFINE c == LookUp(o, env)
  <2>1. /\ c \in Caches /\ c.invalidate <= env.invalidate
        /\ (c.invalidate = env.invalidate /\ c.uuid_lo = Uuid)
             => (c.pop = env.base /\ env.base # 0)
    BY <1>2, <1>3, LookUpFits DEF IInv
  <2>2. env' = [env EXCEPT !.cache = c]
    BY <1>3 DEF Follows
  <2> HIDE DEF c
  <2>3. env' \in [base : Bases \union {0}, cache : Caches, invalidate : 0..MaxCloses]
        /\ env'.cache = c /\ env'.base = env.base /\ env'.invalidate = env.invalidate
    BY <2>1, <2>2 DEF IInv, EnvType
  <2> QED BY <2>1, <2>3 DEF EnvType, CacheFits, Caches
<1>4. CASE ~LooksUp(o)
  BY <1>4 DEF Follows, IInv, EnvType, CacheFits, Caches
<1> QED BY <1>3, <1>4

(* The conversion to persistent_ptr<void> and back keeps what is in the    *)
(* pool.                                                                   *)
LEMMA ConvertedStep ==
  ASSUME IInv, NEW p \in Ptrs, NEW q \in Ptrs, AssignConverted(p, q)
  PROVE  env.base # 0 /\ TargetType' /\ Represents'
<1> USE DEF IInv
<1>1. env.base # 0
  BY DEF AssignConverted, Becomes
<1>2. target[q] \in Targets /\ oid[q] = Canon(target[q])
  BY DEF TargetType, Represents
<1>3. Canon(Nothing) = OID_NULL /\ Nothing \in Targets /\ Canon(OnStack) = OfStack
      /\ OnStack \notin Elements /\ Nothing # OnStack
  BY DEF Canon, Nothing, OnStack, Elements, Targets
<1>4. CASE target[q] \in Elements
  <2>1. pmemobj_oid(get(oid[q], env), env.base, PoolSize) = Canon(target[q])
    BY <1>1, <1>2, <1>4, GetElement, OidOfAddress
  <2> QED BY <1>1, <1>2, <1>3, <1>4, <2>1, BecomesStep DEF AssignConverted
<1>5. CASE target[q] = Nothing
  <2>1. pmemobj_oid(get(oid[q], env), env.base, PoolSize) = OID_NULL
    BY <1>1, <1>2, <1>3, <1>5, GetOther, OidOfAddress
  <2> QED BY <1>1, <1>3, <1>5, <2>1, BecomesStep DEF AssignConverted
<1>6. CASE target[q] = OnStack
  <2>1. pmemobj_oid(get(oid[q], env), env.base, PoolSize) = OID_NULL
    BY <1>1, <1>2, <1>3, <1>6, GetOther, OidOfAddress
  <2> QED BY <1>1, <1>3, <1>6, <2>1, BecomesStep DEF AssignConverted
<1> QED BY <1>2, <1>4, <1>5, <1>6 DEF Targets, Nothing, OnStack

LEMMA NextInv == IInv /\ [Next]_vars => IInv'
<1> SUFFICES ASSUME IInv, [Next]_vars PROVE IInv'
  OBVIOUS
<1>0. Bases # {} /\ EnvType /\ TargetType /\ CacheFits /\ Represents
      /\ (env.base = 0 => StackForgotten)
  BY DEF IInv
<1>1. ASSUME UNCHANGED <<oid, target>>
      PROVE  TargetType' /\ Represents' /\ (StackForgotten => StackForgotten')
  BY <1>0, <1>1 DEF TargetType, Represents, StackForgotten, Canon, Elements, Nothing,
                    OID_NULL, OfStack, Element, OffsetOf, VolatileUuid, OnStack
<1>2. CASE Close
  <2>1. EnvType' /\ CacheFits'
    <3>1. env.cache \in Caches /\ env.invalidate \in 0..MaxCloses
          /\ env.invalidate + 1 \in 0..MaxCloses
      BY <1>0, <1>2, Sizes DEF Close, EnvType
    <3>2. /\ env' \in [base : Bases \union {0}, cache : Caches, invalidate : 0..MaxCloses]
          /\ env'.cache = env.cache /\ env'.invalidate = env.invalidate + 1
      BY <1>0, <1>2, <3>1 DEF Close, EnvType
    <3> QED BY <1>0, <3>1, <3>2, Sizes DEF EnvType, CacheFits, Caches
  <2> QED BY <1>0, <1>1, <1>2, <2>1 DEF Close, IInv
<1>3. CASE Open
  <2>1. PICK b \in Bases : env' = [env EXCEPT !.base = b]
    BY <1>3 DEF Open
  <2>2. env'.base = b /\ b # 0 /\ EnvType'
    BY <1>0, <2>1, Sizes DEF EnvType
  <2>3. CacheFits'
    BY <1>0, <1>3, <2>1 DEF Open, EnvType, CacheFits
  <2> QED BY <1>0, <1>1, <1>3, <2>2, <2>3 DEF Open, IInv
<1>4. CASE Dies
  <2>1. EnvType' /\ CacheFits'
    BY <1>4, Sizes DEF Dies, EnvType, CacheFits, Caches, NoCache
  <2> QED BY <1>0, <1>1, <1>4, <2>1 DEF Dies, IInv
<1>5. CASE Computes /\ UNCHANGED env
  <2>1. EnvType' /\ CacheFits'
    BY <1>0, <1>5 DEF EnvType, CacheFits, Caches
  <2> QED BY <1>0, <1>5, <2>1, ComputesStep DEF IInv
<1>6. CASE \E p \in Ptrs : Dereference(p)
  BY <1>0, <1>1, <1>6, FollowsStep DEF Dereference, IInv
<1>7. CASE \E p, q \in Ptrs : AssignConverted(p, q)
  BY <1>0, <1>7, ConvertedStep, FollowsStep DEF AssignConverted, IInv
<1>8. CASE UNCHANGED vars
  BY <1>0, <1>1, <1>8 DEF vars, IInv, EnvType, CacheFits, Caches
<1> QED BY <1>2, <1>3, <1>4, <1>5, <1>6, <1>7, <1>8 DEF Next

LEMMA PtrInvariant == Spec => []IInv
BY InitInv, NextInv, PTL DEF Spec

-----------------------------------------------------------------------------
(* What the invariant says of the properties.                              *)

LEMMA InvType == IInv => TypeOK
BY DEF IInv, EnvType, Caches, TargetType, TypeOK

LEMMA InvDenotes == IInv => DenotesTarget
<1> SUFFICES ASSUME IInv, NEW p \in Ptrs
    PROVE
      /\ env.base = 0 => get(oid[p], env) = 0 /\ PersistThrows(oid[p], env)
      /\ env.base # 0 =>
           /\ get(oid[p], env) = CASE target[p] \in Elements -> AddressOf(target[p])
                                   [] target[p] = Nothing -> 0
                                   [] target[p] = OnStack -> Stack
           /\ EqualNull(oid[p], env) <=> target[p] = Nothing
           /\ Bool(oid[p], env) <=> target[p] # Nothing
           /\ PersistThrows(oid[p], env) <=> target[p] \in {Nothing, OnStack}
           /\ Equal(Upcast(Upcast(oid[p], BaseOff), -BaseOff), oid[p])
           /\ NullLess(oid[p], env) <=> target[p] # Nothing
           /\ get(Upcast(oid[p], BaseOff), env) =
                IF target[p] = Nothing THEN 0 ELSE get(oid[p], env) + BaseOff
           /\ target[p] \in Elements => \A s \in Distances : target[p] + s \in Elements =>
                get(Plus(oid[p], s, Size), env) = get(oid[p], env) + s * Size
  BY DEF DenotesTarget
<1> DEFINE o == oid[p]
           e == target[p]
<1>1. /\ e \in Targets /\ o = Canon(e) /\ o \in PMEMoid
      /\ Bases # {} /\ EnvType /\ CacheFits
  BY DEF IInv, TargetType, Represents
<1>2. Nothing \notin Elements /\ OnStack \notin Elements /\ Nothing # OnStack
  BY DEF Nothing, OnStack, Elements
<1>3. e = Nothing => o = OID_NULL
  BY <1>1, <1>2 DEF Canon
<1>4. e = OnStack => o = OfStack
  BY <1>1, <1>2 DEF Canon
<1>5. pmemobj_pool_by_oid(o, env) = IF e \in Elements THEN env.base ELSE 0
  BY <1>1, <1>2, <1>3, <1>4, Sizes
     DEF pmemobj_pool_by_oid, Canon, Element, OID_NULL, OfStack, Targets, Nothing, OnStack
<1>6. CASE env.base = 0
  <2>1. e # OnStack
    BY <1>6 DEF IInv, StackForgotten
  <2>2. get(o, env) = 0
    BY <1>1, <1>3, <1>6, <2>1, GetElement, GetOther DEF Targets, Nothing, OnStack
  <2> QED BY <1>5, <1>6, <2>2 DEF PersistThrows
<1>7. CASE env.base # 0
  <2>1. CASE e \in Elements
    <3>1. /\ get(o, env) = AddressOf(e) /\ get(o, env) = env.base + OffsetOf(e)
          /\ get(Upcast(o, BaseOff), env) = AddressOf(e) + BaseOff
      BY <1>1, <1>7, <2>1, GetElement
    <3>2. AddressOf(e) \in Int /\ AddressOf(e) > 0
      BY <1>1, <2>1, <3>1, BaseAddress, OffsetBounds
    <3>3. PersistThrows(o, env) <=> e \in {Nothing, OnStack}
      BY <1>2, <1>5, <1>7, <2>1 DEF PersistThrows
    <3>4. Equal(Upcast(Upcast(o, BaseOff), -BaseOff), o)
      BY <1>1, UpcastBack
    <3>5. ASSUME NEW s \in Distances, e + s \in Elements
          PROVE  get(Plus(o, s, Size), env) = get(o, env) + s * Size
      <4>1. s \in Int /\ e \in Int
        BY <2>1, Sizes DEF Distances, Elements
      <4>2. Plus(o, s, Size) = Canon(e + s)
        BY <1>1, <2>1, <3>5, <4>1, Arithmetic
      <4>3. get(Plus(o, s, Size), env) = env.base + OffsetOf(e + s)
        BY <1>1, <1>7, <3>5, <4>2, GetElement
      <4>4. (e + s) * Size = e * Size + s * Size
        BY <4>1, Sizes, ProductDistributes
      <4>5. OffsetOf(e + s) = OffsetOf(e) + s * Size
        BY <4>1, <4>4, Sizes DEF OffsetOf
      <4> QED BY <1>1, <2>1, <3>1, <4>1, <4>3, <4>5, BaseAddress, OffsetBounds, Sizes
    <3>6. e # Nothing /\ ~EqualNull(o, env)
      BY <1>2, <2>1, <3>1, <3>2 DEF EqualNull
    <3>7. Bool(o, env) /\ NullLess(o, env)
      BY <3>1, <3>2 DEF Bool, NullLess
    <3> QED BY <1>2, <1>7, <2>1, <3>1, <3>3, <3>4, <3>5, <3>6, <3>7
  <2>2. CASE e = Nothing
    <3>1. get(o, env) = 0 /\ get(Upcast(o, BaseOff), env) = 0
      BY <1>3, <2>2, GetOther
    <3>2. PersistThrows(o, env)
      BY <1>2, <1>5, <2>2 DEF PersistThrows
    <3>3. Equal(Upcast(Upcast(o, BaseOff), -BaseOff), o)
      BY <1>1, UpcastBack
    <3> QED BY <1>2, <1>7, <2>2, <3>1, <3>2, <3>3 DEF EqualNull, Bool, NullLess
  <2>3. CASE e = OnStack
    <3>1. get(o, env) = Stack /\ get(Upcast(o, BaseOff), env) = Stack + BaseOff
      BY <1>4, <2>3, GetOther
    <3>2. PersistThrows(o, env)
      BY <1>2, <1>5, <2>3 DEF PersistThrows
    <3>3. Equal(Upcast(Upcast(o, BaseOff), -BaseOff), o)
      BY <1>1, UpcastBack
    <3>4. Stack \in Int /\ Stack > 0
      BY PtrAssumption, Sizes
    <3> QED BY <1>2, <1>7, <2>3, <3>1, <3>2, <3>3, <3>4 DEF EqualNull, Bool, NullLess
  <2> QED BY <1>1, <2>1, <2>2, <2>3 DEF Targets, Nothing, OnStack
<1> QED BY <1>6, <1>7

(* A number of bytes that a ptrdiff_t can say survives the way through a   *)
(* word and back.                                                          *)
LEMMA BytesAsWord ==
  ASSUME NEW n \in Nat, n < Word \div 2
  PROVE  n % Word = n /\ ptrdiff(n) = n
<1> DEFINE h == Word \div 2
<1>1. h \in Nat /\ 2 * h <= Word /\ Word \in Nat \ {0}
  BY Sizes
<1>2. n < h
  OBVIOUS
<1>3. ptrdiff(n) = n
  BY DEF ptrdiff
<1> HIDE DEF h
<1>4. n % Word = n
  BY <1>1, <1>2, ModSmall
<1> QED BY <1>3, <1>4

(* A later element minus an earlier one, computed as the code does: the    *)
(* bytes between them as a word, divided without a sign.                   *)
LEMMA DifferenceOfElements ==
  ASSUME Bases # {}, NEW e \in Elements, NEW f \in Elements, f <= e
  PROVE  Difference(Canon(e), Canon(f), Size) = e - f
<1> DEFINE k == e - f
           h == Word \div 2
           d == (OffsetOf(e) - OffsetOf(f)) % Word
<1>1. /\ e \in Int /\ f \in Int /\ k \in Nat /\ k <= Count
      /\ h \in Nat /\ Word \in Nat \ {0} /\ Size \in Nat \ {0}
  BY Sizes DEF Elements
<1>2. k * Size \in Nat /\ Count * Size \in Int
      /\ k * Size <= Count * Size /\ Count * Size < h
  <2>1. k * Size \in Int /\ Count * Size \in Int
    BY <1>1, Sizes
  <2>2. k < Count => k * Size + Size <= Count * Size
    BY <1>1, Sizes, ProductGrows
  <2>3. 0 < k => 0 * Size + Size <= k * Size
    BY <1>1, Sizes, ProductGrows
  <2>4. 0 * Size = 0
    BY Sizes
  <2>5. k = 0 => k * Size = 0
    BY <1>1, <2>4
  <2> QED BY <1>1, <2>1, <2>2, <2>3, <2>4, <2>5, PtrAssumption
<1>3. k <= k * Size
  <2>1. (k * (Size - 1)) \in Nat
    BY <1>1
  <2>2. k * Size = k * (Size - 1) + k
    BY <1>1
  <2> QED BY <1>1, <2>1, <2>2
<1>4. Difference(Canon(e), Canon(f), Size) = ptrdiff((ptrdiff(d) % Word) \div Size)
  BY DEF Difference, Canon, Element
<1>5. OffsetOf(e) - OffsetOf(f) = k * Size
  <2>1. (e - f) * Size = e * Size - f * Size
    BY <1>1, ProductDistributes
  <2> QED BY <1>1, <2>1, OffsetBounds, Sizes DEF OffsetOf
<1> HIDE DEF k
<1>6. PICK n \in Nat : n = k * Size /\ n < Word \div 2 /\ k <= n
  <2>1. k * Size < Word \div 2
    <3> HIDE DEF h
    <3>1. k * Size < h
      BY <1>1, <1>2
    <3> QED BY <3>1 DEF h
  <2> QED BY <1>2, <1>3, <2>1
<1>7. d = n
  BY <1>5, <1>6, BytesAsWord
<1>8. ptrdiff(d) % Word = n
  BY <1>6, <1>7, BytesAsWord
<1>9. (ptrdiff(d) % Word) \div Size = k
  BY <1>1, <1>6, <1>8, ExactDivision
<1>10. ptrdiff(k) = k
  BY <1>1, <1>6, BytesAsWord
<1> QED BY <1>4, <1>9, <1>10 DEF k

LEMMA InvCompares == IInv => ComparesLikeIndexes
<1> SUFFICES ASSUME IInv, NEW p \in Ptrs, NEW q \in Ptrs,
                    target[p] \in Elements \union {Nothing},
                    target[q] \in Elements \union {Nothing}
    PROVE
      /\ Equal(oid[p], oid[q]) <=> target[p] = target[q]
      /\ Less(oid[p], oid[q]) <=> target[p] < target[q]
      /\ LessOrEqual(oid[p], oid[q]) <=> target[p] <= target[q]
      /\ Equal(Upcast(oid[p], BaseOff), Upcast(oid[q], BaseOff)) <=> target[p] = target[q]
      /\ Equal(Upcast(oid[p], BaseOff), OID_NULL) <=> target[p] = Nothing /\ BaseOff = 0
      /\ ({target[p], target[q]} \subseteq Elements /\ target[q] <= target[p]) =>
           Difference(oid[p], oid[q], Size) = target[p] - target[q]
  BY DEF ComparesLikeIndexes
<1> DEFINE e == target[p]
           f == target[q]
<1>1. oid[p] = Canon(e) /\ oid[q] = Canon(f) /\ Bases # {} /\ e \in Int /\ f \in Int
  BY DEF IInv, Represents, Nothing, Elements
<1>2. /\ e \in Elements => /\ oid[p].pool_uuid_lo = Uuid /\ oid[p].off = OffsetOf(e)
                           /\ OffsetOf(e) \in Nat /\ OffsetOf(e) > 0 /\ e >= 0
      /\ f \in Elements => /\ oid[q].pool_uuid_lo = Uuid /\ oid[q].off = OffsetOf(f)
                           /\ OffsetOf(f) \in Nat /\ OffsetOf(f) > 0 /\ f >= 0
  BY <1>1, OffsetBounds DEF Canon, Element, Elements
<1>3. /\ e = Nothing => e = -1 /\ oid[p].pool_uuid_lo = 0 /\ oid[p].off = 0
      /\ f = Nothing => f = -1 /\ oid[q].pool_uuid_lo = 0 /\ oid[q].off = 0
  BY <1>1 DEF Canon, Nothing, Elements, OID_NULL
<1>4. Uuid \in Nat /\ Uuid > 0
  BY OidAssumption
<1>5. Equal(oid[p], oid[q]) <=> e = f
  BY <1>2, <1>3, <1>4, OffsetOrder DEF Equal, OID_EQUALS
<1>6. /\ Less(oid[p], oid[q]) <=> e < f
      /\ Less(oid[q], oid[p]) <=> f < e
  <2>1. CASE e \in Elements /\ f \in Elements
    BY <1>2, <2>1, OffsetOrder DEF Less
  <2>2. CASE e = Nothing /\ f \in Elements
    BY <1>1, <1>2, <1>3, <1>4, <2>2 DEF Less
  <2>3. CASE e \in Elements /\ f = Nothing
    BY <1>1, <1>2, <1>3, <1>4, <2>3 DEF Less
  <2>4. CASE e = Nothing /\ f = Nothing
    BY <1>3, <2>4 DEF Less
  <2> QED BY <2>1, <2>2, <2>3, <2>4
<1>7. LessOrEqual(oid[p], oid[q]) <=> e <= f
  BY <1>1, <1>6 DEF LessOrEqual
<1>8. \A u \in Ptrs : /\ Upcast(oid[u], BaseOff).pool_uuid_lo = oid[u].pool_uuid_lo
                      /\ Upcast(oid[u], BaseOff).off = (oid[u].off + BaseOff) % Word
  BY DEF IInv, TargetType, PMEMoid, Upcast, calculate_offset
<1>9. /\ Upcast(oid[p], BaseOff).off = oid[p].off + BaseOff
      /\ Upcast(oid[q], BaseOff).off = oid[q].off + BaseOff
  <2>1. \A g \in Elements : (OffsetOf(g) + BaseOff) % Word = OffsetOf(g) + BaseOff
    <3>1. \A n \in uint64 : n % Word = n
      BY ModSmall, Sizes DEF uint64
    <3> QED BY <1>1, <3>1, OffsetIsWord
  <2>2. (0 + BaseOff) % Word = 0 + BaseOff
    BY ModSmall, Sizes
  <2> QED BY <1>2, <1>3, <1>8, <2>1, <2>2
<1>10. Equal(Upcast(oid[p], BaseOff), Upcast(oid[q], BaseOff)) <=> e = f
  BY <1>2, <1>3, <1>4, <1>8, <1>9, OffsetOrder, Sizes DEF Equal, OID_EQUALS
<1>11. Equal(Upcast(oid[p], BaseOff), OID_NULL) <=> (e = Nothing /\ BaseOff = 0)
  BY <1>2, <1>3, <1>4, <1>8, <1>9, Sizes DEF Equal, OID_EQUALS, OID_NULL
<1>12. ({e, f} \subseteq Elements /\ f <= e) => Difference(oid[p], oid[q], Size) = e - f
  BY <1>1, DifferenceOfElements
<1> QED BY <1>5, <1>6, <1>7, <1>10, <1>11, <1>12

(* Position independence, for every layout: get() of a persistent_ptr is   *)
(* the address of its target wherever the pool is mapped and whatever the  *)
(* thread's cache has seen, after any computation with it                  *)
(* (persistent_ptr_base.hpp:277-286, base.h:113-135,                       *)
(* persistent_ptr.hpp:250-260).                                            *)
THEOREM PointersDenoteTargets == Spec => []DenotesTarget
BY PtrInvariant, InvDenotes, PTL

(* Comparisons of persistent_ptrs order them as the indexes of the         *)
(* elements, and operator- of a later and an earlier one is exact, for     *)
(* every sizeof(T) (persistent_ptr.hpp:436-480, 604-611).                  *)
THEOREM ComparisonsFollowIndexes == Spec => []ComparesLikeIndexes
BY PtrInvariant, InvCompares, PTL

(* The variables always hold well-formed PMEMoids, and the cache of        *)
(* pmemobj_direct only ever names the pool or nothing (base.h:113-135).    *)
THEOREM PtrTypeCorrect == Spec => []TypeOK
BY PtrInvariant, InvType, PTL

=============================================================================
