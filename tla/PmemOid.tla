------------------------------ MODULE PmemOid ------------------------------
(***************************************************************************)
(* The arithmetic and the comparisons of persistent_ptr<T> as operators on *)
(* PMEMoid, the pair of a pool's id and an offset in the pool.  Offsets    *)
(* are uint64_t and wrap around; size stands for sizeof(T).                *)
(***************************************************************************)
EXTENDS Integers

CONSTANTS
  Word,   \* 2^64: offsets, addresses and ids are in 0..(Word - 1)
  Uuid    \* pool_uuid_lo of the pool

ASSUME OidAssumption == Word \in Nat /\ Uuid \in 1..(Word - 2)

uint64 == 0..(Word - 1)
PMEMoid == [pool_uuid_lo : uint64, off : uint64]

OID_NULL == [pool_uuid_lo |-> 0, off |-> 0]
OID_IS_NULL(o) == o.off = 0
OID_EQUALS(o, r) == o.off = r.off /\ o.pool_uuid_lo = r.pool_uuid_lo

(* the bits of a uint64_t, read as a ptrdiff_t                             *)
ptrdiff(n) == IF n < Word \div 2 THEN n ELSE n - Word

(* A pointer that is in no pool is kept as an address under this id.       *)
VolatileUuid == Word - 1

Plus(o, s, size) == [o EXCEPT !.off = (@ + s * size) % Word]
(* Mutant: the unsigned product is added without wrapping around.          *)
PlusAssignNoWrap(o, s, size) == [o EXCEPT !.off = @ + ((s * size) % Word)]
PlusAssign(o, s, size) == [o EXCEPT !.off = (@ + s * size) % Word]
Minus(o, s, size) == [o EXCEPT !.off = (@ - s * size) % Word]
MinusAssign(o, s, size) == [o EXCEPT !.off = (@ - s * size) % Word]
Increment(o, size) == PlusAssign(o, 1, size)
Decrement(o, size) == MinusAssign(o, 1, size)

(* Mutant: the bytes between the pointers are not divided by sizeof(T).    *)
DifferenceInBytes(o, r, size) == ptrdiff((o.off - r.off) % Word)
(* d / sizeof(T) is a division of unsigned numbers, also when d, which is  *)
(* a ptrdiff_t, is negative                                                *)
Difference(o, r, size) ==
  LET d == ptrdiff((o.off - r.off) % Word) IN ptrdiff((d % Word) \div size)

Equal(o, r) == OID_EQUALS(o, r)
Less(o, r) == IF o.pool_uuid_lo = r.pool_uuid_lo THEN o.off < r.off
              ELSE o.pool_uuid_lo < r.pool_uuid_lo
LessOrEqual(o, r) == ~Less(r, o)

(* The conversion to a pointer to a base of T that begins delta bytes      *)
(* inside of it, and, with -delta, the one from a base to T.               *)
calculate_offset(o, delta) == (o.off + delta) % Word
Upcast(o, delta) == [o EXCEPT !.off = calculate_offset(o, delta)]

(* pmemobj_direct, for a thread with this environment: base, the address   *)
(* at which the pool is mapped, 0 while it is closed; cache, the pool that *)
(* the thread looked up last; invalidate, the count of closed pools.       *)
NoCache == [pop |-> 0, uuid_lo |-> 0, invalidate |-> 0]
Hit(o, env) == /\ env.cache.invalidate = env.invalidate
               /\ env.cache.uuid_lo = o.pool_uuid_lo
pmemobj_pool_by_oid(o, env) == IF o.pool_uuid_lo = Uuid THEN env.base ELSE 0
(* Mutant: a failed lookup leaves the id of the cached pool.               *)
LookUpKeepsUuid(o, env) ==
  LET pop == pmemobj_pool_by_oid(o, env)
  IN IF Hit(o, env) THEN env.cache
     ELSE [pop |-> pop, invalidate |-> env.invalidate, uuid_lo |->
           IF pop = 0 THEN env.cache.uuid_lo ELSE o.pool_uuid_lo]
LookUp(o, env) ==
  LET pop == pmemobj_pool_by_oid(o, env)
  IN IF Hit(o, env) THEN env.cache
     ELSE [pop |-> pop, invalidate |-> env.invalidate, uuid_lo |->
           IF pop = 0 THEN 0 ELSE o.pool_uuid_lo]
LooksUp(o) == o.off # 0 /\ o.pool_uuid_lo \notin {0, VolatileUuid}
pmemobj_direct(o, env) ==
  IF ~LooksUp(o) \/ (~Hit(o, env) /\ LookUp(o, env).pop = 0) THEN 0
  ELSE (LookUp(o, env).pop + o.off) % Word

get(o, env) == IF o.pool_uuid_lo = VolatileUuid THEN o.off ELSE pmemobj_direct(o, env)
Bool(o, env) == get(o, env) # 0
(* persist and flush without a pool throw when the pointer knows no pool   *)
PersistThrows(o, env) == pmemobj_pool_by_oid(o, env) = 0
(* the comparisons with nullptr, all of them made from two                 *)
EqualNull(o, env) == get(o, env) = 0
NullLess(o, env) == 0 < get(o, env)

(* pmemobj_oid: what the library knows of an address                       *)
pmemobj_oid(a, base, poolSize) ==
  IF base # 0 /\ base <= a /\ a < base + poolSize
  THEN [pool_uuid_lo |-> Uuid, off |-> a - base] ELSE OID_NULL
(* the constructor for an address: of what is in no pool, null             *)
FromAddress(a, base, poolSize) == pmemobj_oid(a, base, poolSize)
(* pointer_to, through the constructor that keeps a volatile address       *)
pointer_to(a, base, poolSize) ==
  LET o == FromAddress(a, base, poolSize)
  IN IF OID_IS_NULL(o) THEN [pool_uuid_lo |-> VolatileUuid, off |-> a] ELSE o

=============================================================================
