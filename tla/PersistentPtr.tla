--------------------------- MODULE PersistentPtr ---------------------------
(***************************************************************************)
(* persistent_ptr variables of one program, kept in the pool, and what     *)
(* they point to while the program computes with them and while the pool   *)
(* is closed and mapped again at another address.  An array of objects of  *)
(* one type is in the pool; another object of the type is on the stack.    *)
(* Whoever follows a pointer goes through the thread's cache of the pool.  *)
(***************************************************************************)
EXTENDS PmemOid

CONSTANTS
  Ptrs,      \* the variables
  Size,      \* sizeof(T)
  BaseOff,   \* where in an object of type T its base begins
  Count,     \* objects in the array
  ArrayOff,  \* where in the pool the array begins
  PoolSize,
  Bases,     \* the addresses at which the pool can be mapped
  Stack,     \* the address of the object on the stack
  MaxCloses  \* bound: how often one process closes the pool

ASSUME PtrAssumption ==
  /\ Size \in 1..(Word - 1)
  /\ Count \in Nat /\ BaseOff \in 0..(Size - 1) /\ MaxCloses \in Nat /\ PoolSize \in Nat
  /\ ArrayOff \in 1..(Word - 1) /\ ArrayOff + (Count + 1) * Size <= PoolSize
  /\ Count * Size < Word \div 2       \* no array is larger than a ptrdiff_t can say
  /\ \A b \in Bases : b \in 1..(Word - 1) /\ b + PoolSize <= Word
                      /\ Stack \notin b..(b + PoolSize - 1)
  /\ Stack \in 1..(Word - Size)

VARIABLES
  env,     \* where the pool is mapped, 0 while it is closed, and the cache
  oid,     \* the variables
  target   \* what each is meant to point to

vars == <<env, oid, target>>

Elements == 0..Count                  \* indexes, the end of the array included
Targets == Elements \union {-1, -2}
Nothing == -1
OnStack == -2
AddressOf(e) == env.base + ArrayOff + e * Size

TypeOK ==
  /\ env.base \in Bases \union {0} /\ env.invalidate \in 0..MaxCloses
  /\ env.cache \in [pop : Bases \union {0}, uuid_lo : {0, Uuid},
                    invalidate : 0..MaxCloses]
  /\ oid \in [Ptrs -> PMEMoid]
  /\ target \in [Ptrs -> Targets]

Init ==
  /\ \E b \in Bases : env = [base |-> b, cache |-> NoCache, invalidate |-> 0]
  /\ oid = [p \in Ptrs |-> OID_NULL] /\ target = [p \in Ptrs |-> Nothing]

Becomes(p, o, e) ==
  /\ env.base # 0
  /\ oid' = [oid EXCEPT ![p] = o] /\ target' = [target EXCEPT ![p] = e]

(* ++, --, += and -=; pointers stay in the array                           *)
Step(p) ==
  /\ target[p] \in Elements
  /\ \/ target[p] < Count /\ Becomes(p, Increment(oid[p], Size), target[p] + 1)
     \/ target[p] > 0 /\ Becomes(p, Decrement(oid[p], Size), target[p] - 1)
Advance(p, s) ==
  /\ target[p] \in Elements /\ target[p] + s \in Elements
  /\ Becomes(p, PlusAssign(oid[p], s, Size), target[p] + s)
Retreat(p, s) ==
  /\ target[p] \in Elements /\ target[p] - s \in Elements
  /\ Becomes(p, MinusAssign(oid[p], s, Size), target[p] - s)

(* p = q + s and p = q - s                                                 *)
AssignSum(p, q, s) ==
  /\ target[q] \in Elements /\ target[q] + s \in Elements
  /\ Becomes(p, Plus(oid[q], s, Size), target[q] + s)
AssignDifference(p, q, s) ==
  /\ target[q] \in Elements /\ target[q] - s \in Elements
  /\ Becomes(p, Minus(oid[q], s, Size), target[q] - s)

Assign(p, q) == Becomes(p, oid[q], target[q])
AssignNull(p) == Becomes(p, OID_NULL, Nothing)
Swap(p, q) ==
  /\ env.base # 0
  /\ oid' = [oid EXCEPT ![p] = oid[q], ![q] = oid[p]]
  /\ target' = [target EXCEPT ![p] = target[q], ![q] = target[p]]

(* pointer_to an element, or the object on the stack                       *)
AssignPointerTo(p) ==
  \/ \E e \in 0..(Count - 1) :
       Becomes(p, pointer_to(AddressOf(e), env.base, PoolSize), e)
  \/ Becomes(p, pointer_to(Stack, env.base, PoolSize), OnStack)

(* a persistent_ptr made from an address, of an element or on the stack    *)
AssignAddress(p) ==
  \/ \E e \in 0..(Count - 1) :
       Becomes(p, FromAddress(AddressOf(e), env.base, PoolSize), e)
  \/ Becomes(p, FromAddress(Stack, env.base, PoolSize), Nothing)

(* get fills the cache when it has to look the pool up                     *)
Follows(o) == env' = IF LooksUp(o) THEN [env EXCEPT !.cache = LookUp(o, env)] ELSE env
Dereference(p) == Follows(oid[p]) /\ UNCHANGED <<oid, target>>

(* the conversion to persistent_ptr<void> and back; a pointer to the stack *)
(* is lost on the way                                                      *)
AssignConverted(p, q) ==
  /\ Becomes(p, pmemobj_oid(get(oid[q], env), env.base, PoolSize),
             IF target[q] = OnStack THEN Nothing ELSE target[q])
  /\ Follows(oid[q])

(* The pool is closed and mapped again; a stack is not there for ever, so  *)
(* the program keeps no pointer into it.                                   *)
StackForgotten == \A p \in Ptrs : target[p] # OnStack
Close ==
  /\ env.base # 0 /\ env.invalidate < MaxCloses /\ StackForgotten
  /\ env' = [env EXCEPT !.base = 0, !.invalidate = @ + 1]
  /\ UNCHANGED <<oid, target>>
Open ==
  /\ env.base = 0
  /\ \E b \in Bases : env' = [env EXCEPT !.base = b]
  /\ UNCHANGED <<oid, target>>
(* the process dies, and the next one starts with no pool open             *)
Dies ==
  /\ StackForgotten
  /\ env' = [base |-> 0, cache |-> NoCache, invalidate |-> 0]
  /\ UNCHANGED <<oid, target>>

Distances == -Count..Count
Computes ==
  \/ \E p \in Ptrs : Step(p) \/ AssignNull(p) \/ AssignPointerTo(p) \/ AssignAddress(p)
  \/ \E p \in Ptrs, s \in Distances : Advance(p, s) \/ Retreat(p, s)
  \/ \E p, q \in Ptrs : Assign(p, q) \/ Swap(p, q)
  \/ \E p, q \in Ptrs, s \in Distances : AssignSum(p, q, s) \/ AssignDifference(p, q, s)

Next ==
  \/ Close \/ Open \/ Dies
  \/ Computes /\ UNCHANGED env
  \/ \E p \in Ptrs : Dereference(p)
  \/ \E p, q \in Ptrs : AssignConverted(p, q)

Spec == Init /\ [][Next]_vars

-----------------------------------------------------------------------------
(* Position independence: whatever the program has computed, wherever the  *)
(* pool is mapped now and whatever the cache has seen, get() is the        *)
(* address of the object the pointer is meant to point to, null while the  *)
(* pool is closed; p[s] is *(p + s); a pointer converted to the base type  *)
(* points to the base, and back to the object; only null pointers equal    *)
(* nullptr; persist() throws exactly for what is in no open pool, whatever *)
(* the cache says (persistent_ptr_base.hpp:277-286, base.h:113-135,        *)
(* persistent_ptr.hpp:250-260).                                            *)
DenotesTarget ==
  \A p \in Ptrs :
    /\ env.base = 0 => get(oid[p], env) = 0 /\ PersistThrows(oid[p], env)
    /\ env.base # 0 =>
         /\ get(oid[p], env) = CASE target[p] \in Elements -> AddressOf(target[p])
                                 [] target[p] = Nothing -> 0
                                 [] target[p] = OnStack -> Stack
         /\ EqualNull(oid[p], env) <=> target[p] = Nothing
         /\ Bool(oid[p], env) <=> target[p] # Nothing
         /\ PersistThrows(oid[p], env) <=> target[p] \in {Nothing, OnStack}
         /\ Equal(Upcast(Upcast(oid[p], BaseOff), -BaseOff), oid[p])
         /\ NullLess(oid[p], env) <=> target[p] # Nothing
         /\ get(Upcast(oid[p], BaseOff), env) =
              IF target[p] = Nothing THEN 0 ELSE get(oid[p], env) + BaseOff
         /\ target[p] \in Elements => \A s \in Distances : target[p] + s \in Elements =>
              get(Plus(oid[p], s, Size), env) = get(oid[p], env) + s * Size

(* Pointers into one array compare as their indexes do, with the pool open *)
(* or closed, and null is less than all of them.  A later one minus an     *)
(* earlier one is the difference of the indexes; an earlier one minus a    *)
(* later one is not, because the division is unsigned, and nothing is said *)
(* of it here.  A null pointer that was converted to a base at an offset   *)
(* is equal to nullptr and no longer to a null pointer                     *)
(* (persistent_ptr.hpp:436-480, 604-611).                                  *)
ComparesLikeIndexes ==
  \A p, q \in Ptrs : {target[p], target[q]} \subseteq Elements \union {Nothing} =>
    /\ Equal(oid[p], oid[q]) <=> target[p] = target[q]
    /\ Less(oid[p], oid[q]) <=> target[p] < target[q]
    /\ LessOrEqual(oid[p], oid[q]) <=> target[p] <= target[q]
    /\ Equal(Upcast(oid[p], BaseOff), Upcast(oid[q], BaseOff)) <=> target[p] = target[q]
    /\ Equal(Upcast(oid[p], BaseOff), OID_NULL) <=> target[p] = Nothing /\ BaseOff = 0
    /\ ({target[p], target[q]} \subseteq Elements /\ target[q] <= target[p]) =>
         Difference(oid[p], oid[q], Size) = target[p] - target[q]

=============================================================================
