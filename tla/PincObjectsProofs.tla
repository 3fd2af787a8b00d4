------------------------- MODULE PincObjectsProofs -------------------------
(***************************************************************************)
(* The invariants of PincObjects, for every number of objects and every    *)
(* initial capacity.                                                       *)
(***************************************************************************)
EXTENDS PincObjects, PoolOpsProofs

Tables == [Slots -> Entries]

(* The slots of kind k's pool that table t refers to. *)
UsedBy(t, k) == {t[s].index : s \in {r \in Slots : t[r].kind = k}}

(* Pool p belongs to the objects of kind k in table t. *)
PoolOwned(t, p, k) ==
  /\ p \in Pools
  /\ Partitioned(p, UsedBy(t, k))
  /\ Fits(p)
  /\ \A r, s \in Slots :
       t[r].kind = k /\ t[s].kind = k /\ t[r].index = t[s].index => r = s

(* Tables that agree but for one slot. *)
SameBut(t, u, s) ==
  \A r \in Slots \ {s} : u[r].kind = t[r].kind /\ u[r].index = t[r].index

(* An object that becomes one of kind k takes a slot nobody of its kind    *)
(* has.                                                                    *)
LEMMA ObjectEnters ==
  ASSUME NEW t \in Tables, NEW u \in Tables, NEW s \in Slots, NEW k, NEW p,
         PoolOwned(t, p, k), SameBut(t, u, s),
         t[s].kind # k, u[s].kind = k, u[s].index = NextSlot(p)
  PROVE  PoolOwned(u, PoolAlloc(p), k)
<1>1. /\ NextSlot(p) \notin UsedBy(t, k)
      /\ PoolAlloc(p) \in Pools
      /\ Partitioned(PoolAlloc(p), UsedBy(t, k) \cup {NextSlot(p)})
      /\ Fits(PoolAlloc(p))
  BY AllocPartitioned DEF PoolOwned
<1>2. UsedBy(u, k) = UsedBy(t, k) \cup {NextSlot(p)}
  BY DEF UsedBy, SameBut
<1>3. ASSUME NEW q \in Slots, NEW r \in Slots,
             u[q].kind = k, u[r].kind = k, u[q].index = u[r].index
      PROVE  q = r
  BY <1>1, <1>3 DEF UsedBy, SameBut, PoolOwned
<1>4. QED
  BY <1>1, <1>2, <1>3 DEF PoolOwned

(* An object that is no longer one of kind k gives its slot back. *)
LEMMA ObjectLeaves ==
  ASSUME NEW t \in Tables, NEW u \in Tables, NEW s \in Slots, NEW k, NEW p,
         PoolOwned(t, p, k), SameBut(t, u, s),
         t[s].kind = k, u[s].kind # k
  PROVE  PoolOwned(u, PoolFree(p, t[s].index), k)
<1>1. t[s].index \in UsedBy(t, k)
  BY DEF UsedBy
<1>2. /\ PoolFree(p, t[s].index) \in Pools
      /\ Partitioned(PoolFree(p, t[s].index), UsedBy(t, k) \ {t[s].index})
      /\ Fits(PoolFree(p, t[s].index))
  BY <1>1, FreePartitioned DEF PoolOwned
<1>3. UsedBy(u, k) = UsedBy(t, k) \ {t[s].index}
  BY DEF UsedBy, SameBut, PoolOwned
<1>4. ASSUME NEW q \in Slots, NEW r \in Slots,
             u[q].kind = k, u[r].kind = k, u[q].index = u[r].index
      PROVE  q = r
  BY <1>4 DEF SameBut, PoolOwned
<1>5. QED
  BY <1>2, <1>3, <1>4 DEF PoolOwned

(* What happens to objects of other kinds does not matter. *)
LEMMA OthersStay ==
  ASSUME NEW t \in Tables, NEW u \in Tables, NEW s \in Slots, NEW k, NEW p,
         PoolOwned(t, p, k), SameBut(t, u, s),
         \/ t[s].kind # k /\ u[s].kind # k
         \/ u[s].kind = t[s].kind /\ u[s].index = t[s].index
  PROVE  PoolOwned(u, p, k)
<1>1. \A r \in Slots : /\ u[r].kind = k <=> t[r].kind = k
                       /\ t[r].kind = k => u[r].index = t[r].index
  BY DEF SameBut
<1>2. UsedBy(u, k) = UsedBy(t, k)
  BY <1>1 DEF UsedBy
<1>3. QED
  BY <1>1, <1>2 DEF PoolOwned

(* The invariant, in terms of the table and the pools. *)
LEMMA Invariant ==
  IInv <=> /\ TypeOK
           /\ Partitioned(objects, Live) /\ Fits(objects)
           /\ \A k \in Kinds : PoolOwned(table, pools[k], k)
<1>1. \A k \in Kinds : UsedBy(table, k) = {table[s].index : s \in OfKind(k)}
  BY DEF UsedBy, OfKind
<1>2. \A k \in Kinds :
        (\A s, t \in OfKind(k) : table[s].index = table[t].index => s = t)
        <=> (\A r, s \in Slots : table[r].kind = k /\ table[s].kind = k
                                   /\ table[r].index = table[s].index => r = s)
  BY DEF OfKind
<1>3. TypeOK => \A k \in Kinds : pools[k] \in Pools
  BY DEF TypeOK
<1>4. QED
  BY <1>1, <1>2, <1>3 DEF IInv, HandlesOwnSlots, PoolOwned

(* The same of the next state. *)
LEMMA InvariantNext ==
  (IInv <=> /\ TypeOK
            /\ Partitioned(objects, Live) /\ Fits(objects)
            /\ \A k \in Kinds : PoolOwned(table, pools[k], k))'
  BY Invariant, PTL

(* Before any object exists, and again after pincDeinit.                   *)
NoObjects ==
  /\ objects = EmptyPool
  /\ table = [s \in Slots |-> NoObject]
  /\ pools = [k \in Kinds |-> EmptyPool]
  /\ store = [k \in Kinds |-> [s \in Slots |-> Stale]]

(* The invariant holds when there is no object. *)
LEMMA EmptyIInv == NoObjects => IInv
<1> SUFFICES ASSUME NoObjects PROVE IInv
  OBVIOUS
<1> USE DEF NoObjects
<1>1. NoObject \in Entries /\ "none" \notin Kinds
  BY PincObjectsAssumption DEF NoObject, Entries, Kinds
<1>2. /\ TypeOK
      /\ Live = {}
      /\ \A k \in Kinds : OfKind(k) = {}
  BY <1>1, EmptyPoolPartitioned DEF TypeOK, Live, OfKind, NoObject
<1>3. \A k \in Kinds : {table[s].index : s \in OfKind(k)} = {}
  BY <1>2
<1>4. HandlesOwnSlots
  BY <1>2, <1>3, EmptyPoolPartitioned DEF HandlesOwnSlots
<1>5. QED
  BY <1>2, <1>4, EmptyPoolPartitioned DEF IInv

(* The same of the next state. *)
LEMMA EmptyIInvNext == (NoObjects => IInv)'
  BY EmptyIInv, PTL

(* PincObject_allocate: the new object enters the pool of its kind.        *)
LEMMA CreateIInv ==
  ASSUME IInv, NEW k \in Creatable, NEW d \in Data, Create(k, d)
  PROVE  IInv'
<1> DEFINE slot == NextSlot(objects)
           index == NextSlot(pools[k])
<1>1. k \in Kinds
  BY PincObjectsAssumption DEF Kinds
<1>2. /\ TypeOK
      /\ Partitioned(objects, Live) /\ Fits(objects)
      /\ \A j \in Kinds : PoolOwned(table, pools[j], j)
  BY Invariant
<1>3. /\ slot \in Slots /\ slot \notin Live
      /\ PoolAlloc(objects) \in Pools
      /\ Partitioned(PoolAlloc(objects), Live \cup {slot})
      /\ Fits(PoolAlloc(objects))
  <2>1. objects \in Pools
    BY <1>2 DEF TypeOK
  <2>2. /\ slot \in Nat /\ slot \notin Live
        /\ PoolAlloc(objects) \in Pools
        /\ Partitioned(PoolAlloc(objects), Live \cup {slot})
        /\ Fits(PoolAlloc(objects))
    BY <1>2, <2>1, AllocPartitioned
  <2>3. slot < MaxObjects
    BY DEF Create
  <2>4. QED
    BY <2>2, <2>3, PincObjectsAssumption DEF Slots
<1>4. index \in Nat
  BY <1>1, <1>2, AllocPartitioned DEF PoolOwned
<1>5. /\ table' = [table EXCEPT ![slot] =
                     [kind |-> k, index |-> index, userData |-> NoUserData]]
      /\ objects' = PoolAlloc(objects)
      /\ pools' = [pools EXCEPT ![k] = PoolAlloc(@)]
      /\ store' = [store EXCEPT ![k][index] = d]
  BY DEF Create
<1>6. /\ table \in Tables /\ table' \in Tables
      /\ SameBut(table, table', slot)
      /\ table[slot].kind \notin Kinds
      /\ table'[slot].kind = k /\ table'[slot].index = index
  <2>1. table \in Tables /\ table[slot].kind = "none" /\ "none" \notin Kinds
    BY <1>2, <1>3 DEF TypeOK, Tables, Live, Kinds
  <2>2. [kind |-> k, index |-> index, userData |-> NoUserData] \in Entries
    BY <1>1, <1>4, PincObjectsAssumption DEF Entries
  <2>3. QED
    BY <1>3, <1>5, <2>1, <2>2 DEF Tables, SameBut
<1>7. pools \in [Kinds -> Pools] /\ store \in [Kinds -> [Slots -> Data \cup {Stale}]]
  BY <1>2 DEF TypeOK
<1>8. \A j \in Kinds : PoolOwned(table', pools'[j], j)
  <2>1. PoolOwned(table', PoolAlloc(pools[k]), k)
    BY <1>1, <1>2, <1>3, <1>6, ObjectEnters
  <2>2. \A j \in Kinds \ {k} : PoolOwned(table', pools[j], j)
    BY <1>2, <1>3, <1>6, OthersStay
  <2>3. QED
    BY <1>1, <1>5, <1>7, <2>1, <2>2
<1>9. Live' = Live \cup {slot}
  BY <1>1, <1>3, <1>6 DEF Live, SameBut, Kinds
<1>10. TypeOK'
  <2>1. pools' \in [Kinds -> Pools]
    BY <1>1, <1>5, <1>7, <1>8 DEF PoolOwned
  <2>2. store' \in [Kinds -> [Slots -> Data \cup {Stale}]]
    BY <1>1, <1>5, <1>7
  <2>3. QED
    BY <1>3, <1>5, <1>6, <2>1, <2>2 DEF TypeOK, Tables
<1>11. Partitioned(objects, Live)' /\ Fits(objects)'
  BY <1>3, <1>5, <1>9
<1>12. QED
  BY <1>8, <1>10, <1>11, InvariantNext

(* What a handle that is looked up gives.                                  *)
LEMMA LookupGives ==
  ASSUME IInv, NEW h \in 1 .. MaxObjects, NEW k \in Kinds, Lookup(h, k)
  PROVE  /\ h - 1 \in Slots
         /\ table[h - 1] \in Entries /\ table[h - 1].kind = k
         /\ h - 1 \in Live
BY PincObjectsAssumption DEF IInv, TypeOK, Lookup, Slots, Live, Kinds

(* PincObject_reallocate: the object leaves the pool of its old kind and   *)
(* enters that of its new one, behind the same handle.                     *)
LEMMA CompleteIInv ==
  ASSUME IInv, NEW h \in 1 .. MaxObjects, NEW d \in Data,
         NEW k \in {"incompleteWindow", "incompleteGlContext"}, Lookup(h, k),
         Complete(h, d)
  PROVE  IInv'
<1> DEFINE s == h - 1
           new == Completed[k]
           index == NextSlot(pools[new])
<1>1. k \in Kinds /\ new \in Kinds /\ new # k
  BY DEF Kinds, Completed
<1>2. s \in Slots /\ table[s] \in Entries /\ table[s].kind = k /\ s \in Live
  BY <1>1, LookupGives
<1>3. /\ TypeOK
      /\ Partitioned(objects, Live) /\ Fits(objects)
      /\ \A j \in Kinds : PoolOwned(table, pools[j], j)
  BY Invariant
<1>4. index \in Nat
  BY <1>1, <1>3, AllocPartitioned DEF PoolOwned
<1>5. /\ table' = [table EXCEPT ![s] =
                     [kind |-> new, index |-> index, userData |-> table[s].userData]]
      /\ pools' = [pools EXCEPT ![k] = PoolFree(@, table[s].index),
                                ![new] = PoolAlloc(@)]
      /\ store' = [store EXCEPT ![k][table[s].index] = Stale, ![new][index] = d]
      /\ objects' = objects
  BY <1>2 DEF Complete
<1>6. /\ table \in Tables /\ table' \in Tables
      /\ SameBut(table, table', s)
      /\ table'[s].kind = new /\ table'[s].index = index
  <2>1. table \in Tables
    BY <1>3 DEF TypeOK, Tables
  <2>2. [kind |-> new, index |-> index, userData |-> table[s].userData] \in Entries
    BY <1>1, <1>2, <1>4 DEF Entries
  <2>3. QED
    BY <1>2, <1>5, <2>1, <2>2 DEF Tables, SameBut
<1>7. pools \in [Kinds -> Pools] /\ store \in [Kinds -> [Slots -> Data \cup {Stale}]]
  BY <1>3 DEF TypeOK
<1>8. \A j \in Kinds : PoolOwned(table', pools'[j], j)
  <2>1. PoolOwned(table', PoolFree(pools[k], table[s].index), k)
    BY <1>1, <1>2, <1>3, <1>6, ObjectLeaves
  <2>2. PoolOwned(table', PoolAlloc(pools[new]), new)
    BY <1>1, <1>2, <1>3, <1>6, ObjectEnters
  <2>3. \A j \in Kinds \ {k, new} : PoolOwned(table', pools[j], j)
    BY <1>1, <1>2, <1>3, <1>6, OthersStay
  <2>4. /\ pools'[k] = PoolFree(pools[k], table[s].index)
        /\ pools'[new] = PoolAlloc(pools[new])
        /\ \A j \in Kinds \ {k, new} : pools'[j] = pools[j]
    BY <1>1, <1>5, <1>7
  <2>5. QED
    BY <2>1, <2>2, <2>3, <2>4
<1>9. Live' = Live
  BY <1>1, <1>2, <1>6 DEF Live, SameBut, Kinds
<1>10. TypeOK'
  <2>1. pools' \in [Kinds -> Pools]
    <3>1. pools' = [j \in Kinds |-> pools'[j]]
      BY <1>5, <1>7
    <3>2. QED
      BY <1>8, <3>1 DEF PoolOwned
  <2>2. store' \in [Kinds -> [Slots -> Data \cup {Stale}]]
    BY <1>1, <1>5, <1>7
  <2>3. QED
    BY <1>3, <1>5, <1>6, <2>1, <2>2 DEF TypeOK, Tables
<1>11. Partitioned(objects, Live)' /\ Fits(objects)'
  BY <1>3, <1>5, <1>9
<1>12. QED
  BY <1>8, <1>10, <1>11, InvariantNext

(* Steps that leave kinds and slots alone.                                 *)
LEMMA SameSlotsIInv ==
  ASSUME IInv, TypeOK', objects' = objects, pools' = pools,
         \A s \in Slots : /\ table'[s].kind = table[s].kind
                          /\ table'[s].index = table[s].index
  PROVE  IInv'
<1>1. Live' = Live /\ \A k \in Kinds : OfKind(k)' = OfKind(k)
  BY DEF Live, OfKind
<1>2. \A k \in Kinds : {table'[s].index : s \in OfKind(k)'} = {table[s].index : s \in OfKind(k)}
  BY <1>1 DEF OfKind
<1>3. HandlesOwnSlots'
  BY <1>1, <1>2 DEF IInv, HandlesOwnSlots, OfKind
<1>4. QED
  BY <1>3 DEF IInv

(* The setters of an incomplete object write its contents only. *)
LEMMA WriteIInv ==
  ASSUME IInv, NEW h \in 1 .. MaxObjects, NEW d \in Data, Write(h, d)
  PROVE  IInv'
<1>1. store' \in [Kinds -> [Slots -> Data \cup {Stale}]]
  BY DEF Write, IInv, TypeOK
<1>2. TypeOK'
  BY <1>1 DEF Write, IInv, TypeOK
<1>3. QED
  BY <1>2, SameSlotsIInv DEF Write

(* pincObject_setUserData writes one field of the slot. *)
LEMMA SetUserDataIInv ==
  ASSUME IInv, NEW h \in 1 .. MaxObjects, NEW u \in UserData, SetUserData(h, u)
  PROVE  IInv'
<1>1. table \in [Slots -> Entries] /\ table' = [table EXCEPT ![h - 1].userData = u]
  BY DEF SetUserData, IInv, TypeOK
<1>2. table' \in [Slots -> Entries]
  BY <1>1 DEF Entries
<1>3. \A s \in Slots : /\ table'[s].kind = table[s].kind
                       /\ table'[s].index = table[s].index
  BY <1>1 DEF Entries
<1>4. TypeOK'
  BY <1>2 DEF SetUserData, IInv, TypeOK
<1>5. QED
  BY <1>3, <1>4, SameSlotsIInv DEF SetUserData

(* PincObject_free: the object leaves both pools.                          *)
LEMMA DestroyIInv ==
  ASSUME IInv, NEW h \in 1 .. MaxObjects, NEW k \in Kinds, Lookup(h, k), Destroy(h)
  PROVE  IInv'
<1> DEFINE s == h - 1
<1>1. s \in Slots /\ table[s] \in Entries /\ table[s].kind = k /\ s \in Live
  BY LookupGives
<1>2. /\ TypeOK
      /\ Partitioned(objects, Live) /\ Fits(objects)
      /\ \A j \in Kinds : PoolOwned(table, pools[j], j)
  BY Invariant
<1>3. /\ table' = [table EXCEPT ![s] = NoObject]
      /\ pools' = [pools EXCEPT ![k] = PoolFree(@, table[s].index)]
      /\ objects' = PoolFree(objects, s)
      /\ store' = [store EXCEPT ![k][table[s].index] = Stale]
  BY <1>1 DEF Destroy
<1>4. /\ table \in Tables /\ table' \in Tables
      /\ SameBut(table, table', s)
      /\ table'[s].kind \notin Kinds /\ table'[s].kind = "none"
  <2>1. table \in Tables
    BY <1>2 DEF TypeOK, Tables
  <2>2. NoObject \in Entries /\ NoObject.kind = "none" /\ "none" \notin Kinds
    BY PincObjectsAssumption DEF NoObject, Entries, Kinds
  <2>3. QED
    BY <1>1, <1>3, <2>1, <2>2 DEF Tables, SameBut
<1>5. pools \in [Kinds -> Pools] /\ store \in [Kinds -> [Slots -> Data \cup {Stale}]]
  BY <1>2 DEF TypeOK
<1>6. \A j \in Kinds : PoolOwned(table', pools'[j], j)
  <2>1. PoolOwned(table', PoolFree(pools[k], table[s].index), k)
    BY <1>1, <1>2, <1>4, ObjectLeaves
  <2>2. \A j \in Kinds \ {k} : PoolOwned(table', pools[j], j)
    BY <1>1, <1>2, <1>4, OthersStay
  <2>3. QED
    BY <1>3, <1>5, <2>1, <2>2
<1>7. Live' = Live \ {s}
  BY <1>1, <1>4 DEF Live, SameBut
<1>8. /\ objects' \in Pools
      /\ Partitioned(objects, Live)' /\ Fits(objects)'
  <2>1. objects \in Pools
    BY <1>2 DEF TypeOK
  <2>2. QED
    BY <1>1, <1>2, <1>3, <1>7, <2>1, FreePartitioned
<1>9. TypeOK'
  <2>1. pools' \in [Kinds -> Pools]
    BY <1>3, <1>5, <1>6 DEF PoolOwned
  <2>2. store' \in [Kinds -> [Slots -> Data \cup {Stale}]]
    BY <1>3, <1>5
  <2>3. QED
    BY <1>4, <1>8, <2>1, <2>2 DEF TypeOK, Tables
<1>10. QED
  BY <1>6, <1>8, <1>9, InvariantNext

(* IInv is an inductive invariant.                                         *)
THEOREM ObjectsInvariant == Spec => []IInv
<1>1. Init => IInv
  BY EmptyIInv DEF Init, NoObjects
<1>2. IInv /\ [Next]_vars => IInv'
  <2> SUFFICES ASSUME IInv, [Next]_vars PROVE IInv'
    OBVIOUS
  <2>1. ASSUME NEW k \in Creatable, NEW d \in Data, Create(k, d)
        PROVE  IInv'
    BY <2>1, CreateIInv
  <2>2. ASSUME NEW h \in 1 .. MaxObjects, NEW d \in Data,
               NEW k \in {"incompleteWindow", "incompleteGlContext"},
               Lookup(h, k), Complete(h, d)
        PROVE  IInv'
    BY <2>2, CompleteIInv
  <2>3. ASSUME NEW h \in 1 .. MaxObjects, NEW d \in Data, Write(h, d)
        PROVE  IInv'
    BY <2>3, WriteIInv
  <2>4. ASSUME NEW h \in 1 .. MaxObjects, NEW u \in UserData, SetUserData(h, u)
        PROVE  IInv'
    BY <2>4, SetUserDataIInv
  <2>5. ASSUME NEW h \in 1 .. MaxObjects, NEW k \in Destroyable, Lookup(h, k), Destroy(h)
        PROVE  IInv'
    BY <2>5, DestroyIInv DEF Destroyable
  <2>6. CASE Deinit
    <3>1. NoObjects'
      BY <2>6 DEF Deinit, NoObjects
    <3>2. QED
      BY <3>1, EmptyIInvNext
  <2>7. CASE UNCHANGED vars
    <3>1. TypeOK'
      BY <2>7 DEF IInv, TypeOK, vars
    <3>2. QED
      BY <2>7, <3>1, SameSlotsIInv DEF vars
  <2>8. QED
    BY <2>1, <2>2, <2>3, <2>4, <2>5, <2>6, <2>7 DEF Next
<1>3. QED
  BY <1>1, <1>2, PTL DEF Spec

(* Slots, handles and pools keep their types.                              *)
THEOREM ObjectsTypeCorrect == Spec => []TypeOK
<1>1. IInv => TypeOK
  BY DEF IInv
<1>2. QED
  BY <1>1, ObjectsInvariant, PTL

(* Every handle owns its slot of the object pool and of its kind's pool.   *)
THEOREM HandlesAlwaysOwnSlots == Spec => []HandlesOwnSlots
<1>1. IInv => HandlesOwnSlots
  BY DEF IInv
<1>2. QED
  BY <1>1, ObjectsInvariant, PTL

-----------------------------------------------------------------------------
(* The pool of a kind never has more slots than there are objects, so the  *)
(* index of every object is one of Slots.                                  *)
Bounded == \A k \in Kinds : pools[k].num <= MaxObjects

(* While some object is not of kind k, the next one of kind k still fits:  *)
(* a pool grows only when all its slots are used, each by another object.  *)
LEMMA NextFits ==
  ASSUME NEW t \in Tables, NEW s \in Slots, NEW k, NEW p,
         PoolOwned(t, p, k), t[s].kind # k, p.num <= MaxObjects
  PROVE  PoolAlloc(p).num <= MaxObjects
<1> DEFINE Owners == {r \in Slots : t[r].kind = k}
           f == [r \in Owners |-> t[r].index]
<1>1. CASE p.freeList # << >>
  BY <1>1 DEF PoolAlloc
<1>2. CASE p.freeList = << >>
  <2>1. p.num \in Nat /\ MaxObjects \in Nat
    BY PincObjectsAssumption DEF PoolOwned, Pools
  <2>2. UsedBy(t, k) = 0 .. (p.num - 1)
    <3>1. Range(p.freeList) = {}
      BY <1>2 DEF Range
    <3>2. UsedBy(t, k) \cup Range(p.freeList) = 0 .. (p.num - 1)
      BY DEF PoolOwned, Partitioned, FreeSlots
    <3>3. QED
      BY <3>1, <3>2
  <2>3. /\ \A r \in Owners : f[r] \in 0 .. (p.num - 1)
        /\ \A i \in 0 .. (p.num - 1) : \E r \in Owners : f[r] = i
    BY <2>2 DEF UsedBy
  <2>4. f \in Surjection(Owners, 0 .. (p.num - 1))
    BY <2>3 DEF Surjection
  <2>5. /\ IsFiniteSet(Slots) /\ Cardinality(Slots) = MaxObjects
        /\ Cardinality(0 .. (p.num - 1)) = p.num
    BY <2>1, SlotCount DEF Slots
  <2>6. /\ IsFiniteSet(Slots \ {s})
        /\ Cardinality(Slots \ {s}) = MaxObjects - 1
    BY <2>5, FS_RemoveElement
  <2>7. Owners \subseteq Slots \ {s}
    OBVIOUS
  <2>8. IsFiniteSet(Owners) /\ Cardinality(Owners) <= MaxObjects - 1
    BY <2>6, <2>7, FS_Subset
  <2>9. p.num <= Cardinality(Owners)
    BY <2>4, <2>5, <2>8, FS_Surjection
  <2>10. Cardinality(Owners) \in Nat
    BY <2>8, FS_CardinalityType
  <2>11. p.num + 1 <= MaxObjects
    BY <2>1, <2>8, <2>9, <2>10
  <2>12. QED
    BY <1>2, <2>11 DEF PoolAlloc
<1>3. QED
  BY <1>1, <1>2

(* Freeing never makes a pool longer. *)
LEMMA FreeShrinks ==
  ASSUME NEW p \in Pools, NEW i, p.num <= MaxObjects
  PROVE  PoolFree(p, i).num <= MaxObjects
<1>1. p.num \in Nat /\ MaxObjects \in Nat
  BY PincObjectsAssumption DEF Pools
<1>2. PoolFree(p, i).num \in {p.num, p.num - 1}
  BY DEF PoolFree, Pools
<1>3. QED
  BY <1>1, <1>2

(* The bound is kept by every step. *)
THEOREM PoolsBounded == Spec => []Bounded
<1>1. Init => Bounded
  BY PincObjectsAssumption DEF Init, Bounded, EmptyPool
<1>2. IInv /\ Bounded /\ [Next]_vars => Bounded'
  <2> SUFFICES ASSUME IInv, Bounded, [Next]_vars PROVE Bounded'
    OBVIOUS
  <2> USE DEF Bounded
  <2>1. /\ table \in Tables /\ pools \in [Kinds -> Pools]
        /\ \A k \in Kinds : PoolOwned(table, pools[k], k)
    BY Invariant DEF TypeOK, Tables
  <2>2. ASSUME NEW k \in Creatable, NEW d \in Data, Create(k, d)
        PROVE  Bounded'
    <3>1. k \in Kinds /\ "none" \notin Kinds
      BY PincObjectsAssumption DEF Kinds
    <3>2. /\ NextSlot(objects) \in Nat /\ NextSlot(objects) \notin Live
          /\ NextSlot(objects) < MaxObjects
      BY <2>2, AllocPartitioned DEF IInv, TypeOK, HandlesOwnSlots, Create
    <3>3. NextSlot(objects) \in Slots /\ table[NextSlot(objects)].kind # k
      BY <3>1, <3>2, PincObjectsAssumption DEF Slots, Live
    <3>4. PoolAlloc(pools[k]).num <= MaxObjects
      BY <2>1, <3>1, <3>3, NextFits
    <3>5. pools' = [pools EXCEPT ![k] = PoolAlloc(@)]
      BY <2>2 DEF Create
    <3>6. QED
      BY <2>1, <3>1, <3>4, <3>5
  <2>3. ASSUME NEW h \in 1 .. MaxObjects, NEW d \in Data,
               NEW k \in {"incompleteWindow", "incompleteGlContext"},
               Lookup(h, k), Complete(h, d)
        PROVE  Bounded'
    <3> DEFINE new == Completed[k]
    <3>1. k \in Kinds /\ new \in Kinds /\ new # k
      BY DEF Kinds, Completed
    <3>2. h - 1 \in Slots /\ table[h - 1].kind = k
      BY <2>3, <3>1, LookupGives
    <3>3. PoolAlloc(pools[new]).num <= MaxObjects
      BY <2>1, <3>1, <3>2, NextFits
    <3>4. PoolFree(pools[k], table[h - 1].index).num <= MaxObjects
      BY <2>1, <3>1, FreeShrinks
    <3>5. pools' = [pools EXCEPT ![k] = PoolFree(@, table[h - 1].index),
                                 ![new] = PoolAlloc(@)]
      BY <2>3, <3>2 DEF Complete
    <3>6. QED
      BY <2>1, <3>1, <3>3, <3>4, <3>5
  <2>4. ASSUME NEW h \in 1 .. MaxObjects, NEW d \in Data, Write(h, d)
        PROVE  Bounded'
    BY <2>4 DEF Write
  <2>5. ASSUME NEW h \in 1 .. MaxObjects, NEW u \in UserData, SetUserData(h, u)
        PROVE  Bounded'
    BY <2>5 DEF SetUserData
  <2>6. ASSUME NEW h \in 1 .. MaxObjects, NEW k \in Destroyable, Lookup(h, k), Destroy(h)
        PROVE  Bounded'
    <3>1. k \in Kinds
      BY DEF Destroyable
    <3>2. table[h - 1].kind = k
      BY <2>6 DEF Lookup
    <3>3. PoolFree(pools[k], table[h - 1].index).num <= MaxObjects
      BY <2>1, <3>1, FreeShrinks
    <3>4. pools' = [pools EXCEPT ![k] = PoolFree(@, table[h - 1].index)]
      BY <2>6, <3>2 DEF Destroy
    <3>5. QED
      BY <2>1, <3>1, <3>3, <3>4
  <2>7. CASE Deinit
    BY <2>7, PincObjectsAssumption DEF Deinit, EmptyPool
  <2>8. CASE UNCHANGED vars
    BY <2>8 DEF vars
  <2>9. QED
    BY <2>2, <2>3, <2>4, <2>5, <2>6, <2>7, <2>8 DEF Next
<1>3. QED
  BY <1>1, <1>2, ObjectsInvariant, PTL DEF Spec

-----------------------------------------------------------------------------
(* The object in slot s as its handle shows it. *)
Object(s) ==
  [kind |-> table[s].kind,
   data |-> store[table[s].kind][table[s].index],
   userData |-> table[s].userData]

(* The map has the handles of live slots, and nothing else. *)
LEMMA MapObjects ==
  /\ \A s \in Slots : s + 1 \in DOMAIN map <=> s \in Live
  /\ \A h \in DOMAIN map : h - 1 \in Live /\ h = (h - 1) + 1
  /\ \A s \in Live : map[s + 1] = Object(s)
  /\ map = [h \in DOMAIN map |-> map[h]]
<1>1. MaxObjects \in Nat
  BY PincObjectsAssumption
<1>2. \A s \in Slots : s \in Int /\ (s + 1) - 1 = s
  BY <1>1 DEF Slots
<1>3. Live \subseteq Slots
  BY DEF Live
<1>4. DOMAIN map = {s + 1 : s \in Live}
  BY DEF map
<1>5. \A h \in DOMAIN map : h - 1 \in Live /\ h = (h - 1) + 1
  BY <1>2, <1>3, <1>4
<1>6. \A s \in Slots : s + 1 \in DOMAIN map <=> s \in Live
  BY <1>2, <1>3, <1>4
<1>7. \A s \in Live : map[s + 1] = Object(s)
  <2> SUFFICES ASSUME NEW s \in Live PROVE map[s + 1] = Object(s)
    OBVIOUS
  <2>1. s + 1 \in {r + 1 : r \in Live} /\ (s + 1) - 1 = s
    BY <1>2, <1>3
  <2>2. QED
    BY <2>1 DEF map, Object
<1>8. map = [h \in DOMAIN map |-> map[h]]
  BY DEF map
<1>9. QED
  BY <1>5, <1>6, <1>7, <1>8

(* The same of the next state. *)
LEMMA MapObjectsNext ==
  (/\ \A s \in Slots : s + 1 \in DOMAIN map <=> s \in Live
   /\ \A h \in DOMAIN map : h - 1 \in Live /\ h = (h - 1) + 1
   /\ \A s \in Live : map[s + 1] = Object(s)
   /\ map = [h \in DOMAIN map |-> map[h]])'
  BY MapObjects, PTL

(* A step that leaves every object but that in slot s alone changes the    *)
(* map at s + 1 only.                                                      *)
LEMMA MapChangesAt ==
  ASSUME NEW s \in Slots,
         \A r \in Slots \ {s} : table'[r] = table[r],
         \A r \in Live \ {s} :
           store'[table[r].kind][table[r].index] = store[table[r].kind][table[r].index]
  PROVE  /\ DOMAIN map' \ {s + 1} = DOMAIN map \ {s + 1}
         /\ \A h \in DOMAIN map \ {s + 1} : map'[h] = map[h]
<1>1. Live' \ {s} = Live \ {s} /\ Live \subseteq Slots
  BY DEF Live
<1>2. \A r \in Live \ {s} : Object(r)' = Object(r)
  BY <1>1 DEF Object
<1>3. \A h \in DOMAIN map \ {s + 1} : h - 1 \in Live \ {s} /\ h = (h - 1) + 1
  BY MapObjects
<1>4. \A h \in DOMAIN map' \ {s + 1} : h - 1 \in Live' \ {s} /\ h = (h - 1) + 1
  BY MapObjectsNext
<1>5. DOMAIN map' \ {s + 1} = DOMAIN map \ {s + 1}
  BY <1>1, <1>3, <1>4, MapObjects, MapObjectsNext
<1>6. ASSUME NEW h \in DOMAIN map \ {s + 1} PROVE map'[h] = map[h]
  <2>1. h - 1 \in Live \ {s} /\ h - 1 \in Live' /\ h = (h - 1) + 1
    BY <1>1, <1>3
  <2>2. map[h] = Object(h - 1) /\ map'[h] = Object(h - 1)'
    BY <2>1, MapObjects, MapObjectsNext
  <2>3. QED
    BY <1>2, <2>1, <2>2
<1>7. QED
  BY <1>5, <1>6

(* Where the contents of objects lie: in slots of their own. *)
Apart ==
  /\ \A s \in Live : table[s].kind \in Kinds /\ table[s].index \in Slots
  /\ \A r, s \in Live :
       table[r].kind = table[s].kind /\ table[r].index = table[s].index => r = s

(* The indices of live objects are apart. *)
LEMMA IndicesApart == IInv /\ Bounded => Apart
<1> SUFFICES ASSUME IInv, Bounded PROVE Apart
  OBVIOUS
<1>1. /\ table \in Tables /\ pools \in [Kinds -> Pools]
      /\ \A k \in Kinds : PoolOwned(table, pools[k], k)
  BY Invariant DEF TypeOK, Tables
<1>2. \A s \in Live : s \in Slots /\ table[s].kind \in Kinds
  BY <1>1 DEF Live, Tables, Entries
<1>3. ASSUME NEW s \in Live PROVE table[s].index \in Slots
  <2> DEFINE k == table[s].kind
  <2>1. k \in Kinds /\ table[s].index \in UsedBy(table, k)
    BY <1>2 DEF UsedBy
  <2>2. UsedBy(table, k) \subseteq 0 .. (pools[k].num - 1)
    BY <1>1, <2>1 DEF PoolOwned, Partitioned
  <2>3. pools[k].num \in Nat /\ pools[k].num <= MaxObjects /\ MaxObjects \in Nat
    BY <1>1, <2>1, PincObjectsAssumption DEF Pools, Bounded
  <2>4. QED
    BY <2>1, <2>2, <2>3 DEF Slots
<1>4. \A r, s \in Live :
        table[r].kind = table[s].kind /\ table[r].index = table[s].index => r = s
  BY <1>1, <1>2 DEF PoolOwned
<1>5. QED
  BY <1>2, <1>3, <1>4 DEF Apart

(* The same of the next state. *)
LEMMA IndicesApartNext == (IInv /\ Bounded => Apart)'
  BY IndicesApart, PTL

(* An assignment to one slot of one kind's array. *)
LEMMA StoreUpdate ==
  ASSUME NEW V, NEW f \in [Kinds -> [Slots -> V]],
         NEW k \in Kinds, NEW i \in Slots, NEW d,
         NEW g, g = [f EXCEPT ![k][i] = d]
  PROVE  \A j \in Kinds, n \in Slots :
           g[j][n] = IF j = k /\ n = i THEN d ELSE f[j][n]
  OBVIOUS

(* Creating an object takes a handle that names nothing. *)
LEMMA CreateImplements ==
  ASSUME IInv, IInv', Bounded, Bounded',
         NEW k \in Creatable, NEW d \in Data, Create(k, d)
  PROVE  Abstract!Create
<1> SUFFICES ASSUME NEW s, s = NextSlot(objects),
                    NEW index, index = NextSlot(pools[k])
             PROVE  Abstract!Create
  OBVIOUS
<1> DEFINE new == [kind |-> k, data |-> d, userData |-> NoUserData]
<1>1. k \in Kinds
  BY PincObjectsAssumption DEF Kinds
<1>2. /\ s \in Nat /\ s \notin Live /\ s < MaxObjects
  BY AllocPartitioned DEF IInv, TypeOK, HandlesOwnSlots, Create
<1>3. s \in Slots /\ s + 1 \in 1 .. MaxObjects
  BY <1>2, PincObjectsAssumption DEF Slots
<1>4. /\ table' = [table EXCEPT ![s] =
                     [kind |-> k, index |-> index, userData |-> NoUserData]]
      /\ store' = [store EXCEPT ![k][index] = d]
  BY DEF Create
<1>5. /\ table \in Tables /\ store \in [Kinds -> [Slots -> Data \cup {Stale}]]
  BY DEF IInv, TypeOK, Tables
<1>6. /\ table'[s] = [kind |-> k, index |-> index, userData |-> NoUserData]
      /\ \A r \in Slots \ {s} : table'[r] = table[r]
  BY <1>3, <1>4, <1>5 DEF Tables
<1>7. s \in Live' /\ \A r \in Live : r \in Live' \ {s}
  <2>1. table'[s].kind # "none"
    BY <1>1, <1>6 DEF Kinds
  <2>2. s \in Live'
    BY <1>3, <2>1 DEF Live
  <2>3. ASSUME NEW r \in Live PROVE r \in Live' /\ r # s
    BY <1>2, <1>6 DEF Live
  <2>4. QED
    BY <2>2, <2>3
<1>8. index \in Slots
  BY <1>6, <1>7, IndicesApartNext DEF Apart
<1>9. \A j \in Kinds, n \in Slots :
        store'[j][n] = IF j = k /\ n = index THEN d ELSE store[j][n]
  BY <1>1, <1>4, <1>5, <1>8, StoreUpdate
<1>10. ASSUME NEW r \in Live \ {s}
       PROVE  store'[table[r].kind][table[r].index] = store[table[r].kind][table[r].index]
  <2>1. table'[r] = table[r] /\ r \in Live' /\ r # s
    BY <1>6, <1>7 DEF Live
  <2>2. ~(table[r].kind = k /\ table[r].index = index)
    BY <1>6, <1>7, <2>1, IndicesApartNext DEF Apart
  <2>3. table[r].kind \in Kinds /\ table[r].index \in Slots
    BY IndicesApart DEF Apart
  <2>4. QED
    BY <1>9, <2>2, <2>3
<1>11. /\ DOMAIN map' \ {s + 1} = DOMAIN map \ {s + 1}
       /\ \A h \in DOMAIN map \ {s + 1} : map'[h] = map[h]
  BY <1>3, <1>6, <1>10, MapChangesAt
<1>12. s + 1 \notin DOMAIN map /\ s + 1 \in DOMAIN map'
  BY <1>2, <1>3, <1>7, MapObjects, MapObjectsNext
<1>13. map'[s + 1] = new
  <2>1. map'[s + 1] = Object(s)'
    BY <1>7, MapObjectsNext
  <2>2. Object(s)' = new
    BY <1>1, <1>6, <1>8, <1>9 DEF Object
  <2>3. QED
    BY <2>1, <2>2
<1>14. map' = [h \in DOMAIN map' |-> map'[h]]
  BY MapObjectsNext
<1>15. map' = [x \in DOMAIN map \cup {s + 1} |-> IF x = s + 1 THEN new ELSE map[x]]
  BY <1>11, <1>12, <1>13, <1>14
<1>16. QED
  BY <1>1, <1>3, <1>12, <1>15 DEF Abstract!Create

(* Completing an object keeps its handle and its user data. *)
LEMMA CompleteImplements ==
  ASSUME IInv, IInv', Bounded, Bounded', NEW h \in 1 .. MaxObjects, NEW d \in Data,
         NEW k \in {"incompleteWindow", "incompleteGlContext"}, Lookup(h, k),
         Complete(h, d)
  PROVE  Abstract!Complete
<1> SUFFICES ASSUME NEW s, s = h - 1, NEW old, old = table[s].index,
                    NEW u, u = table[s].userData, NEW new, new = Completed[k],
                    NEW index, index = NextSlot(pools[new])
             PROVE  Abstract!Complete
  OBVIOUS
<1>1. k \in Kinds /\ new \in Kinds /\ new # k
  BY DEF Kinds, Completed
<1>2. s \in Slots /\ s \in Live /\ table[s].kind = k /\ h = s + 1
  BY <1>1, LookupGives
<1>3. /\ table' = [table EXCEPT ![s] = [kind |-> new, index |-> index, userData |-> u]]
      /\ store' = [store EXCEPT ![k][old] = Stale, ![new][index] = d]
  BY <1>2 DEF Complete
<1>4. /\ table \in Tables /\ store \in [Kinds -> [Slots -> Data \cup {Stale}]]
  BY DEF IInv, TypeOK, Tables
<1>5. /\ table'[s] = [kind |-> new, index |-> index, userData |-> u]
      /\ \A r \in Slots \ {s} : table'[r] = table[r]
  BY <1>2, <1>3, <1>4 DEF Tables
<1>6. Live' = Live
  BY <1>1, <1>2, <1>5 DEF Live, Kinds
<1>7. index \in Slots /\ old \in Slots
  BY <1>2, <1>5, <1>6, IndicesApart, IndicesApartNext DEF Apart
<1>8. \A j \in Kinds, n \in Slots :
        store'[j][n] = IF j = new /\ n = index THEN d
                       ELSE IF j = k /\ n = old THEN Stale ELSE store[j][n]
  BY <1>1, <1>3, <1>4, <1>7
<1>9. ASSUME NEW r \in Live \ {s}
      PROVE  store'[table[r].kind][table[r].index] = store[table[r].kind][table[r].index]
  <2>1. table'[r] = table[r] /\ r \in Live' /\ r # s
    BY <1>5, <1>6 DEF Live
  <2>2. ~(table[r].kind = new /\ table[r].index = index)
    <3>1. s \in Live' /\ table'[s].kind = new /\ table'[s].index = index
      BY <1>2, <1>5, <1>6
    <3>2. ~(table'[r].kind = table'[s].kind /\ table'[r].index = table'[s].index)
      BY <2>1, <3>1, IndicesApartNext DEF Apart
    <3>3. QED
      BY <2>1, <3>1, <3>2
  <2>3. ~(table[r].kind = k /\ table[r].index = old)
    BY <1>2, <2>1, IndicesApart DEF Apart
  <2>4. table[r].kind \in Kinds /\ table[r].index \in Slots
    BY IndicesApart DEF Apart
  <2>5. QED
    BY <1>8, <2>2, <2>3, <2>4
<1>10. /\ DOMAIN map' \ {h} = DOMAIN map \ {h}
       /\ \A x \in DOMAIN map \ {h} : map'[x] = map[x]
  BY <1>2, <1>5, <1>9, MapChangesAt
<1>11. h \in DOMAIN map /\ h \in DOMAIN map'
  BY <1>2, <1>6, MapObjects, MapObjectsNext
<1>12. map[h].kind = k /\ map[h].userData = u
  <2>1. map[h] = Object(s)
    BY <1>2, MapObjects
  <2>2. Object(s).kind = k /\ Object(s).userData = u
    BY <1>2 DEF Object
  <2>3. QED
    BY <2>1, <2>2
<1>13. map'[h] = [kind |-> new, data |-> d, userData |-> u]
  <2>1. map'[h] = Object(s)'
    BY <1>2, <1>6, MapObjectsNext
  <2>2. store'[new][index] = d
    BY <1>1, <1>7, <1>8
  <2>3. table'[s].kind = new /\ table'[s].index = index /\ table'[s].userData = u
    BY <1>5
  <2>4. Object(s)' = [kind |-> new, data |-> d, userData |-> u]
    BY <2>2, <2>3 DEF Object
  <2>5. QED
    BY <2>1, <2>4
<1>14. /\ map = [x \in DOMAIN map |-> map[x]]
       /\ map' = [x \in DOMAIN map' |-> map'[x]]
  BY MapObjects, MapObjectsNext
<1>15. map' = [map EXCEPT ![h] = [kind |-> Completed[map[h].kind], data |-> d,
                                  userData |-> map[h].userData]]
  BY <1>10, <1>11, <1>12, <1>13, <1>14
<1>16. QED
  BY <1>1, <1>11, <1>12, <1>15 DEF Abstract!Complete

(* Writing to an object changes its contents only. *)
LEMMA WriteImplements ==
  ASSUME IInv, IInv', Bounded, NEW h \in 1 .. MaxObjects, NEW d \in Data,
         NEW k \in Kinds, Lookup(h, k), Write(h, d)
  PROVE  Abstract!Write
<1> SUFFICES ASSUME NEW s, s = h - 1, NEW index, index = table[s].index
             PROVE  Abstract!Write
  OBVIOUS
<1>1. s \in Slots /\ s \in Live /\ table[s].kind = k /\ h = s + 1
  BY LookupGives
<1>2. /\ table' = table
      /\ store' = [store EXCEPT ![k][index] = d]
      /\ store \in [Kinds -> [Slots -> Data \cup {Stale}]]
  BY <1>1 DEF Write, IInv, TypeOK
<1>3. index \in Slots
  BY <1>1, IndicesApart DEF Apart
<1>4. \A j \in Kinds, n \in Slots :
        store'[j][n] = IF j = k /\ n = index THEN d ELSE store[j][n]
  BY <1>2, <1>3, StoreUpdate
<1>5. \A r \in Live \ {s} :
        store'[table[r].kind][table[r].index] = store[table[r].kind][table[r].index]
  <2> SUFFICES ASSUME NEW r \in Live \ {s}
               PROVE  store'[table[r].kind][table[r].index]
                        = store[table[r].kind][table[r].index]
    OBVIOUS
  <2>1. ~(table[r].kind = k /\ table[r].index = index)
    BY <1>1, IndicesApart DEF Apart
  <2>2. table[r].kind \in Kinds /\ table[r].index \in Slots
    BY IndicesApart DEF Apart
  <2>3. QED
    BY <1>4, <2>1, <2>2
<1>6. /\ DOMAIN map' \ {h} = DOMAIN map \ {h}
      /\ \A x \in DOMAIN map \ {h} : map'[x] = map[x]
  BY <1>1, <1>2, <1>5, MapChangesAt
<1>7. Live' = Live
  BY <1>2 DEF Live
<1>8. h \in DOMAIN map /\ h \in DOMAIN map'
  BY <1>1, <1>7, MapObjects, MapObjectsNext
<1>9. map[h] = Object(s) /\ map'[h] = Object(s)'
  BY <1>1, <1>7, MapObjects, MapObjectsNext
<1>10. map'[h] = [kind |-> map[h].kind, data |-> d, userData |-> map[h].userData]
  BY <1>1, <1>2, <1>3, <1>4, <1>9 DEF Object
<1>11. /\ map = [x \in DOMAIN map |-> map[x]]
       /\ map' = [x \in DOMAIN map' |-> map'[x]]
  BY MapObjects, MapObjectsNext
<1>12. map' = [map EXCEPT ![h] = [kind |-> map[h].kind, data |-> d,
                                  userData |-> map[h].userData]]
  BY <1>6, <1>8, <1>10, <1>11
<1>13. QED
  BY <1>8, <1>12 DEF Abstract!Write

(* The user data of one object changes, and nothing else. *)
LEMMA SetUserDataImplements ==
  ASSUME IInv, NEW h \in 1 .. MaxObjects, NEW u \in UserData, SetUserData(h, u)
  PROVE  Abstract!SetUserData
<1> SUFFICES ASSUME NEW s, s = h - 1
             PROVE  Abstract!SetUserData
  OBVIOUS
<1>1. s \in Slots /\ s \in Live /\ h = s + 1
  BY PincObjectsAssumption DEF SetUserData, Slots, Live
<1>2. /\ table' = [table EXCEPT ![s].userData = u] /\ store' = store
      /\ table \in [Slots -> Entries]
  BY DEF SetUserData, IInv, TypeOK
<1>3. /\ table'[s].kind = table[s].kind /\ table'[s].index = table[s].index
      /\ table'[s].userData = u
      /\ \A r \in Slots \ {s} : table'[r] = table[r]
  BY <1>1, <1>2 DEF Entries
<1>4. /\ DOMAIN map' \ {h} = DOMAIN map \ {h}
      /\ \A x \in DOMAIN map \ {h} : map'[x] = map[x]
  BY <1>1, <1>2, <1>3, MapChangesAt
<1>5. s \in Live'
  BY <1>1, <1>3 DEF Live
<1>6. h \in DOMAIN map /\ h \in DOMAIN map'
  BY <1>1, <1>5, MapObjects, MapObjectsNext
<1>7. map[h] = Object(s) /\ map'[h] = Object(s)'
  BY <1>1, <1>5, MapObjects, MapObjectsNext
<1>8. map'[h] = [kind |-> map[h].kind, data |-> map[h].data, userData |-> u]
  BY <1>2, <1>3, <1>7 DEF Object
<1>9. /\ map = [x \in DOMAIN map |-> map[x]]
      /\ map' = [x \in DOMAIN map' |-> map'[x]]
  BY MapObjects, MapObjectsNext
<1>10. map' = [map EXCEPT ![h] = [kind |-> map[h].kind, data |-> map[h].data,
                                  userData |-> u]]
  BY <1>4, <1>6, <1>8, <1>9
<1>11. QED
  BY <1>6, <1>10 DEF Abstract!SetUserData

(* The handle of a destroyed object names nothing, the others what they    *)
(* named.                                                                  *)
LEMMA DestroyImplements ==
  ASSUME IInv, IInv', Bounded, NEW h \in 1 .. MaxObjects, NEW k \in Kinds,
         Lookup(h, k), Destroy(h)
  PROVE  Abstract!Destroy
<1> SUFFICES ASSUME NEW s, s = h - 1, NEW index, index = table[s].index
             PROVE  Abstract!Destroy
  OBVIOUS
<1>1. s \in Slots /\ s \in Live /\ table[s].kind = k /\ h = s + 1
  BY LookupGives
<1>2. /\ table' = [table EXCEPT ![s] = NoObject]
      /\ store' = [store EXCEPT ![k][index] = Stale]
      /\ table \in Tables /\ store \in [Kinds -> [Slots -> Data \cup {Stale}]]
  BY <1>1 DEF Destroy, IInv, TypeOK, Tables
<1>3. /\ table'[s] = NoObject
      /\ \A r \in Slots \ {s} : table'[r] = table[r]
  BY <1>1, <1>2 DEF Tables
<1>4. index \in Slots
  BY <1>1, IndicesApart DEF Apart
<1>5. \A j \in Kinds, n \in Slots :
        store'[j][n] = IF j = k /\ n = index THEN Stale ELSE store[j][n]
  BY <1>2, <1>4, StoreUpdate
<1>6. ASSUME NEW r \in Live \ {s}
      PROVE  store'[table[r].kind][table[r].index] = store[table[r].kind][table[r].index]
  <2>1. ~(table[r].kind = k /\ table[r].index = index)
    BY <1>1, IndicesApart DEF Apart
  <2>2. table[r].kind \in Kinds /\ table[r].index \in Slots
    BY IndicesApart DEF Apart
  <2>3. QED
    BY <1>5, <2>1, <2>2
<1>7. /\ DOMAIN map' \ {h} = DOMAIN map \ {h}
      /\ \A x \in DOMAIN map \ {h} : map'[x] = map[x]
  BY <1>1, <1>3, <1>6, MapChangesAt
<1>8. s \notin Live'
  BY <1>3 DEF Live, NoObject
<1>9. h \in DOMAIN map /\ h \notin DOMAIN map'
  BY <1>1, <1>8, MapObjects, MapObjectsNext
<1>10. map' = [x \in DOMAIN map' |-> map'[x]]
  BY MapObjectsNext
<1>11. map' = [x \in DOMAIN map \ {h} |-> map[x]]
  BY <1>7, <1>9, <1>10
<1>12. QED
  BY <1>9, <1>11 DEF Abstract!Destroy

(* Without objects the map is empty. *)
LEMMA EmptyMap == NoObjects => map = [h \in {} |-> NoUserData]
<1> SUFFICES ASSUME NoObjects PROVE map = [h \in {} |-> NoUserData]
  OBVIOUS
<1>1. Live = {}
  BY DEF NoObjects, Live, NoObject
<1>2. DOMAIN map = {}
  BY <1>1, MapObjects
<1>3. map = [h \in DOMAIN map |-> map[h]]
  BY MapObjects
<1>4. QED
  BY <1>2, <1>3

(* The same of the next state. *)
LEMMA EmptyMapNext == (NoObjects => map = [h \in {} |-> NoUserData])'
  BY EmptyMap, PTL

(* The object pool and the pools of the five kinds implement one map from  *)
(* handles to objects.                                                     *)
THEOREM ObjectsImplementHandleMap == Spec => ImplementsHandleMap
<1>1. Init => Abstract!Init
  BY EmptyMap DEF Init, NoObjects, Abstract!Init
<1>2. IInv /\ IInv' /\ Bounded /\ Bounded' /\ [Next]_vars => [Abstract!Next]_map
  <2> SUFFICES ASSUME IInv, IInv', Bounded, Bounded', [Next]_vars
               PROVE  [Abstract!Next]_map
    OBVIOUS
  <2>1. ASSUME NEW k \in Creatable, NEW d \in Data, Create(k, d)
        PROVE  Abstract!Next
    BY <2>1, CreateImplements DEF Abstract!Next
  <2>2. ASSUME NEW h \in 1 .. MaxObjects, NEW d \in Data,
               NEW k \in {"incompleteWindow", "incompleteGlContext"},
               Lookup(h, k), Complete(h, d)
        PROVE  Abstract!Next
    BY <2>2, CompleteImplements DEF Abstract!Next
  <2>3. ASSUME NEW h \in 1 .. MaxObjects, NEW d \in Data,
               NEW k \in {"incompleteWindow", "incompleteGlContext"},
               Lookup(h, k), Write(h, d)
        PROVE  Abstract!Next
    <3>1. k \in Kinds
      BY DEF Kinds
    <3>2. QED
      BY <2>3, <3>1, WriteImplements DEF Abstract!Next
  <2>4. ASSUME NEW h \in 1 .. MaxObjects, NEW u \in UserData, SetUserData(h, u)
        PROVE  Abstract!Next
    BY <2>4, SetUserDataImplements DEF Abstract!Next
  <2>5. ASSUME NEW h \in 1 .. MaxObjects, NEW k \in Destroyable, Lookup(h, k), Destroy(h)
        PROVE  Abstract!Next
    <3>1. k \in Kinds
      BY DEF Destroyable
    <3>2. QED
      BY <2>5, <3>1, DestroyImplements DEF Abstract!Next
  <2>6. CASE Deinit
    <3>1. NoObjects'
      BY <2>6 DEF Deinit, NoObjects
    <3>2. map' = [h \in {} |-> NoUserData]
      BY <3>1, EmptyMapNext
    <3>3. QED
      BY <3>2 DEF Abstract!Next, Abstract!Clear
  <2>7. CASE UNCHANGED vars
    BY <2>7 DEF vars, map, Live
  <2>8. QED
    BY <2>1, <2>2, <2>3, <2>4, <2>5, <2>6, <2>7 DEF Next
<1>3. QED
  BY <1>1, <1>2, ObjectsInvariant, PoolsBounded, PTL
  DEF Spec, ImplementsHandleMap, Abstract!Spec
=============================================================================
