--------------------------- MODULE PincPoolProofs ---------------------------
(***************************************************************************)
(* The invariants of PincPool and its refinement of IndexAllocator, for    *)
(* every initial capacity, element size and bound; then the search through *)
(* one pool, that of the raw OpenGL contexts (PincGlContexts).             *)
(***************************************************************************)
EXTENDS PincPool, PincGlContexts, PoolOpsProofs

LEMMA InitIInv == Init => IInv
<1> SUFFICES ASSUME Init PROVE IInv
  OBVIOUS
<1> USE DEF Init
<1>1. pool \in Pools /\ SlotsPartitioned /\ Fits(pool)
  BY EmptyPoolPartitioned DEF SlotsPartitioned
<1>2. TypeOK
  BY <1>1 DEF TypeOK
<1>3. HeapMatches
  BY PincPoolAssumption DEF HeapMatches, EmptyPool, Arrays
<1>4. BoundedFootprint
  BY PincPoolAssumption, FirstCapacityAssumption DEF BoundedFootprint, EmptyPool
<1>5. QED
  BY <1>1, <1>2, <1>3, <1>4 DEF IInv, ReallocSizesExact

(* Growing one array keeps the other's block and passes the right size on. *)
LEMMA GrowArrayMatches ==
  ASSUME IInv, NEW array \in Arrays, NEW from \in Nat, NEW to \in Nat,
         heap[array] = ElementSize * from, GrowArray(array, from, to)
  PROVE  /\ heap' \in [Arrays -> Nat]
         /\ heap'[array] = ElementSize * to
         /\ \A other \in Arrays \ {array} : heap'[other] = heap[other]
         /\ badSize' = badSize
<1>1. heap \in [Arrays -> Nat]
  BY DEF IInv, TypeOK
<1>2. CASE from = to
  BY <1>1, <1>2 DEF GrowArray
<1>3. CASE from # to
  <2>1. heap' = [heap EXCEPT ![array] = ElementSize * to] /\ badSize' = badSize
    BY <1>3 DEF GrowArray
  <2>2. ElementSize * to \in Nat
    BY PincPoolAssumption
  <2>3. QED
    BY <1>1, <2>1, <2>2
<1>4. QED
  BY <1>2, <1>3

(* The callers hold at most MaxLive slots, so a pool with an empty free    *)
(* list has room for a new slot within the bound.                          *)
LEMMA AllocBounded ==
  ASSUME IInv, Alloc
  PROVE  BoundedFootprint'
<1>1. pool \in Pools /\ Partitioned(pool, live) /\ Fits(pool)
  BY DEF IInv, TypeOK, SlotsPartitioned
<1>2. pool.num \in Nat /\ pool.capacity \in Nat /\ pool.freeCapacity \in Nat
  BY <1>1 DEF Pools
<1>3. pool'.num <= MaxLive
  <2>1. CASE pool.freeList # << >>
    BY <2>1 DEF Alloc, PoolAlloc, IInv, BoundedFootprint
  <2>2. CASE pool.freeList = << >>
    <3>1. live = 0 .. (pool.num - 1)
      <4>1. Range(pool.freeList) = {}
        BY <2>2 DEF Range
      <4>2. QED
        BY <1>1, <4>1 DEF Partitioned, FreeSlots
    <3>2. Cardinality(live) = pool.num
      BY <1>2, <3>1, SlotCount
    <3>3. QED
      BY <1>2, <2>2, <3>2, PincPoolAssumption DEF Alloc, PoolAlloc
  <2>3. QED
    BY <2>1, <2>2
<1>4. pool'.capacity <= FirstCapacity \/ pool'.capacity <= 2 * MaxLive
  BY <1>2, PincPoolAssumption, FirstCapacityAssumption
  DEF Alloc, PoolAlloc, Grown, IInv, BoundedFootprint
<1>5. pool'.freeCapacity = pool.freeCapacity
  BY DEF Alloc, PoolAlloc
<1>6. QED
  BY <1>3, <1>4, <1>5 DEF IInv, BoundedFootprint

LEMMA AllocIInv ==
  ASSUME IInv, Alloc
  PROVE  IInv'
<1>1. pool \in Pools /\ Partitioned(pool, live) /\ Fits(pool)
  BY DEF IInv, TypeOK, SlotsPartitioned
<1>2. pool' = PoolAlloc(pool) /\ live' = live \cup {NextSlot(pool)}
  BY DEF Alloc
<1>3. /\ NextSlot(pool) \in Nat
      /\ PoolAlloc(pool) \in Pools
      /\ Partitioned(PoolAlloc(pool), live \cup {NextSlot(pool)})
      /\ Fits(PoolAlloc(pool))
  BY <1>1, AllocPartitioned
<1>4. pool' \in Pools /\ SlotsPartitioned' /\ Fits(pool')
  BY <1>2, <1>3 DEF SlotsPartitioned
<1>5. /\ heap' \in [Arrays -> Nat]
      /\ heap'["objects"] = ElementSize * pool'.capacity
      /\ heap'["free"] = heap["free"]
      /\ badSize' = badSize
  <2>1. pool.capacity \in Nat /\ pool'.capacity \in Nat
    BY <1>1, <1>4 DEF Pools
  <2>2. heap["objects"] = ElementSize * pool.capacity
    BY DEF IInv, HeapMatches
  <2>3. GrowArray("objects", pool.capacity, pool'.capacity)
    BY DEF Alloc
  <2>4. QED
    BY <2>1, <2>2, <2>3, GrowArrayMatches DEF Arrays
<1>6. pool'.freeCapacity = pool.freeCapacity
  BY <1>2 DEF PoolAlloc
<1>7. HeapMatches'
  BY <1>5, <1>6 DEF HeapMatches, IInv
<1>8. TypeOK'
  BY <1>2, <1>3, <1>4, <1>5 DEF IInv, TypeOK
<1>9. QED
  BY <1>4, <1>5, <1>7, <1>8, AllocBounded DEF IInv, ReallocSizesExact

LEMMA FreeIInv ==
  ASSUME IInv, NEW i \in live, Free(i)
  PROVE  IInv'
<1>1. pool \in Pools /\ Partitioned(pool, live) /\ Fits(pool)
  BY DEF IInv, TypeOK, SlotsPartitioned
<1>2. pool' = PoolFree(pool, i) /\ live' = live \ {i}
  BY DEF Free
<1>3. /\ PoolFree(pool, i) \in Pools
      /\ Partitioned(PoolFree(pool, i), live \ {i})
      /\ Fits(PoolFree(pool, i))
  BY <1>1, FreePartitioned
<1>4. pool' \in Pools /\ SlotsPartitioned' /\ Fits(pool')
  BY <1>2, <1>3 DEF SlotsPartitioned
<1>5. pool'.capacity = pool.capacity
  BY <1>1, <1>2 DEF PoolFree, Pools
<1>6. /\ heap' \in [Arrays -> Nat]
      /\ heap'["free"] = ElementSize * pool'.freeCapacity
      /\ heap'["objects"] = heap["objects"]
      /\ badSize' = badSize
  <2>1. pool.freeCapacity \in Nat /\ pool'.freeCapacity \in Nat
    BY <1>1, <1>4 DEF Pools
  <2>2. heap["free"] = ElementSize * pool.freeCapacity
    BY DEF IInv, HeapMatches
  <2>3. GrowArray("free", pool.freeCapacity, pool'.freeCapacity)
    BY DEF Free
  <2>4. QED
    BY <2>1, <2>2, <2>3, GrowArrayMatches DEF Arrays
<1>7. HeapMatches'
  BY <1>5, <1>6 DEF HeapMatches, IInv
<1>8. TypeOK'
  BY <1>2, <1>4, <1>6 DEF IInv, TypeOK
<1>9. BoundedFootprint'
  <2>1. /\ pool.num \in Nat /\ pool.freeCapacity \in Nat
        /\ Len(pool.freeList) \in Nat
    BY <1>1, LenProperties DEF Pools
  <2>2. Len(pool.freeList) <= pool.num
    BY <1>1, FreeListBounded
  <2>3. pool'.num <= pool.num
    BY <1>1, <1>2, <2>1 DEF PoolFree, Pools
  <2>4. \/ pool'.freeCapacity = pool.freeCapacity
        \/ /\ pool.freeCapacity = Len(pool.freeList)
           /\ pool'.freeCapacity = Grown(pool.freeCapacity)
    BY <1>1, <1>2 DEF PoolFree, Pools
  <2>5. Grown(pool.freeCapacity) = FirstCapacity
          \/ Grown(pool.freeCapacity) = 2 * pool.freeCapacity
    BY DEF Grown
  <2>6. pool.num <= MaxLive
    BY DEF IInv, BoundedFootprint
  <2>7. pool'.freeCapacity <= FirstCapacity \/ pool'.freeCapacity <= 2 * MaxLive
    BY <2>1, <2>2, <2>4, <2>5, <2>6, PincPoolAssumption, FirstCapacityAssumption
    DEF IInv, BoundedFootprint
  <2>8. pool'.num \in Nat
    BY <1>4 DEF Pools
  <2>9. QED
    BY <1>5, <2>1, <2>3, <2>6, <2>7, <2>8, PincPoolAssumption
    DEF IInv, BoundedFootprint
<1>10. QED
  BY <1>4, <1>6, <1>7, <1>8, <1>9 DEF IInv, ReallocSizesExact

LEMMA DeinitIInv ==
  ASSUME IInv, Deinit
  PROVE  IInv'
<1>1. /\ pool' = EmptyPool /\ live' = {} /\ heap' = [a \in Arrays |-> 0]
      /\ badSize' \in {badSize, badSize \cup {"free"}}
  BY DEF Deinit
<1>2. pool' \in Pools /\ SlotsPartitioned' /\ Fits(pool')
  BY <1>1, EmptyPoolPartitioned DEF SlotsPartitioned
<1>3. TypeOK'
  BY <1>1, <1>2 DEF IInv, TypeOK, SizedCalls
<1>4. HeapMatches'
  BY <1>1, PincPoolAssumption DEF HeapMatches, EmptyPool, Arrays
<1>5. BoundedFootprint'
  BY <1>1, PincPoolAssumption, FirstCapacityAssumption
  DEF BoundedFootprint, EmptyPool
<1>6. ReallocSizesExact'
  BY <1>1 DEF IInv, ReallocSizesExact
<1>7. QED
  BY <1>2, <1>3, <1>4, <1>5, <1>6 DEF IInv

(* Every call on the pool keeps the inductive invariant.                   *)
LEMMA NextIInv == IInv /\ [Next]_vars => IInv'
<1> SUFFICES ASSUME IInv, [Next]_vars PROVE IInv'
  OBVIOUS
<1>1. CASE Alloc
  BY <1>1, AllocIInv
<1>2. ASSUME NEW i \in live, Free(i) PROVE IInv'
  BY <1>2, FreeIInv
<1>3. CASE Deinit
  BY <1>3, DeinitIInv
<1>4. CASE UNCHANGED vars
  BY <1>4 DEF vars, IInv, TypeOK, SlotsPartitioned, HeapMatches,
              ReallocSizesExact, BoundedFootprint
<1>5. QED
  BY <1>1, <1>2, <1>3, <1>4 DEF Next

LEMMA InvariantIInv == Spec => []IInv
  BY InitIInv, NextIInv, PTL DEF Spec

-----------------------------------------------------------------------------
(* The fields of the pool, the slots handed out and the allocator's        *)
(* records always have their types.                                        *)
THEOREM TypeCorrect == Spec => []TypeOK
<1>1. IInv => TypeOK
  BY DEF IInv
<1>2. QED
  BY <1>1, InvariantIInv, PTL

(* PincPool_alloc and PincPool_free keep the slots divided into used and   *)
(* free ones: no slot is free twice, none is free and in use.              *)
THEOREM SlotsArePartitioned == Spec => []SlotsPartitioned
<1>1. IInv => SlotsPartitioned
  BY DEF IInv
<1>2. QED
  BY <1>1, InvariantIInv, PTL

(* The pool never makes more slots than were in use at once, and its two   *)
(* arrays stay within twice that, whatever is allocated and freed.         *)
THEOREM FootprintIsBounded == Spec => []BoundedFootprint
<1>1. IInv => BoundedFootprint
  BY DEF IInv
<1>2. QED
  BY <1>1, InvariantIInv, PTL

(* Every old size the pool passes to reallocate is the size of the block.  *)
THEOREM ReallocSizesAreExact == Spec => []ReallocSizesExact
<1>1. IInv => ReallocSizesExact
  BY DEF IInv
<1>2. QED
  BY <1>1, InvariantIInv, PTL

(* Every used slot and every free-list entry lies inside its array and     *)
(* inside the block the allocator holds for it.                            *)
THEOREM WritesAreInBounds == Spec => []WritesInBounds
<1>1. IInv => WritesInBounds
  <2> SUFFICES ASSUME IInv PROVE WritesInBounds
    OBVIOUS
  <2>1. /\ pool.num \in Nat /\ pool.capacity \in Nat /\ pool.freeCapacity \in Nat
        /\ Len(pool.freeList) \in Nat
    BY LenProperties DEF IInv, TypeOK, Pools
  <2>2. pool.num <= pool.capacity /\ Len(pool.freeList) <= pool.freeCapacity
    BY DEF IInv, Fits
  <2>3. live \subseteq 0 .. (pool.num - 1)
    BY DEF IInv, SlotsPartitioned, Partitioned
  <2>4. live \subseteq 0 .. (pool.capacity - 1)
    BY <2>1, <2>2, <2>3
  <2>5. ElementSize * pool.capacity <= heap["objects"]
    <3>1. ElementSize * pool.capacity \in Nat
      BY <2>1, PincPoolAssumption
    <3>2. QED
      BY <3>1 DEF IInv, HeapMatches
  <2>6. ASSUME ElementSize >= IndexSize
        PROVE  IndexSize * Len(pool.freeList) <= heap["free"]
    <3>1. \A a, b, m, n \in Nat : a <= b /\ m <= n => a * m <= b * n
      <4>1. \A a, b, m \in Nat : a <= b => a * m <= b * m
        OBVIOUS
      <4>2. \A b, m, n \in Nat : m <= n => b * m <= b * n
        OBVIOUS
      <4>3. \A a, b \in Nat : a * b \in Nat
        OBVIOUS
      <4>4. QED
        BY <4>1, <4>2, <4>3
    <3>2. heap["free"] = ElementSize * pool.freeCapacity
      BY DEF IInv, HeapMatches
    <3>3. QED
      BY <2>1, <2>2, <2>6, <3>1, <3>2, PincPoolAssumption
  <2>7. QED
    BY <2>2, <2>4, <2>5, <2>6 DEF WritesInBounds
<1>2. QED
  BY <1>1, InvariantIInv, PTL

(* The pool implements IndexAllocator over the indices below MaxLive: it   *)
(* hands out only slots that nobody holds, and reuses every freed one      *)
(* before it makes a slot beyond those in use.                             *)
THEOREM PoolImplementsIndexAllocator == Spec => ImplementsIndexAllocator
<1>1. Init => Abstract!Init
  BY DEF Init, Abstract!Init
<1>2. IInv /\ IInv' /\ [Next]_vars => [Abstract!Next]_live
  <2> SUFFICES ASSUME IInv, IInv', [Next]_vars
               PROVE  [Abstract!Next]_live
    OBVIOUS
  <2> USE DEF Abstract!Next
  <2>1. CASE Alloc
    <3>1. NextSlot(pool) \notin live
      BY AllocPartitioned DEF IInv, TypeOK, SlotsPartitioned
    <3>2. live' = live \cup {NextSlot(pool)}
      BY <2>1 DEF Alloc
    <3>3. live' \subseteq 0 .. (pool'.num - 1)
      BY DEF IInv, SlotsPartitioned, Partitioned
    <3>4. pool'.num \in Nat /\ pool'.num <= MaxLive
      BY DEF IInv, TypeOK, Pools, BoundedFootprint
    <3>5. NextSlot(pool) \in (0 .. (MaxLive - 1)) \ live
      BY <3>1, <3>2, <3>3, <3>4, PincPoolAssumption
    <3>6. QED
      BY <3>2, <3>5 DEF Abstract!Take
  <2>2. ASSUME NEW i \in live, Free(i) PROVE Abstract!Give
    BY <2>2 DEF Free, Abstract!Give
  <2>3. CASE Deinit
    BY <2>3 DEF Deinit, Abstract!Reset
  <2>4. CASE UNCHANGED vars
    BY <2>4 DEF vars
  <2>5. QED
    BY <2>1, <2>2, <2>3, <2>4 DEF Next
<1>3. QED
  BY <1>1, <1>2, InvariantIInv, PTL DEF Spec, ImplementsIndexAllocator, Abstract!Spec

-----------------------------------------------------------------------------
(* The larger of two numbers.                                              *)
LEMMA MaxOfTwo ==
  ASSUME NEW a \in Nat, NEW b \in Nat
  PROVE  Max({a, b}) \in {a, b} /\ a <= Max({a, b}) /\ b <= Max({a, b})
<1>1. \E x \in {a, b} : \A y \in {a, b} : y <= x
  BY DEF Max
<1>2. QED
  BY <1>1 DEF Max

(* A set of slots that is not empty has a least one.                       *)
LEMMA LeastSlot ==
  ASSUME NEW S \in SUBSET Nat, S # {}
  PROVE  Min(S) \in S /\ \A i \in S : Min(S) <= i
<1> DEFINE R == {r \in Nat \X Nat : r[1] < r[2]}
<1>1. IsWellFoundedOn(R, Nat)
  BY NatLessThanWellFounded DEF OpToRel
<1>2. PICK x \in S : \A y \in S : ~ (<<y, x>> \in R)
  <2> HIDE DEF R
  <2> QED
    BY <1>1, WFMin
<1>3. ASSUME NEW y \in S PROVE x <= y
  <2>1. x \in Nat /\ y \in Nat /\ <<y, x>> \notin R
    BY <1>2
  <2>2. <<y, x>> \in Nat \X Nat /\ <<y, x>>[1] = y /\ <<y, x>>[2] = x
    BY <2>1
  <2>3. ~ (y < x)
    BY <2>1, <2>2
  <2>4. QED
    BY <2>1, <2>3
<1>4. QED
  BY <1>3 DEF Min

(* No context is complete at first.                                        *)
LEMMA InitGlIInv == GlInit => GlIInv
<1> SUFFICES ASSUME GlInit PROVE GlIInv
  OBVIOUS
<1>1. Complete = {} /\ UsedSlots = {}
  BY DEF GlInit, Complete, UsedSlots
<1>2. Cardinality(Handles) \in Nat
  BY FS_CardinalityType, PincGlContextsAssumption
<1>3. contextPool \in Pools /\ Partitioned(contextPool, UsedSlots) /\ Fits(contextPool)
  BY <1>1, EmptyPoolPartitioned DEF GlInit
<1>4. ContextTypes
  BY <1>3 DEF GlInit, ContextTypes, Unused
<1>5. ContextsApart /\ CurrentIsComplete
  BY <1>1 DEF GlInit, ContextsApart, CurrentIsComplete
<1>9. LostApart
  BY DEF GlInit, LostApart
<1>6. SlotsCounted
  BY <1>1, <1>2, FS_EmptySet DEF GlInit, SlotsCounted, EmptyPool
<1>7. TwoContexts
  BY <1>1 DEF GlInit, TwoContexts, EmptyPool, FreeSlots, Range
<1>8. QED
  BY <1>3, <1>4, <1>5, <1>6, <1>7, <1>9 DEF GlIInv

(* What the proofs below use of the invariant.                             *)
LEMMA SlotsOfContexts ==
  ASSUME GlIInv
  PROVE  /\ \A h \in Complete : h \in Handles /\ index[h] \in UsedSlots
         /\ \A h \in Complete : index[h] \in 0 .. (contextPool.num - 1)
         /\ UsedSlots \subseteq 0 .. (contextPool.num - 1)
         /\ FreeSlots(contextPool) \subseteq 0 .. (contextPool.num - 1)
         /\ UsedSlots \cap FreeSlots(contextPool) = {}
         /\ 0 .. (contextPool.num - 1) \subseteq Slots
         /\ contextPool.num \in Nat /\ peak \in Nat /\ Cardinality(Handles) \in Nat
         /\ \A g, h \in Complete : index[g] = index[h] => g = h
<1>1. contextPool.num \in Nat /\ peak \in Nat
  BY DEF GlIInv, ContextTypes, Pools
<1>2. Cardinality(Handles) \in Nat
  BY FS_CardinalityType, PincGlContextsAssumption
<1>3. contextPool.num <= Cardinality(Handles)
  BY <1>1, <1>2 DEF GlIInv, SlotsCounted
<1>4. 0 .. (contextPool.num - 1) \subseteq Slots
  BY <1>1, <1>2, <1>3 DEF Slots
<1>5. \A h \in Complete : h \in Handles /\ index[h] \in UsedSlots
  BY DEF Complete, UsedSlots
<1>6. /\ UsedSlots \subseteq 0 .. (contextPool.num - 1)
      /\ FreeSlots(contextPool) \subseteq 0 .. (contextPool.num - 1)
      /\ UsedSlots \cap FreeSlots(contextPool) = {}
  BY DEF GlIInv, Partitioned
<1>7. \A g, h \in Complete : index[g] = index[h] => g = h
  BY DEF GlIInv, ContextsApart
<1>8. QED
  BY <1>1, <1>2, <1>4, <1>5, <1>6, <1>7

(* As many slots are used as there are complete contexts.                  *)
LEMMA UsedSlotsCount ==
  ASSUME GlIInv
  PROVE  /\ IsFiniteSet(Complete) /\ Cardinality(Complete) \in Nat
         /\ contextPool.freeList = << >> => contextPool.num = Cardinality(Complete)
<1>1. IsFiniteSet(Complete)
  BY FS_Subset, PincGlContextsAssumption DEF Complete
<1>2. Cardinality(Complete) \in Nat
  BY <1>1, FS_CardinalityType
<1>3. ASSUME contextPool.freeList = << >>
      PROVE  contextPool.num = Cardinality(Complete)
  <2> DEFINE S == 0 .. (contextPool.num - 1)
             f == [h \in Complete |-> index[h]]
  <2>1. FreeSlots(contextPool) = {}
    BY <1>3 DEF FreeSlots, Range
  <2>2. UsedSlots = S
    BY <2>1 DEF GlIInv, Partitioned
  <2>3. f \in [Complete -> S]
    BY <2>2, SlotsOfContexts
  <2>4. f \in Injection(Complete, S)
    BY <2>3, SlotsOfContexts DEF Injection, IsInjective
  <2>5. \A i \in S : \E h \in Complete : f[h] = i
    BY <2>2 DEF UsedSlots
  <2>6. f \in Surjection(Complete, S)
    BY <2>3, <2>5 DEF Surjection
  <2>7. IsFiniteSet(S) /\ Cardinality(S) = contextPool.num
    BY SlotsOfContexts, SlotCount
  <2> HIDE DEF f, S
  <2>8. Cardinality(Complete) = Cardinality(S)
    BY <2>4, <2>6, <2>7, FS_Injection
  <2>9. QED
    BY <2>7, <2>8
<1>4. QED
  BY <1>1, <1>2, <1>3

(* A context that is not complete leaves room for its slot.                *)
LEMMA RoomForContext ==
  ASSUME GlIInv, NEW h \in Handles, kind[h] = "incomplete"
  PROVE  /\ h \notin Complete
         /\ Cardinality(Complete) < Cardinality(Handles)
         /\ Cardinality(Complete \cup {h}) = Cardinality(Complete) + 1
<1>1. h \notin Complete
  BY DEF Complete
<1>2. IsFiniteSet(Complete) /\ Cardinality(Complete) \in Nat
  BY UsedSlotsCount
<1>3. Cardinality(Complete \cup {h}) = Cardinality(Complete) + 1
  BY <1>1, <1>2, FS_AddElement
<1>4. Complete \cup {h} \subseteq Handles
  BY DEF Complete
<1>5. Cardinality(Complete \cup {h}) <= Cardinality(Handles)
  BY <1>4, FS_Subset, PincGlContextsAssumption
<1>6. Cardinality(Handles) \in Nat
  BY FS_CardinalityType, PincGlContextsAssumption
<1>7. QED
  BY <1>1, <1>2, <1>3, <1>5, <1>6

(* A handle given to an incomplete context has no slot yet.                *)
LEMMA CreateGlIInv ==
  ASSUME GlIInv, NEW h \in Handles, CreateContextIncomplete(h)
  PROVE  GlIInv'
<1>1. /\ kind[h] = "none" /\ kind' = [kind EXCEPT ![h] = "incomplete"]
      /\ UNCHANGED <<index, contextPool, slots, current, lost, peak>>
  BY DEF CreateContextIncomplete
<1>2. kind \in [Handles -> {"none", "incomplete", "complete"}]
  BY DEF GlIInv, ContextTypes
<1>3. Complete' = Complete
  BY <1>1, <1>2 DEF Complete
<1>4. UsedSlots' = UsedSlots
  BY <1>1, <1>3 DEF UsedSlots
<1>5. \A g : SdlContext(g)' = SdlContext(g)
  BY <1>1 DEF SdlContext
<1>6. ContextTypes'
  BY <1>1, <1>2 DEF GlIInv, ContextTypes
<1>7. Partitioned(contextPool, UsedSlots)' /\ Fits(contextPool)'
  BY <1>1, <1>4 DEF GlIInv
<1>8. ContextsApart'
  BY <1>1, <1>3, <1>5 DEF GlIInv, ContextsApart
<1>9. CurrentIsComplete'
  BY <1>1, <1>3, <1>5 DEF GlIInv, CurrentIsComplete
<1>10. SlotsCounted' /\ TwoContexts'
  BY <1>1, <1>3, <1>4 DEF GlIInv, SlotsCounted, TwoContexts
<1>11. LostApart'
  BY <1>1 DEF GlIInv, LostApart
<1>12. QED
  BY <1>6, <1>7, <1>8, <1>9, <1>10, <1>11 DEF GlIInv

(* pincOpenglCompleteContext takes a slot no other context holds, whatever *)
(* SDL's answer is.                                                        *)
LEMMA CompleteGlIInv ==
  ASSUME GlIInv, NEW h \in Handles, NEW a \in NewContexts, CompleteContext(h, a)
  PROVE  GlIInv'
<1> DEFINE i == NextSlot(contextPool)
<1>1. /\ kind[h] = "incomplete" /\ kind' = [kind EXCEPT ![h] = "complete"]
      /\ index' = [index EXCEPT ![h] = i]
      /\ slots' = [slots EXCEPT ![i] = [handle |-> a, front |-> h]]
      /\ contextPool' = PoolAlloc(contextPool)
      /\ peak' = Max({peak, Cardinality(Complete) + 1})
      /\ current' = IF a = Null THEN current ELSE Null
      /\ lost' = lost
      /\ a \in (Addresses \cup {Null}) \ (Made \cup lost)
  BY DEF CompleteContext, NewContexts
<1>2. /\ kind \in [Handles -> {"none", "incomplete", "complete"}]
      /\ index \in [Handles -> Nat]
      /\ contextPool \in Pools
      /\ slots \in [Slots -> [handle : Addresses \cup {Null}, front : Handles \cup {NoHandle}]]
      /\ current \in Addresses \cup {Null}
      /\ Partitioned(contextPool, UsedSlots) /\ Fits(contextPool)
  BY DEF GlIInv, ContextTypes
<1>3. /\ i \in Nat /\ i \notin UsedSlots
      /\ PoolAlloc(contextPool) \in Pools
      /\ Partitioned(PoolAlloc(contextPool), UsedSlots \cup {i})
      /\ Fits(PoolAlloc(contextPool))
  BY <1>2, AllocPartitioned
<1>4. /\ h \notin Complete /\ IsFiniteSet(Complete) /\ Cardinality(Complete) \in Nat
      /\ Cardinality(Complete) < Cardinality(Handles)
      /\ Cardinality(Complete \cup {h}) = Cardinality(Complete) + 1
      /\ contextPool.freeList = << >> => contextPool.num = Cardinality(Complete)
  BY <1>1, RoomForContext, UsedSlotsCount
<1>5. Complete' = Complete \cup {h}
  BY <1>1, <1>2 DEF Complete
<1>6. index'[h] = i /\ \A g \in Complete : index'[g] = index[g] /\ g \in Handles
  BY <1>1, <1>2, <1>4 DEF Complete
<1>7. UsedSlots' = UsedSlots \cup {i}
  BY <1>5, <1>6 DEF UsedSlots
<1>8. contextPool' \in Pools /\ Partitioned(contextPool, UsedSlots)' /\ Fits(contextPool)'
  BY <1>1, <1>3, <1>7
<1>9. /\ peak' \in Nat /\ peak <= peak' /\ Cardinality(Complete) + 1 <= peak'
      /\ peak' \in {peak, Cardinality(Complete) + 1}
  BY <1>1, <1>4, MaxOfTwo, SlotsOfContexts
<1>10. contextPool'.num =
         IF contextPool.freeList = << >> THEN contextPool.num + 1 ELSE contextPool.num
  BY <1>1 DEF PoolAlloc
<1>11. contextPool'.num <= peak' /\ peak' <= Cardinality(Handles)
  BY <1>4, <1>9, <1>10, SlotsOfContexts DEF GlIInv, SlotsCounted
<1>12. SlotsCounted'
  BY <1>4, <1>5, <1>9, <1>11 DEF SlotsCounted
<1>13. i \in Slots
  <2>1. i \in 0 .. (contextPool'.num - 1)
    BY <1>3, <1>1 DEF Partitioned
  <2>2. contextPool'.num \in Nat
    BY <1>8 DEF Pools
  <2>3. QED
    BY <1>9, <1>11, <2>1, <2>2, SlotsOfContexts DEF Slots
<1>14. /\ slots'[i] = [handle |-> a, front |-> h]
       /\ \A j \in Slots \ {i} : slots'[j] = slots[j]
  BY <1>1, <1>2, <1>13
<1>15. /\ SdlContext(h)' = a /\ slots'[index'[h]].front = h
       /\ \A g \in Complete : /\ SdlContext(g)' = SdlContext(g)
                              /\ slots'[index'[g]].front = slots[index[g]].front
  <2>1. ASSUME NEW g \in Complete PROVE index[g] \in Slots \ {i}
    BY <1>3, SlotsOfContexts
  <2>2. QED
    BY <1>6, <1>14, <2>1 DEF SdlContext
<1>16. ContextTypes'
  <2>1. kind' \in [Handles -> {"none", "incomplete", "complete"}] /\ index' \in [Handles -> Nat]
    BY <1>1, <1>2, <1>3
  <2>2. slots' \in [Slots -> [handle : Addresses \cup {Null}, front : Handles \cup {NoHandle}]]
    BY <1>1, <1>2
  <2>3. current' \in Addresses \cup {Null}
    BY <1>1, <1>2
  <2>4. QED
    BY <1>8, <1>9, <2>1, <2>2, <2>3 DEF ContextTypes
<1>17. ContextsApart'
  <2>1. \A g \in Complete : SdlContext(g) # a \/ a = Null
    BY <1>1 DEF Made
  <2>2. ASSUME NEW f \in Complete', NEW g \in Complete', SdlContext(f)' = SdlContext(g)'
        PROVE  f = g \/ SdlContext(g)' = Null
    BY <1>5, <1>15, <2>1, <2>2 DEF GlIInv, ContextsApart
  <2>3. \A g \in Complete' : slots'[index'[g]].front = g
    BY <1>5, <1>15 DEF GlIInv, ContextsApart
  <2>4. QED
    BY <2>2, <2>3 DEF ContextsApart
<1>18. CurrentIsComplete'
  BY <1>1, <1>5, <1>15 DEF GlIInv, CurrentIsComplete
<1>19. TwoContexts'
  <2> SUFFICES ASSUME peak' <= 2
               PROVE  /\ FreeSlots(contextPool') \subseteq {0}
                      /\ 0 \in FreeSlots(contextPool') => 1 \notin UsedSlots'
    BY DEF TwoContexts
  <2>1. peak <= 2
    BY <1>9, SlotsOfContexts
  <2>2. FreeSlots(contextPool) \subseteq {0}
    BY <2>1 DEF GlIInv, TwoContexts
  <2>3. CASE contextPool.freeList = << >>
    BY <1>1, <2>3 DEF PoolAlloc, Popped, FreeSlots, Range
  <2>4. CASE contextPool.freeList # << >>
    <3> DEFINE f == contextPool.freeList
    <3>1. f \in Seq(Nat) /\ IsInjective(f) /\ Range(f) \subseteq {0}
      BY <1>2, <2>2 DEF Pools, Partitioned, FreeSlots
    <3>2. contextPool'.freeList = SubSeq(f, 1, Len(f) - 1) /\ i = f[Len(f)]
      BY <1>1, <2>4 DEF PoolAlloc, Popped, NextSlot
    <3>3. f[Len(f)] \in Range(f)
          /\ Range(contextPool'.freeList) = Range(f) \ {f[Len(f)]}
      BY <2>4, <3>1, <3>2, PopProperties
    <3>4. FreeSlots(contextPool') = {}
      BY <3>1, <3>3 DEF FreeSlots
    <3>5. QED
      BY <3>4
  <2>5. QED
    BY <2>3, <2>4
<1>20. LostApart'
  BY <1>1, <1>2, <1>14 DEF GlIInv, LostApart
<1>21. QED
  BY <1>8, <1>12, <1>16, <1>17, <1>18, <1>19, <1>20 DEF GlIInv

(* pincOpenglDeinitContext leaves the contents of the slot; when that slot *)
(* stays below a used one, the other context has another address.          *)
LEMMA DeinitContextGlIInv ==
  ASSUME GlIInv, NEW h \in Handles, DeinitContext(h)
  PROVE  GlIInv'
<1>1. /\ kind[h] # "none" /\ kind' = [kind EXCEPT ![h] = "none"]
      /\ UNCHANGED <<index, slots, lost, peak>>
      /\ IF kind[h] = "complete"
         THEN /\ contextPool' = PoolFree(contextPool, index[h])
              /\ current' = IF current = SdlContext(h) THEN Null ELSE current
         ELSE UNCHANGED <<contextPool, current>>
  BY DEF DeinitContext
<1>2. /\ kind \in [Handles -> {"none", "incomplete", "complete"}]
      /\ contextPool \in Pools /\ current \in Addresses \cup {Null}
      /\ Partitioned(contextPool, UsedSlots) /\ Fits(contextPool)
  BY DEF GlIInv, ContextTypes
<1>3. Complete' = Complete \ {h}
  BY <1>1, <1>2 DEF Complete
<1>4. \A g : SdlContext(g)' = SdlContext(g) /\ index'[g] = index[g]
  BY <1>1 DEF SdlContext
<1>5. ContextsApart'
  BY <1>1, <1>3, <1>4 DEF GlIInv, ContextsApart
<1>10. LostApart'
  BY <1>1 DEF GlIInv, LostApart
<1>6. IsFiniteSet(Complete) /\ Cardinality(Complete) \in Nat
  BY UsedSlotsCount
<1>7. Cardinality(Complete') <= peak'
  <2>1. Cardinality(Complete') <= Cardinality(Complete) /\ IsFiniteSet(Complete')
    BY <1>3, <1>6, FS_Subset
  <2>2. Cardinality(Complete') \in Nat
    BY <2>1, FS_CardinalityType
  <2>3. QED
    BY <1>1, <1>6, <2>1, <2>2, SlotsOfContexts DEF GlIInv, SlotsCounted
<1>8. CASE kind[h] # "complete"
  <2>1. UNCHANGED <<contextPool, current>> /\ Complete' = Complete
    BY <1>1, <1>3, <1>8 DEF Complete
  <2>2. UsedSlots' = UsedSlots
    BY <1>4, <2>1 DEF UsedSlots
  <2>3. ContextTypes'
    BY <1>1, <1>2, <2>1 DEF GlIInv, ContextTypes
  <2>4. CurrentIsComplete' /\ SlotsCounted' /\ TwoContexts'
    BY <1>1, <1>4, <2>1, <2>2 DEF GlIInv, CurrentIsComplete, SlotsCounted, TwoContexts
  <2>5. QED
    BY <1>2, <1>5, <1>10, <2>1, <2>2, <2>3, <2>4 DEF GlIInv
<1>9. CASE kind[h] = "complete"
  <2> DEFINE i == index[h]
  <2>1. h \in Complete /\ i \in UsedSlots
    BY <1>9 DEF Complete, UsedSlots
  <2>2. UsedSlots' = UsedSlots \ {i}
    <3>1. \A g \in Complete : index[g] = i => g = h
      BY <2>1, SlotsOfContexts
    <3>2. QED
      BY <1>3, <1>4, <2>1, <3>1 DEF UsedSlots
  <2>3. /\ contextPool' = PoolFree(contextPool, i)
        /\ current' = IF current = SdlContext(h) THEN Null ELSE current
    BY <1>1, <1>9
  <2>4. contextPool' \in Pools /\ Partitioned(contextPool, UsedSlots)' /\ Fits(contextPool)'
    BY <1>2, <2>1, <2>2, <2>3, FreePartitioned
  <2>5. ContextTypes'
    BY <1>1, <1>2, <2>3, <2>4 DEF GlIInv, ContextTypes
  <2>6. CurrentIsComplete'
    BY <1>1, <1>3, <1>4, <2>3 DEF GlIInv, CurrentIsComplete
  <2>7. contextPool'.num = IF i + 1 = contextPool.num THEN contextPool.num - 1 ELSE contextPool.num
    BY <1>2, <2>3 DEF PoolFree, Pools
  <2>8. SlotsCounted'
    BY <1>1, <1>7, <2>7, SlotsOfContexts DEF GlIInv, SlotsCounted
  <2>9. TwoContexts'
    <3> SUFFICES ASSUME peak <= 2
                 PROVE  /\ FreeSlots(contextPool') \subseteq {0}
                        /\ 0 \in FreeSlots(contextPool') /\ 1 \in UsedSlots' =>
                             slots[1].handle = Null \/ slots[0].handle # slots[1].handle
      BY <1>1 DEF TwoContexts
    <3>1. /\ FreeSlots(contextPool) \subseteq {0}
          /\ 0 \in FreeSlots(contextPool) /\ 1 \in UsedSlots =>
               slots[1].handle = Null \/ slots[0].handle # slots[1].handle
      BY DEF GlIInv, TwoContexts
    <3>2. CASE i + 1 = contextPool.num
      <4>1. FreeSlots(contextPool') = FreeSlots(contextPool)
        BY <1>2, <2>3, <3>2 DEF PoolFree, FreeSlots, Pools
      <4>2. QED
        BY <2>2, <3>1, <4>1
    <3>3. CASE i + 1 # contextPool.num
      <4>1. i \in 0 .. (contextPool.num - 1) /\ contextPool.num \in Nat /\ contextPool.num <= 2
        BY <2>1, SlotsOfContexts DEF GlIInv, SlotsCounted
      <4>2. i = 0
        BY <3>3, <4>1
      <4>3. FreeSlots(contextPool') \subseteq FreeSlots(contextPool) \cup {0}
        <5>1. contextPool'.freeList = Append(contextPool.freeList, 0)
          BY <2>3, <3>3, <4>2 DEF PoolFree
        <5>2. /\ contextPool.freeList \in Seq(Nat) /\ IsInjective(contextPool.freeList)
              /\ 0 \notin Range(contextPool.freeList)
          BY <1>2, <2>1, <4>2 DEF Pools, Partitioned, FreeSlots
        <5>3. QED
          BY <5>1, <5>2, PushProperties DEF FreeSlots
      <4>4. ASSUME 1 \in UsedSlots'
            PROVE  slots[1].handle = Null \/ slots[0].handle # slots[1].handle
        <5>1. PICK g \in Complete : index[g] = 1
          BY <1>3, <1>4, <4>4 DEF UsedSlots
        <5>2. g # h
          BY <4>2, <5>1
        <5>3. SdlContext(g) = slots[1].handle /\ SdlContext(h) = slots[0].handle
          BY <4>2, <5>1 DEF SdlContext
        <5>4. QED
          BY <2>1, <5>2, <5>3 DEF GlIInv, ContextsApart
      <4>5. QED
        BY <3>1, <4>3, <4>4
    <3>4. QED
      BY <3>2, <3>3
  <2>10. QED
    BY <1>5, <1>10, <2>4, <2>5, <2>6, <2>8, <2>9 DEF GlIInv
<1>11. QED
  BY <1>8, <1>9

(* Only a complete context is made current.                                *)
LEMMA MakeCurrentGlIInv ==
  ASSUME GlIInv, NEW h \in Handles \cup {NoHandle}, MakeCurrent(h)
  PROVE  GlIInv'
<1>1. /\ h = NoHandle \/ h \in Complete
      /\ current' \in {current, IF h = NoHandle THEN Null ELSE SdlContext(h)}
      /\ UNCHANGED <<kind, index, contextPool, slots, lost, peak>>
  BY DEF MakeCurrent
<1>2. Complete' = Complete /\ UsedSlots' = UsedSlots
  BY <1>1 DEF Complete, UsedSlots
<1>3. \A g : SdlContext(g)' = SdlContext(g)
  BY <1>1 DEF SdlContext
<1>4. \A g \in Complete : SdlContext(g) \in Addresses \cup {Null}
  <2>1. slots \in [Slots -> [handle : Addresses \cup {Null}, front : Handles \cup {NoHandle}]]
    BY DEF GlIInv, ContextTypes
  <2>2. \A g \in Complete : index[g] \in Slots
    BY SlotsOfContexts
  <2>3. QED
    BY <2>1, <2>2 DEF SdlContext
<1>5. ContextTypes'
  BY <1>1, <1>4 DEF GlIInv, ContextTypes
<1>6. ContextsApart'
  BY <1>1, <1>2, <1>3 DEF GlIInv, ContextsApart
<1>7. CurrentIsComplete'
  BY <1>1, <1>2, <1>3 DEF GlIInv, CurrentIsComplete
<1>8. SlotsCounted' /\ TwoContexts'
  BY <1>1, <1>2 DEF GlIInv, SlotsCounted, TwoContexts
<1>9. LostApart'
  BY <1>1 DEF GlIInv, LostApart
<1>10. QED
  BY <1>1, <1>2, <1>5, <1>6, <1>7, <1>8, <1>9 DEF GlIInv

(* pincDeinit goes back to the start but for SDL's contexts, all of which  *)
(* are lost if SDL goes on.                                                *)
LEMMA DeinitContextsGlIInv ==
  ASSUME GlIInv, DeinitContexts
  PROVE  GlIInv'
<1>1. /\ kind' = [h \in Handles |-> "none"] /\ index' = [h \in Handles |-> 0]
      /\ contextPool' = EmptyPool /\ slots' = [i \in Slots |-> Unused] /\ peak' = 0
      /\ \/ current' = Null /\ lost' = {}
         \/ current' \in {current, Null} /\ lost' = lost \cup Made
  BY DEF DeinitContexts
<1>2. Complete' = {} /\ UsedSlots' = {}
  BY <1>1 DEF Complete, UsedSlots
<1>3. Cardinality(Handles) \in Nat
  BY FS_CardinalityType, PincGlContextsAssumption
<1>4. contextPool' \in Pools /\ Partitioned(contextPool, UsedSlots)' /\ Fits(contextPool)'
  BY <1>1, <1>2, EmptyPoolPartitioned
<1>5. current \in Addresses \cup {Null} /\ lost \subseteq Addresses
  BY DEF GlIInv, ContextTypes, LostApart
<1>6. Made \subseteq Addresses
  <2>1. slots \in [Slots -> [handle : Addresses \cup {Null}, front : Handles \cup {NoHandle}]]
    BY DEF GlIInv, ContextTypes
  <2>2. \A g \in Complete : index[g] \in Slots
    BY SlotsOfContexts
  <2>3. QED
    BY <2>1, <2>2 DEF Made, SdlContext
<1>7. ContextTypes'
  BY <1>1, <1>4, <1>5 DEF ContextTypes, Unused
<1>8. ContextsApart'
  BY <1>2 DEF ContextsApart
<1>9. current # Null => current \in lost \cup Made
  BY DEF GlIInv, CurrentIsComplete, Made
<1>10. CurrentIsComplete'
  BY <1>1, <1>9 DEF CurrentIsComplete
<1>11. LostApart'
  <2>1. Null \notin lost' /\ lost' \subseteq Addresses
    BY <1>1, <1>5, <1>6, PincGlContextsAssumption
  <2>2. \A i \in Slots : slots'[i].handle = Null
    BY <1>1 DEF Unused
  <2>3. QED
    BY <2>1, <2>2 DEF LostApart
<1>12. SlotsCounted'
  BY <1>1, <1>2, <1>3, FS_EmptySet DEF SlotsCounted, EmptyPool
<1>13. TwoContexts'
  BY <1>1, <1>2 DEF TwoContexts, EmptyPool, FreeSlots, Range
<1>14. QED
  BY <1>4, <1>7, <1>8, <1>10, <1>11, <1>12, <1>13 DEF GlIInv

(* Every call keeps the invariant.                                         *)
LEMMA NextGlIInv == GlIInv /\ [GlNext]_glVars => GlIInv'
<1> SUFFICES ASSUME GlIInv, [GlNext]_glVars PROVE GlIInv'
  OBVIOUS
<1>1. ASSUME NEW h \in Handles, CreateContextIncomplete(h) PROVE GlIInv'
  BY <1>1, CreateGlIInv
<1>2. ASSUME NEW h \in Handles, NEW a \in NewContexts, CompleteContext(h, a) PROVE GlIInv'
  BY <1>2, CompleteGlIInv
<1>3. ASSUME NEW h \in Handles, DeinitContext(h) PROVE GlIInv'
  BY <1>3, DeinitContextGlIInv
<1>4. ASSUME NEW h \in Handles \cup {NoHandle}, MakeCurrent(h) PROVE GlIInv'
  BY <1>4, MakeCurrentGlIInv
<1>5. CASE DeinitContexts
  BY <1>5, DeinitContextsGlIInv
<1>6. CASE UNCHANGED glVars
  BY <1>6 DEF glVars, GlIInv, ContextTypes, ContextsApart, CurrentIsComplete, LostApart,
              SlotsCounted, TwoContexts, UsedSlots, Complete, SdlContext
<1>7. QED
  BY <1>1, <1>2, <1>3, <1>4, <1>5, <1>6 DEF GlNext

(* The search of pincSdl2glGetCurrentContext finds the context SDL calls   *)
(* current for every program with at most two contexts at once, whatever   *)
(* the number of handles and addresses and whichever completions fail;     *)
(* with more it can be misled, by a free slot that still has the address.  *)
(* A context of before pincDeinit is not found at all.                     *)
THEOREM CurrentContextIsFound == GlSpec => []CurrentContextFound
<1>1. GlSpec => []GlIInv
  BY InitGlIInv, NextGlIInv, PTL DEF GlSpec
<1>2. GlIInv => CurrentContextFound
  <2> SUFFICES ASSUME GlIInv, current # Null PROVE CurrentContextFound
    BY DEF CurrentContextFound
  <2>11. CASE current \in lost
    <3>1. \A i \in 0 .. (contextPool.num - 1) : slots[i].handle # current
      BY <2>11, SlotsOfContexts DEF GlIInv, LostApart
    <3>2. GetCurrentContext = NoHandle
      BY <3>1 DEF GetCurrentContext, Holding
    <3>3. QED
      BY <2>11, <3>2 DEF CurrentContextFound
  <2> SUFFICES ASSUME current \notin lost PROVE CurrentContextFound
    BY <2>11
  <2> DEFINE S == Holding(current)
  <2>1. PICK h \in Complete : SdlContext(h) = current
    BY DEF GlIInv, CurrentIsComplete
  <2>2. contextPool.num \in Nat /\ S \in SUBSET Nat
    BY SlotsOfContexts DEF Holding
  <2>3. index[h] \in S /\ index[h] \in UsedSlots
    BY <2>1, SlotsOfContexts DEF Holding, SdlContext
  <2>4. Min(S) \in S /\ Min(S) <= index[h] /\ Min(S) \in Nat
    BY <2>2, <2>3, LeastSlot
  <2>5. GetCurrentContext = slots[Min(S)].front
    BY <2>3 DEF GetCurrentContext
  <2>6. slots[Min(S)].handle = current /\ Min(S) \in 0 .. (contextPool.num - 1)
    BY <2>4 DEF Holding
  <2>7. Min(S) \in UsedSlots \/ Min(S) \in FreeSlots(contextPool)
    BY <2>6 DEF GlIInv, Partitioned
  <2>8. CASE Min(S) \in UsedSlots
    <3>1. PICK g \in Complete : index[g] = Min(S)
      BY <2>8 DEF UsedSlots
    <3>2. SdlContext(g) = current /\ slots[Min(S)].front = g
      BY <2>6, <3>1 DEF SdlContext, GlIInv, ContextsApart
    <3>3. GetCurrentContext = g
      BY <2>5, <3>2
    <3>4. QED
      BY <3>2, <3>3 DEF CurrentContextFound
  <2>9. CASE Min(S) \in FreeSlots(contextPool)
    <3>1. Min(S) # index[h] /\ index[h] \in Nat
      BY <2>2, <2>3, <2>9, SlotsOfContexts
    <3>2. Min(S) < index[h]
      BY <2>4, <3>1
    <3>3. peak > 2
      <4> SUFFICES ASSUME peak <= 2 PROVE FALSE
        BY SlotsOfContexts
      <4>1. Min(S) = 0
        BY <2>9 DEF GlIInv, TwoContexts
      <4>2. index[h] \in 0 .. (contextPool.num - 1) /\ contextPool.num <= 2
        BY <2>1, SlotsOfContexts DEF GlIInv, SlotsCounted
      <4>3. index[h] = 1
        BY <2>2, <3>2, <4>1, <4>2
      <4>4. slots[0].handle # slots[1].handle
        BY <2>1, <2>3, <2>9, <4>1, <4>3 DEF GlIInv, TwoContexts, SdlContext
      <4>5. QED
        BY <2>1, <2>6, <4>1, <4>3, <4>4 DEF SdlContext
    <3>4. QED
      BY <2>1, <2>6, <2>9, <3>2, <3>3 DEF CurrentContextFound
  <2>10. QED
    BY <2>7, <2>8, <2>9
<1>3. QED
  BY <1>1, <1>2, PTL
=============================================================================
