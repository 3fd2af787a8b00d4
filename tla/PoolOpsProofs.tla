---------------------------- MODULE PoolOpsProofs ----------------------------
(***************************************************************************)
(* What PoolAlloc and PoolFree do to a pool whose slots are partitioned    *)
(* into used and free ones: the facts every client of a pool relies on.    *)
(***************************************************************************)
EXTENDS PoolOps, FiniteSetTheorems, SequenceTheorems, WellFoundedInduction, TLAPS

(* The first allocation and every doubling make room for one more entry:   *)
(* the growth step of PincPool_alloc and PincPool_free.                    *)
LEMMA GrownMakesRoom ==
  ASSUME NEW n \in Nat
  PROVE  Grown(n) \in Nat /\ n < Grown(n)
  BY FirstCapacityAssumption DEF Grown

(* Popping a stack without repetitions removes its last entry only.        *)
LEMMA PopProperties ==
  ASSUME NEW f \in Seq(Nat), f # << >>, IsInjective(f),
         NEW g, g = SubSeq(f, 1, Len(f) - 1)
  PROVE  /\ g \in Seq(Nat)
         /\ Len(g) = Len(f) - 1
         /\ IsInjective(g)
         /\ f[Len(f)] \in Range(f)
         /\ Range(g) = Range(f) \ {f[Len(f)]}
<1>1. Len(f) \in Nat \ {0} /\ DOMAIN f = 1 .. Len(f)
  BY LenProperties, EmptySeq
<1>2. \A i \in 1 .. Len(f) - 1 : f[i] \in Nat
  BY <1>1, ElementOfSeq
<1>3. /\ g \in Seq(Nat)
      /\ Len(g) = IF 1 <= Len(f) - 1 THEN (Len(f) - 1) - 1 + 1 ELSE 0
      /\ \A i \in 1 .. (Len(f) - 1) - 1 + 1 : g[i] = f[1 + i - 1]
  BY <1>1, <1>2, SubSeqProperties
<1>4. Len(g) = Len(f) - 1
  BY <1>1, <1>3
<1>5. \A i \in 1 .. Len(f) - 1 : g[i] = f[i]
  BY <1>1, <1>3
<1>6. DOMAIN g = 1 .. Len(f) - 1
  BY <1>3, <1>4, LenProperties
<1>7. IsInjective(g)
  BY <1>1, <1>5, <1>6 DEF IsInjective
<1>8. Len(f) \in DOMAIN f /\ Len(f) \notin DOMAIN g
      /\ DOMAIN f = DOMAIN g \cup {Len(f)}
  BY <1>1, <1>6
<1>9. ASSUME NEW x PROVE x \in Range(g) <=> x \in Range(f) \ {f[Len(f)]}
  <2>1. ASSUME x \in Range(g) PROVE x \in Range(f) \ {f[Len(f)]}
    <3>1. PICK k \in DOMAIN g : x = g[k]
      BY <2>1 DEF Range
    <3>2. x = f[k] /\ k \in DOMAIN f /\ k # Len(f)
      BY <1>5, <1>6, <1>8, <3>1
    <3>3. QED
      BY <1>8, <3>2 DEF Range, IsInjective
  <2>2. x \in Range(f) \ {f[Len(f)]} => x \in Range(g)
    BY <1>5, <1>6, <1>8 DEF Range
  <2>3. QED
    BY <2>1, <2>2
<1>10. QED
  BY <1>3, <1>4, <1>7, <1>8, <1>9 DEF Range

(* Pushing an entry that is not on the stack adds that entry only.         *)
LEMMA PushProperties ==
  ASSUME NEW f \in Seq(Nat), IsInjective(f), NEW i \in Nat, i \notin Range(f),
         NEW g, g = Append(f, i)
  PROVE  /\ g \in Seq(Nat)
         /\ Len(g) = Len(f) + 1
         /\ IsInjective(g)
         /\ Range(g) = Range(f) \cup {i}
<1>1. Len(f) \in Nat /\ DOMAIN f = 1 .. Len(f)
  BY LenProperties
<1>2. /\ g \in Seq(Nat)
      /\ Len(g) = Len(f) + 1
      /\ \A k \in 1 .. Len(f) : g[k] = f[k]
      /\ g[Len(f) + 1] = i
  BY AppendProperties
<1>3. DOMAIN g = 1 .. Len(f) + 1
  BY <1>2, LenProperties
<1>4. DOMAIN g = DOMAIN f \cup {Len(f) + 1}
  BY <1>1, <1>3
<1>5. \A k \in DOMAIN f : g[k] = f[k]
  BY <1>1, <1>2
<1>6. IsInjective(g)
  BY <1>2, <1>4, <1>5 DEF IsInjective, Range
<1>7. ASSUME NEW x PROVE x \in Range(g) <=> x \in Range(f) \cup {i}
  BY <1>2, <1>4, <1>5 DEF Range
<1>8. QED
  BY <1>2, <1>6, <1>7

(* An empty pool has no used slot.                                         *)
LEMMA EmptyPoolPartitioned ==
  EmptyPool \in Pools /\ Partitioned(EmptyPool, {}) /\ Fits(EmptyPool)
  BY EmptySeq DEF EmptyPool, Pools, Partitioned, FreeSlots, Fits, Range, IsInjective

(* PincPool_alloc returns a slot nobody uses, inside the array, and keeps  *)
(* the partition, whether the slot is new or reused.                       *)
LEMMA AllocPartitioned ==
  ASSUME NEW p \in Pools, NEW used, Partitioned(p, used), Fits(p)
  PROVE  /\ NextSlot(p) \in Nat
         /\ NextSlot(p) \notin used
         /\ PoolAlloc(p) \in Pools
         /\ Partitioned(PoolAlloc(p), used \cup {NextSlot(p)})
         /\ Fits(PoolAlloc(p))
<1> SUFFICES ASSUME NEW q, q = PoolAlloc(p), NEW slot, slot = NextSlot(p)
             PROVE  /\ slot \in Nat
                    /\ slot \notin used
                    /\ q \in Pools
                    /\ Partitioned(q, used \cup {slot})
                    /\ Fits(q)
  OBVIOUS
<1>1. /\ p.num \in Nat /\ p.capacity \in Nat /\ p.freeCapacity \in Nat
      /\ p.freeList \in Seq(Nat) /\ Len(p.freeList) \in Nat
  BY LenProperties DEF Pools
<1>2. Grown(p.capacity) \in Nat /\ p.capacity < Grown(p.capacity)
  BY <1>1, GrownMakesRoom
<1>3. /\ IsInjective(p.freeList)
      /\ used \cap Range(p.freeList) = {}
      /\ used \cup Range(p.freeList) = 0 .. (p.num - 1)
  BY DEF Partitioned, FreeSlots
<1>4. CASE p.freeList = << >>
  <2>1. /\ slot = p.num
        /\ q.num = p.num + 1
        /\ q.capacity = IF p.capacity = p.num THEN Grown(p.capacity) ELSE p.capacity
        /\ q.freeList = << >>
        /\ q.freeCapacity = p.freeCapacity
    BY <1>4 DEF NextSlot, PoolAlloc, Popped
  <2>2. Range(p.freeList) = {} /\ Range(q.freeList) = {} /\ IsInjective(q.freeList)
    BY <1>4, <2>1 DEF Range, IsInjective
  <2>3. used = 0 .. (p.num - 1)
    BY <1>3, <2>2
  <2>4. Partitioned(q, used \cup {slot})
    BY <1>1, <2>1, <2>2, <2>3 DEF Partitioned, FreeSlots
  <2>5. q.capacity \in Nat /\ q.num <= q.capacity
    BY <1>1, <1>2, <2>1 DEF Fits
  <2>6. q \in Pools
    BY <1>1, <1>2, <1>4, EmptySeq DEF PoolAlloc, Popped, Pools
  <2>7. QED
    BY <1>1, <1>4, <2>1, <2>3, <2>4, <2>5, <2>6 DEF Fits
<1>5. CASE p.freeList # << >>
  <2>1. /\ slot = p.freeList[Len(p.freeList)]
        /\ q.num = p.num
        /\ q.capacity = IF p.capacity = p.num THEN Grown(p.capacity) ELSE p.capacity
        /\ q.freeList = SubSeq(p.freeList, 1, Len(p.freeList) - 1)
        /\ q.freeCapacity = p.freeCapacity
    BY <1>5 DEF NextSlot, PoolAlloc, Popped
  <2>2. /\ q.freeList \in Seq(Nat)
        /\ Len(q.freeList) = Len(p.freeList) - 1
        /\ IsInjective(q.freeList)
        /\ slot \in Range(p.freeList)
        /\ Range(q.freeList) = Range(p.freeList) \ {slot}
    BY <1>1, <1>3, <1>5, <2>1, PopProperties
  <2>3. slot \in 0 .. (p.num - 1) /\ slot \notin used
    BY <1>3, <2>2
  <2>4. Partitioned(q, used \cup {slot})
    BY <1>3, <2>1, <2>2 DEF Partitioned, FreeSlots
  <2>5. q.capacity \in Nat /\ q.num <= q.capacity /\ Len(q.freeList) <= q.freeCapacity
    BY <1>1, <1>2, <2>1, <2>2 DEF Fits
  <2>6. q \in Pools
    <3>1. Popped(p) \in Seq(Nat)
      BY <1>5, <2>1, <2>2 DEF Popped
    <3>2. QED
      BY <1>1, <1>2, <1>5, <3>1 DEF PoolAlloc, Pools
  <2>7. QED
    BY <2>3, <2>4, <2>5, <2>6 DEF Fits
<1>6. QED
  BY <1>4, <1>5

(* PincPool_free of a used slot, last or not, keeps the partition.         *)
LEMMA FreePartitioned ==
  ASSUME NEW p \in Pools, NEW used, Partitioned(p, used), Fits(p),
         NEW i \in used
  PROVE  /\ PoolFree(p, i) \in Pools
         /\ Partitioned(PoolFree(p, i), used \ {i})
         /\ Fits(PoolFree(p, i))
<1> SUFFICES ASSUME NEW q, q = PoolFree(p, i)
             PROVE  q \in Pools /\ Partitioned(q, used \ {i}) /\ Fits(q)
  OBVIOUS
<1>1. /\ p.num \in Nat /\ p.capacity \in Nat /\ p.freeCapacity \in Nat
      /\ p.freeList \in Seq(Nat) /\ Len(p.freeList) \in Nat
  BY LenProperties DEF Pools
<1>2. /\ IsInjective(p.freeList)
      /\ used \cap Range(p.freeList) = {}
      /\ used \cup Range(p.freeList) = 0 .. (p.num - 1)
  BY DEF Partitioned, FreeSlots
<1>3. i \in 0 .. (p.num - 1) /\ i \in Nat /\ i \notin Range(p.freeList)
  BY <1>1, <1>2
<1>4. CASE i + 1 = p.num
  <2>1. /\ q.num = p.num - 1 /\ q.capacity = p.capacity
        /\ q.freeList = p.freeList /\ q.freeCapacity = p.freeCapacity
        /\ q \in Pools
    BY <1>1, <1>3, <1>4 DEF PoolFree, Pools
  <2>2. (used \ {i}) \cup Range(q.freeList) = 0 .. (q.num - 1)
    BY <1>1, <1>2, <1>3, <1>4, <2>1
  <2>3. QED
    BY <1>1, <1>2, <2>1, <2>2 DEF Partitioned, FreeSlots, Fits
<1>5. CASE i + 1 # p.num
  <2>1. /\ q.num = p.num /\ q.capacity = p.capacity
        /\ q.freeList = Append(p.freeList, i)
        /\ q.freeCapacity = IF p.freeCapacity = Len(p.freeList)
                            THEN Grown(p.freeCapacity) ELSE p.freeCapacity
    BY <1>5 DEF PoolFree
  <2>2. /\ q.freeList \in Seq(Nat)
        /\ Len(q.freeList) = Len(p.freeList) + 1
        /\ IsInjective(q.freeList)
        /\ Range(q.freeList) = Range(p.freeList) \cup {i}
    BY <1>1, <1>2, <1>3, <2>1, PushProperties
  <2>3. Partitioned(q, used \ {i})
    BY <1>2, <1>3, <2>1, <2>2 DEF Partitioned, FreeSlots
  <2>4. Grown(p.freeCapacity) \in Nat /\ p.freeCapacity < Grown(p.freeCapacity)
    BY <1>1, GrownMakesRoom
  <2>5. q \in Pools
    BY <1>1, <1>5, <2>1, <2>2, <2>4 DEF PoolFree, Pools
  <2>6. Fits(q)
    BY <1>1, <2>1, <2>2, <2>4 DEF Fits
  <2>7. QED
    BY <2>3, <2>5, <2>6
<1>6. QED
  BY <1>4, <1>5

(* The slots below n are n slots.                                          *)
LEMMA SlotCount ==
  ASSUME NEW n \in Nat
  PROVE  /\ IsFiniteSet(0 .. (n - 1)) /\ Cardinality(0 .. (n - 1)) = n
         /\ Cardinality(1 .. n) = n
<1>1. n - 1 \in Int /\ 0 \in Int /\ 1 \in Int /\ n \in Int
  OBVIOUS
<1>2. /\ IsFiniteSet(0 .. (n - 1))
      /\ Cardinality(0 .. (n - 1)) = IF 0 > n - 1 THEN 0 ELSE (n - 1) - 0 + 1
  BY <1>1, FS_Interval, Zenon
<1>3. Cardinality(1 .. n) = IF 1 > n THEN 0 ELSE n - 1 + 1
  BY <1>1, FS_Interval, Zenon
<1>4. QED
  BY <1>2, <1>3

(* The free list is never longer than the array it indexes.                *)
LEMMA FreeListBounded ==
  ASSUME NEW p \in Pools, NEW used, Partitioned(p, used)
  PROVE  Len(p.freeList) <= p.num
<1> DEFINE S == 1 .. Len(p.freeList)
           T == 0 .. (p.num - 1)
<1>1. /\ Len(p.freeList) \in Nat /\ p.num \in Nat
      /\ p.freeList \in [S -> Nat]
  BY LenProperties DEF Pools
<1>2. Range(p.freeList) \subseteq T /\ IsInjective(p.freeList)
  BY DEF Partitioned, FreeSlots
<1>3. p.freeList \in Injection(S, T)
  BY <1>1, <1>2 DEF Range, Injection
<1>4. IsFiniteSet(T) /\ Cardinality(T) = p.num /\ Cardinality(S) = Len(p.freeList)
  BY <1>1, SlotCount
<1>5. Cardinality(S) <= Cardinality(T)
  BY <1>3, <1>4, FS_Injection
<1>6. QED
  BY <1>4, <1>5

-----------------------------------------------------------------------------
(* Induction over the naturals, for the set of those that have a property. *)
LEMMA NatSetInduction ==
  ASSUME NEW S, 0 \in S, \A n \in Nat : n \in S => n + 1 \in S
  PROVE  Nat \subseteq S
<1> DEFINE R == {r \in Nat \X Nat : r[1] < r[2]}
           T == Nat \ S
<1>1. IsWellFoundedOn(R, Nat)
  BY NatLessThanWellFounded DEF OpToRel
<1>2. SUFFICES ASSUME T # {} PROVE FALSE
  OBVIOUS
<1>3. T \subseteq Nat
  OBVIOUS
<1>4. PICK x \in T : \A y \in T : ~ (<<y, x>> \in R)
  <2> HIDE DEF R, T
  <2> QED
    BY <1>1, <1>2, <1>3, WFMin
<1>5. x \in Nat /\ x # 0 /\ x - 1 \in Nat
  OBVIOUS
<1>6. x - 1 \in T
  BY <1>5
<1>7. <<x - 1, x>> \in R
  BY <1>5
<1>8. QED
  BY <1>4, <1>6, <1>7

(* The function that is a at 0, and g of the argument and of what it was   *)
(* before at the others, exists on every 0 .. n.                           *)
FromLeft(f, n, a, g) == f[0] = a /\ \A i \in 1 .. n : f[i] = g[<<i, f[i - 1]>>]

(* A function of the numbers up to n is given by its value at 0 and a step. *)
LEMMA RecursiveFunctionExists ==
  ASSUME NEW D, NEW a \in D, NEW g \in [Nat \X D -> D], NEW n \in Nat
  PROVE  \E f \in [0 .. n -> D] : FromLeft(f, n, a, g)
<1> DEFINE S == {m \in Nat : \E f \in [0 .. m -> D] : FromLeft(f, m, a, g)}
<1>1. 0 \in S
  <2>1. [i \in 0 .. 0 |-> a] \in [0 .. 0 -> D] /\ FromLeft([i \in 0 .. 0 |-> a], 0, a, g)
    BY DEF FromLeft
  <2>2. QED
    BY <2>1
<1>2. ASSUME NEW m \in Nat, m \in S PROVE m + 1 \in S
  <2>1. PICK f \in [0 .. m -> D] : FromLeft(f, m, a, g)
    BY <1>2
  <2> DEFINE h == [i \in 0 .. m + 1 |-> IF i = m + 1 THEN g[<<m + 1, f[m]>>] ELSE f[i]]
  <2>2. f[m] \in D /\ <<m + 1, f[m]>> \in Nat \X D
    OBVIOUS
  <2>3. g[<<m + 1, f[m]>>] \in D
    BY <2>2
  <2>4. h \in [0 .. m + 1 -> D]
    BY <2>3
  <2>5. h[0] = a
    BY <2>1 DEF FromLeft
  <2>6. ASSUME NEW i \in 1 .. m + 1 PROVE h[i] = g[<<i, h[i - 1]>>]
    <3>1. CASE i = m + 1
      <4>1. h[m + 1] = g[<<m + 1, f[m]>>] /\ h[m] = f[m] /\ i - 1 = m
        BY <3>1
      <4>2. QED
        BY <3>1, <4>1
    <3>2. CASE i # m + 1
      <4>1. i \in 1 .. m /\ i \in 0 .. m + 1 /\ i - 1 \in 0 .. m + 1 /\ i - 1 # m + 1
        BY <3>2
      <4>2. h[i] = f[i] /\ h[i - 1] = f[i - 1]
        BY <3>2, <4>1
      <4>3. QED
        BY <2>1, <4>1, <4>2 DEF FromLeft
    <3>3. QED
      BY <3>1, <3>2
  <2>7. FromLeft(h, m + 1, a, g)
    BY <2>5, <2>6 DEF FromLeft
  <2> HIDE DEF h
  <2>8. QED
    BY <2>4, <2>7
<1>3. Nat \subseteq S
  <2> HIDE DEF S
  <2> QED
    BY <1>1, <1>2, NatSetInduction
<1>4. QED
  BY <1>3
=============================================================================
