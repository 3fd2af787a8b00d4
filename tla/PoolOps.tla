------------------------------ MODULE PoolOps ------------------------------
(***************************************************************************)
(* The slot pool of Pinc (struct PincPool in pinc_main.h, PincPool_alloc   *)
(* and PincPool_free in pinc_main.c) as operators on a record.  A pool is  *)
(* an array of slots 0 .. num - 1, each in use or listed in freeList, a    *)
(* stack of slot indices.  The contents of a slot belong to the caller.    *)
(*                                                                         *)
(* objectsArray and freeArray are NULL exactly while the capacity that     *)
(* goes with them is 0, so the NULL tests of the code read that capacity.  *)
(***************************************************************************)
EXTENDS Integers, Sequences, Functions

CONSTANT FirstCapacity   \* slots in a first allocation, 8 in the code

ASSUME FirstCapacityAssumption == FirstCapacity \in Nat \ {0}

Pools == [num : Nat, capacity : Nat, freeList : Seq(Nat), freeCapacity : Nat]

EmptyPool == [num |-> 0, capacity |-> 0, freeList |-> << >>, freeCapacity |-> 0]

(* Both arrays grow the same way: a first block, then doubling. *)
Grown(capacity) == IF capacity = 0 THEN FirstCapacity ELSE 2 * capacity

FreeSlots(p) == Range(p.freeList)

(* The slot PincPool_alloc returns: the last one pushed on the free list,  *)
(* else the slot after the last one.  Two faulty variants come first: one  *)
(* counts a new slot too early, one forgets the free list.                 *)
NextSlotOffByOne(p) ==
  IF p.freeList = << >> THEN p.num - 1 ELSE p.freeList[Len(p.freeList)]

NextSlotIgnoresFree(p) == p.num

NextSlot(p) == IF p.freeList = << >> THEN p.num ELSE p.freeList[Len(p.freeList)]

Popped(p) ==
  IF p.freeList = << >> THEN << >> ELSE SubSeq(p.freeList, 1, Len(p.freeList) - 1)

(* PincPool_alloc.  The array grows whenever it is full, even when a free  *)
(* slot is about to be reused.  The faulty variants leave the slot on the  *)
(* free list, grow the array one slot late, or never reuse a slot.         *)
PoolAllocNoPop(p) ==
  [num |-> IF p.freeList = << >> THEN p.num + 1 ELSE p.num,
   capacity |-> IF p.capacity = p.num THEN Grown(p.capacity) ELSE p.capacity,
   freeList |-> p.freeList,
   freeCapacity |-> p.freeCapacity]

PoolAllocGrowsLate(p) ==
  [num |-> IF p.freeList = << >> THEN p.num + 1 ELSE p.num,
   capacity |-> IF p.capacity < p.num THEN Grown(p.capacity) ELSE p.capacity,
   freeList |-> Popped(p),
   freeCapacity |-> p.freeCapacity]

PoolAllocIgnoresFree(p) ==
  [num |-> p.num + 1,
   capacity |-> IF p.capacity = p.num THEN Grown(p.capacity) ELSE p.capacity,
   freeList |-> p.freeList,
   freeCapacity |-> p.freeCapacity]

PoolAlloc(p) ==
  [num |-> IF p.freeList = << >> THEN p.num + 1 ELSE p.num,
   capacity |-> IF p.capacity = p.num THEN Grown(p.capacity) ELSE p.capacity,
   freeList |-> Popped(p),
   freeCapacity |-> p.freeCapacity]

(* PincPool_free: the last slot is given back by shrinking the array, any  *)
(* other slot is pushed on the free list.                                  *)
PoolFree(p, i) ==
  IF i + 1 = p.num
  THEN [p EXCEPT !.num = p.num - 1]
  ELSE [num |-> p.num,
        capacity |-> p.capacity,
        freeList |-> Append(p.freeList, i),
        freeCapacity |-> IF p.freeCapacity = Len(p.freeList)
                         THEN Grown(p.freeCapacity) ELSE p.freeCapacity]

(* The slots of p are the used ones and the free ones, none of them both   *)
(* and none of them free twice.                                            *)
Partitioned(p, used) ==
  /\ IsInjective(p.freeList)
  /\ used \cap FreeSlots(p) = {}
  /\ used \cup FreeSlots(p) = 0 .. (p.num - 1)

(* Both arrays have room for what is stored in them. *)
Fits(p) == p.num <= p.capacity /\ Len(p.freeList) <= p.freeCapacity
=============================================================================
