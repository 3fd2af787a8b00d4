------------------------------ MODULE PincPool ------------------------------
(***************************************************************************)
(* One PincPool, its callers and the root allocator's view of its two      *)
(* arrays.  The callers (PincObject_allocate, _reallocate, _free) give     *)
(* back only slots they hold.                                              *)
(***************************************************************************)
EXTENDS PoolOps, FiniteSets

CONSTANTS
  ElementSize,   \* sizeof the pooled struct
  IndexSize,     \* sizeof(uint32_t)
  MaxLive        \* bound: slots the callers hold at once

ASSUME PincPoolAssumption ==
  /\ ElementSize \in Nat \ {0}
  /\ IndexSize \in Nat \ {0}
  /\ MaxLive \in Nat

VARIABLES
  pool,     \* the PincPool
  live,     \* history: the slots handed out and not given back
  heap,     \* the bytes the allocator holds for each array, 0 for none
  badSize   \* history: allocator calls that were given a wrong old size

vars == <<pool, live, heap, badSize>>

Arrays == {"objects", "free"}
SizedCalls == {"realloc", "free"}

(* A call that grows an array from `from` to `to` elements: a first call   *)
(* allocates, a later one says how large the block was.  The faulty        *)
(* variant takes the first block as an array of indices.                   *)
GrowArrayFromIndices(array, from, to) ==
  IF from = to
  THEN UNCHANGED <<heap, badSize>>
  ELSE /\ heap' = [heap EXCEPT ![array] = (IF from = 0 THEN IndexSize ELSE ElementSize) * to]
       /\ badSize' = IF from # 0 /\ heap[array] # ElementSize * from
                     THEN badSize \cup {"realloc"} ELSE badSize

GrowArray(array, from, to) ==
  IF from = to
  THEN UNCHANGED <<heap, badSize>>
  ELSE /\ heap' = [heap EXCEPT ![array] = ElementSize * to]
       /\ badSize' = IF from # 0 /\ heap[array] # ElementSize * from
                     THEN badSize \cup {"realloc"} ELSE badSize

Init ==
  /\ pool = EmptyPool
  /\ live = {}
  /\ heap = [a \in Arrays |-> 0]
  /\ badSize = {}

Alloc ==
  /\ Cardinality(live) < MaxLive
  /\ pool' = PoolAlloc(pool)
  /\ live' = live \cup {NextSlot(pool)}
  /\ GrowArray("objects", pool.capacity, pool'.capacity)

Free(i) ==
  /\ pool' = PoolFree(pool, i)
  /\ live' = live \ {i}
  /\ GrowArray("free", pool.freeCapacity, pool'.freeCapacity)

(* PincPool_deinit frees the free list as an array of uint32_t, although   *)
(* PincPool_free allocated it as an array of pooled structs.               *)
Deinit ==
  LET wrong == \/ pool.capacity > 0 /\ heap["objects"] # ElementSize * pool.capacity
               \/ pool.freeCapacity > 0 /\ heap["free"] # IndexSize * pool.freeCapacity
  IN  /\ pool' = EmptyPool
      /\ live' = {}
      /\ heap' = [a \in Arrays |-> 0]
      /\ badSize' = IF wrong THEN badSize \cup {"free"} ELSE badSize

Next == Alloc \/ (\E i \in live : Free(i)) \/ Deinit

Spec == Init /\ [][Next]_vars

-----------------------------------------------------------------------------
TypeOK ==
  /\ pool \in Pools
  /\ live \in SUBSET Nat
  /\ heap \in [Arrays -> Nat]
  /\ badSize \in SUBSET SizedCalls

(* No slot is on the free list twice, and the slots below num are exactly  *)
(* the slots in use and the free ones, never both.  A slot freed twice, or *)
(* freed and still counted, would be handed to two objects.                *)
SlotsPartitioned == Partitioned(pool, live)

(* Every slot in use and every entry of the free list lies inside its      *)
(* array, and inside the block the allocator holds for that array (the     *)
(* free list's entries are IndexSize wide): the callers write through      *)
(* objectsArray[index], PincPool_free through freeArray[freeArrayNum].     *)
WritesInBounds ==
  /\ live \subseteq 0 .. (pool.capacity - 1)
  /\ Len(pool.freeList) <= pool.freeCapacity
  /\ ElementSize * pool.capacity <= heap["objects"]
  /\ ElementSize >= IndexSize => IndexSize * Len(pool.freeList) <= heap["free"]

(* However long the sequence of allocations and frees, no more slots are   *)
(* made than were ever in use at once, and the arrays stay within a factor *)
(* two of that.                                                            *)
BoundedFootprint ==
  /\ pool.num <= MaxLive
  /\ pool.capacity <= FirstCapacity \/ pool.capacity <= 2 * MaxLive
  /\ pool.freeCapacity <= FirstCapacity \/ pool.freeCapacity <= 2 * MaxLive

(* The allocator's contract (pinc_allocator.h:33): the old size given to   *)
(* reallocate is the size the block was allocated with.                    *)
ReallocSizesExact == "realloc" \notin badSize

(* The inductive strengthening: the allocator's blocks have the sizes the  *)
(* capacities say, so that growing passes on the right old size.           *)
HeapMatches ==
  /\ heap["objects"] = ElementSize * pool.capacity
  /\ heap["free"] = ElementSize * pool.freeCapacity

IInv ==
  /\ TypeOK
  /\ SlotsPartitioned
  /\ Fits(pool)
  /\ HeapMatches
  /\ ReallocSizesExact
  /\ BoundedFootprint

(* The pool is an index allocator over no more indices than the callers    *)
(* hold at once: it never hands out a slot somebody holds.                 *)
Abstract == INSTANCE IndexAllocator WITH Index <- 0 .. (MaxLive - 1)
ImplementsIndexAllocator == Abstract!Spec
=============================================================================
