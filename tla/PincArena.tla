----------------------------- MODULE PincArena -----------------------------
(***************************************************************************)
(* The arena behind tempAllocator (libs/pinc_arena.c): a stack of blocks,  *)
(* of which only the top one is allocated from, and a list of empty blocks *)
(* that survive a reset.  Pinc's calls allocate and free strings on it,    *)
(* pincStep resets it and pincDeinit frees it.                             *)
(*                                                                         *)
(* An address is a block and an offset; what the root allocator gives is   *)
(* aligned.  PincArenaAllocator_reallocate is left out: no call of Pinc    *)
(* reaches it.  An allocation that reaches past the end of its block is    *)
(* followed as if nothing else were there.                                 *)
(***************************************************************************)
EXTENDS Integers, FiniteSets, SequencesExt

CONSTANTS
  Header,       \* sizeof(PincArenaAllocatorBlock)
  Align,        \* the alignment of every allocation
  BlockSize,    \* blockSize
  Buckets,      \* how many sizes of blocks the reset sorts: 32
  Tries,        \* how many empty blocks guaranteeCapacity looks at: 50
  Keep,         \* the bytes pincStep keeps
  Sizes,        \* the sizes asked for
  MaxAllocs,    \* bound: allocations not freed since the last reset
  MaxUsed,      \* bound: lastBlockUsed
  MaxBlocks     \* bound: blocks

ASSUME PincArenaAssumption ==
  /\ {Header, Align, BlockSize, Buckets, Tries} \subseteq Nat \ {0}
  /\ {Keep, MaxAllocs, MaxUsed, MaxBlocks} \cup Sizes \subseteq Nat
  /\ Header % Align = 0 /\ BlockSize % Align = 0
  /\ Keep <= Buckets * BlockSize

VARIABLES
  blocks,   \* the stack, top first
  empty,    \* emptyBlocks, head first
  used,     \* lastBlockUsed
  heap,     \* the blocks the root allocator has given and not got back
  allocs    \* history: the allocations with bytes not freed since the last reset

arenaVars == <<blocks, empty, used, heap, allocs>>

Ids == 1 .. MaxBlocks

Blocks == [id : Ids, data : Nat]
Allocations == [block : Ids, at : Nat, size : Sizes \ {0}]

RoundUp(n, m) == ((n + m - 1) \div m) * m

IsLarge(b) == b.data \div BlockSize > Buckets

-----------------------------------------------------------------------------
(* guaranteeCapacity(n), for n bytes.  sizeRem is unsigned: if             *)
(* lastBlockUsed is past the end of the block it wraps, and is enough.     *)
HasRoom(n) ==
  blocks # << >> /\ Head(blocks).data - used - Header \notin 0 .. (n - 1)

FirstEmpty(n) ==
  LET fits == {i \in DOMAIN empty : i <= Tries /\ empty[i].data - Header >= n}
  IN  IF fits = {} THEN 0 ELSE CHOOSE i \in fits : \A j \in fits : i <= j

(* The faulty variant leaves out the header. *)
NewDataNoHeader(n) == RoundUp(n, BlockSize)

NewData(n) == RoundUp(n + Header, BlockSize)

(* Which name a new block gets does not matter. *)
NewBlock(n) ==
  [id |-> CHOOSE i \in Ids : \A b \in heap : b.id # i, data |-> NewData(n)]

(* The empty block is unlinked and put on the stack. *)
GuaranteeCapacity(n) ==
  LET i == FirstEmpty(n)
  IN  IF n = 0 \/ HasRoom(n) THEN UNCHANGED <<blocks, empty, heap>>
      ELSE IF i # 0
      THEN /\ blocks' = <<empty[i]>> \o blocks
           /\ empty' = RemoveAt(empty, i)
           /\ UNCHANGED heap
      ELSE /\ Cardinality(heap) < MaxBlocks
           /\ blocks' = <<NewBlock(n)>> \o blocks
           /\ heap' = heap \cup {NewBlock(n)}
           /\ UNCHANGED empty

(* PincArenaAllocator_allocateAligned.  To ask for no bytes takes padding  *)
(* at most, even without a block, and to free them changes nothing.  The   *)
(* faulty variant does not count the padding as used.                      *)
UsedNoPadding(n, at) == used + n

UsedAfter(n, at) == used + n + (at - (Header + used))

Allocate(n) ==
  LET at == RoundUp(Header + used, Align)
  IN  /\ Cardinality(allocs) < MaxAllocs
      /\ UsedAfter(n, at) <= MaxUsed
      /\ GuaranteeCapacity(n)
      /\ used' = UsedAfter(n, at)
      /\ allocs' = allocs \cup {[block |-> Head(blocks').id, at |-> at, size |-> m]
                                    : m \in {n} \ {0}}

(* PincArenaAllocator_free takes back the last allocation of the top block *)
(* only, and not its padding.                                              *)
Reclaimed(a) ==
  IF a.block = Head(blocks).id /\ a.at + a.size = Header + used
  THEN used - a.size ELSE used

Free(a) ==
  /\ used' = Reclaimed(a)
  /\ allocs' = allocs \ {a}
  /\ UNCHANGED <<blocks, empty, heap>>

-----------------------------------------------------------------------------
(* PincArenaAllocator_reset.  All blocks become empty ones, the bottom of  *)
(* the stack first; the small ones are sorted by size.  The faulty variant *)
(* loses the blocks that were empty already.                               *)
AllEmptyOnlyStack == Reverse(blocks)

AllEmpty == Reverse(blocks) \o empty

(* The blocks of a list that are as large as d, in its order. *)
OfSize(list, d) ==
  LET chosen[i \in 0 .. Len(list)] ==
        IF i = 0 THEN << >>
        ELSE IF list[i].data = d THEN Append(chosen[i - 1], list[i])
        ELSE chosen[i - 1]
  IN  chosen[Len(list)]

Bucket(n) == OfSize(AllEmpty, n * BlockSize)

(* How many blocks of n block sizes are kept, and how many of them are     *)
(* counted, when `kept` bytes were counted before: when a block of the     *)
(* bucket is found to be one too many it is kept, the ones after it freed. *)
(* The faulty variant only looks between buckets.                          *)
Counted(n, kept) ==
  IF kept >= Keep THEN 0
  ELSE Min({Len(Bucket(n)), RoundUp(Keep - kept, n * BlockSize) \div (n * BlockSize)})

KeptOfAll(n, kept) == IF kept >= Keep THEN 0 ELSE Len(Bucket(n))

KeptOf(n, kept) ==
  IF kept >= Keep THEN 0 ELSE Min({Len(Bucket(n)), Counted(n, kept) + 1})

(* From the largest bucket down.  The bucket holds its blocks in the       *)
(* reverse order, and they are put back in that of AllEmpty.               *)
KeepBucket(s, n) ==
  LET k == KeptOf(n, s.kept)
      m == Len(Bucket(n))
  IN  [kept |-> s.kept + n * BlockSize * Counted(n, s.kept),
       list |-> s.list \o SubSeq(Bucket(n), m - k + 1, m)]

Sorted ==
  LET s[i \in 0 .. Buckets] ==
        IF i = 0 THEN [kept |-> 0, list |-> << >>]
        ELSE KeepBucket(s[i - 1], Buckets + 1 - i)
  IN  s[Buckets]

AfterReset == Sorted.list

(* The large blocks are freed, if not enough is kept without them: they    *)
(* are all larger than Keep.  If enough is kept they are neither freed nor *)
(* listed.                                                                 *)
FreedLarge ==
  IF Sorted.kept < Keep THEN {b \in Range(AllEmpty) : IsLarge(b)} ELSE {}

Reset ==
  /\ empty' = AfterReset
  /\ heap' = heap \ (({b \in Range(AllEmpty) : ~IsLarge(b)} \ Range(AfterReset))
                       \cup FreedLarge)
  /\ blocks' = << >>
  /\ used' = 0
  /\ allocs' = {}

(* PincArenaAllocator_deinit *)
Deinit ==
  /\ heap' = heap \ Range(blocks \o empty)
  /\ blocks' = << >>
  /\ empty' = << >>
  /\ used' = 0
  /\ allocs' = {}

ArenaInit ==
  /\ blocks = << >>
  /\ empty = << >>
  /\ used = 0
  /\ heap = {}
  /\ allocs = {}

ArenaNext ==
  \/ \E n \in Sizes : Allocate(n)
  \/ \E a \in allocs : Free(a)
  \/ Reset
  \/ Deinit

ArenaSpec == ArenaInit /\ [][ArenaNext]_arenaVars

-----------------------------------------------------------------------------
(* Two allocations of one step in one block never share a byte, whatever   *)
(* was freed in between and whichever blocks were pushed.  Allocations of  *)
(* two blocks may: OverrunsOnlyBy says when one leaves its block.          *)
AllocationsDisjoint ==
  \A a, b \in allocs :
    a # b /\ a.block = b.block =>
      a.at + a.size <= b.at \/ b.at + b.size <= a.at

(* Each block is in one place of one list, none that was freed is listed,  *)
(* and none is lost through any sequence of steps, but for the large ones: *)
(* PincArenaAllocator_reset drops those when it kept enough small ones.    *)
BlocksAccounted ==
  /\ IsInjective(blocks \o empty)
  /\ Range(blocks \o empty) \subseteq heap
  /\ \A b \in heap \ Range(blocks \o empty) : IsLarge(b)

(* What is kept between two steps is bounded, however much a step used:    *)
(* less than Keep, and two of the smallest blocks kept, by which the reset *)
(* may exceed it (one, says pinc_arena.h:52-54).  Those blocks are listed  *)
(* from the largest to the smallest.                                       *)
Total(s) ==
  LET t[i \in 0 .. Len(s)] == IF i = 0 THEN 0 ELSE t[i - 1] + s[i].data
  IN  t[Len(s)]

Descends(s) == \A i, j \in 1 .. Len(s) : i <= j => s[j].data <= s[i].data

ReserveBounded ==
  /\ empty # << >> => Total(empty) < Keep + 2 * Last(empty).data
  /\ Descends(empty)

(* The three ways an allocation can leave its block, none at its start.    *)
(* Behind padding, which guaranteeCapacity does not count, it does by less *)
(* than the padding.  In a block pushed upon another one lastBlockUsed is  *)
(* still that of the lower one: it does by less than that and the padding. *)
(* Once lastBlockUsed has left the block, the room that is left wraps to a *)
(* huge number, and nothing holds the next allocation in.                  *)
UsedInTop == blocks # << >> => Header + used <= Head(blocks).data

OverrunsOnlyBy ==
  [][\A a \in allocs' \ allocs :
       LET past == a.at + a.size - Head(blocks').data
       IN  /\ a.at = Header => past <= 0
           /\ UsedInTop /\ (blocks = << >> \/ blocks' = blocks) => past < Align
           /\ blocks' # blocks => past < used + Align]_arenaVars
=============================================================================
