--------------------------- MODULE PincGlContexts ---------------------------
(***************************************************************************)
(* Which OpenGL context is current.  A complete context has a slot in the  *)
(* pool of raw contexts (pinc_main.c), where the address of SDL's context  *)
(* and the handle are kept.  pincSdl2glGetCurrentContext (pinc_sdl2.c)     *)
(* searches the slots below the pool's num for the address SDL calls       *)
(* current, and does not ask whether a slot is free; freeing one leaves    *)
(* its contents.  SDL may give a new context the address of a deleted one. *)
(* pincDeinit deletes no SDL context: SDL_Quit does, or they are lost.     *)
(* The windows contexts are bound to are in PincSdl2Windows.               *)
(***************************************************************************)
EXTENDS PoolOps, FiniteSets, FiniteSetsExt

CONSTANTS
  Handles,     \* handles of OpenGL contexts
  NoHandle,
  Addresses,   \* addresses of SDL contexts
  Null

ASSUME PincGlContextsAssumption ==
  /\ IsFiniteSet(Handles) /\ NoHandle \notin Handles
  /\ Null \notin Addresses

VARIABLES
  kind,          \* the object behind each handle
  index,         \* the slot of each handle's raw context
  contextPool,   \* staticState.rawOpenglContextHandleObjects
  slots,         \* RawOpenglContextObject in each slot
  current,       \* SDL_GL_GetCurrentContext
  lost,          \* SDL's contexts that pincDeinit left behind
  peak           \* the most contexts that were complete at once

glVars == <<kind, index, contextPool, slots, current, lost, peak>>

Slots == 0 .. (Cardinality(Handles) - 1)
Unused == [handle |-> Null, front |-> NoHandle]

Complete == {h \in Handles : kind[h] = "complete"}
SdlContext(h) == slots[index[h]].handle
Made == {SdlContext(h) : h \in Complete} \ {Null}

(* What SDL_GL_CreateContext may return: null, or an address not in use. *)
NewContexts == (Addresses \cup {Null}) \ (Made \cup lost)

GlInit ==
  /\ kind = [h \in Handles |-> "none"]
  /\ index = [h \in Handles |-> 0]
  /\ contextPool = EmptyPool
  /\ slots = [i \in Slots |-> Unused]
  /\ current = Null
  /\ lost = {}
  /\ peak = 0

(* pincOpenglCreateContextIncomplete *)
CreateContextIncomplete(h) ==
  /\ kind[h] = "none"
  /\ kind' = [kind EXCEPT ![h] = "incomplete"]
  /\ UNCHANGED <<index, contextPool, slots, current, lost, peak>>

(* pincOpenglCompleteContext: the object becomes a context, whether SDL    *)
(* makes one (and nothing current) or not.  The faulty variant does not    *)
(* write the handle to the slot if a context had it before.                *)
CompleteContextKeepsFront(h, a) ==
  /\ kind[h] = "incomplete"
  /\ LET i == NextSlot(contextPool)
     IN  /\ index' = [index EXCEPT ![h] = i]
         /\ slots' = [slots EXCEPT ![i] =
                        [handle |-> a, front |-> IF @.front = NoHandle THEN h ELSE @.front]]
  /\ contextPool' = PoolAlloc(contextPool)
  /\ kind' = [kind EXCEPT ![h] = "complete"]
  /\ peak' = Max({peak, Cardinality(Complete) + 1})
  /\ current' = IF a = Null THEN current ELSE Null
  /\ UNCHANGED lost

CompleteContext(h, a) ==
  /\ kind[h] = "incomplete"
  /\ LET i == NextSlot(contextPool)
     IN  /\ index' = [index EXCEPT ![h] = i]
         /\ slots' = [slots EXCEPT ![i] = [handle |-> a, front |-> h]]
  /\ contextPool' = PoolAlloc(contextPool)
  /\ kind' = [kind EXCEPT ![h] = "complete"]
  /\ peak' = Max({peak, Cardinality(Complete) + 1})
  /\ current' = IF a = Null THEN current ELSE Null
  /\ UNCHANGED lost

(* pincOpenglDeinitContext; SDL makes nothing current if it deletes the    *)
(* context that is.                                                        *)
DeinitContext(h) ==
  /\ kind[h] # "none"
  /\ IF kind[h] = "complete"
     THEN /\ contextPool' = PoolFree(contextPool, index[h])
          /\ current' = IF current = SdlContext(h) THEN Null ELSE current
     ELSE UNCHANGED <<contextPool, current>>
  /\ kind' = [kind EXCEPT ![h] = "none"]
  /\ UNCHANGED <<index, slots, lost, peak>>

(* pincOpenglMakeCurrent with a complete context or none, as when the      *)
(* window bound to it is destroyed.  SDL may refuse.                       *)
MakeCurrent(h) ==
  /\ h = NoHandle \/ h \in Complete
  /\ current' \in {current, IF h = NoHandle THEN Null ELSE SdlContext(h)}
  /\ UNCHANGED <<kind, index, contextPool, slots, lost, peak>>

(* pincDeinit frees the pool's arrays, and finds no context to deinit:     *)
(* pincGetObjectType has no type for them.  pincSdl2deinit quits SDL, and  *)
(* with it all contexts, or returns before that at its assertion (a listed *)
(* dummy window, see PincSdl2Windows): then the contexts live on, and the  *)
(* current one stays current unless its window is destroyed.               *)
DeinitContexts ==
  /\ kind' = [h \in Handles |-> "none"]
  /\ index' = [h \in Handles |-> 0]
  /\ contextPool' = EmptyPool
  /\ slots' = [i \in Slots |-> Unused]
  /\ peak' = 0
  /\ \/ current' = Null /\ lost' = {}
     \/ current' \in {current, Null} /\ lost' = lost \cup Made

GlNext ==
  \/ \E h \in Handles :
       \/ CreateContextIncomplete(h)
       \/ \E a \in NewContexts : CompleteContext(h, a)
       \/ DeinitContext(h)
  \/ \E h \in Handles \cup {NoHandle} : MakeCurrent(h)
  \/ DeinitContexts

GlSpec == GlInit /\ [][GlNext]_glVars

-----------------------------------------------------------------------------
(* pincOpenglGetCurrentContext *)
Holding(a) == {i \in 0 .. (contextPool.num - 1) : slots[i].handle = a}

GetCurrentContext ==
  IF current = Null \/ Holding(current) = {} THEN NoHandle ELSE slots[Min(Holding(current))].front

(* "Linear search is probably the fastest solution actually, most programs *)
(* will have at most 1 or 2 opengl contexts" (pinc_sdl2.c:1523): for a     *)
(* program that never has more than two at once the search is also right,  *)
(* whatever addresses SDL uses again and whichever contexts fail.  With    *)
(* three it is wrong only if a free slot below the current context's own   *)
(* still has its address.  A current context of before pincDeinit is no    *)
(* object's any more, and none is found.                                   *)
CurrentContextFound ==
  current # Null =>
    \/ current \in lost /\ GetCurrentContext = NoHandle
    \/ \E h \in Complete :
         /\ SdlContext(h) = current
         /\ \/ GetCurrentContext = h
            \/ /\ peak > 2
               /\ \E i \in FreeSlots(contextPool) : i < index[h] /\ slots[i].handle = current

-----------------------------------------------------------------------------
(* What CurrentContextFound rests on: complete contexts have slots of      *)
(* their own and contexts of their own, SDL's current one is among them or *)
(* lost, and no slot has a lost one.                                       *)
UsedSlots == {index[h] : h \in Complete}

ContextTypes ==
  /\ kind \in [Handles -> {"none", "incomplete", "complete"}]
  /\ index \in [Handles -> Nat]
  /\ contextPool \in Pools
  /\ slots \in [Slots -> [handle : Addresses \cup {Null}, front : Handles \cup {NoHandle}]]
  /\ current \in Addresses \cup {Null}
  /\ peak \in Nat

ContextsApart ==
  /\ \A h \in Complete : slots[index[h]].front = h
  /\ \A g, h \in Complete : SdlContext(g) = SdlContext(h) => g = h \/ SdlContext(h) = Null

CurrentIsComplete ==
  current # Null => current \in lost \/ \E h \in Complete : SdlContext(h) = current

LostApart == lost \subseteq Addresses /\ \A i \in Slots : slots[i].handle \notin lost

(* No more slots than contexts at once, and no more of those than handles. *)
SlotsCounted ==
  /\ contextPool.num <= peak
  /\ Cardinality(Complete) <= peak
  /\ peak <= Cardinality(Handles)

(* Of two slots only the first can be free below a used one, and it was    *)
(* freed when the other's context existed, so it has another address.      *)
TwoContexts ==
  peak <= 2 =>
    /\ FreeSlots(contextPool) \subseteq {0}
    /\ 0 \in FreeSlots(contextPool) /\ 1 \in UsedSlots =>
         slots[1].handle = Null \/ slots[0].handle # slots[1].handle

GlIInv ==
  /\ ContextTypes
  /\ Partitioned(contextPool, UsedSlots)
  /\ Fits(contextPool)
  /\ ContextsApart
  /\ CurrentIsComplete
  /\ LostApart
  /\ SlotsCounted
  /\ TwoContexts
=============================================================================
