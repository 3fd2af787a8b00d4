---------------------------- MODULE PincObjects ----------------------------
(***************************************************************************)
(* Pinc's object handles (pinc_main.c, pinc_main.h).  A handle is one more *)
(* than a slot of the object pool; the slot says what kind of object it    *)
(* is, and which slot of that kind's own pool holds its contents.          *)
(*                                                                         *)
(* The user passes any handle but 0.  What an object contains (a title and *)
(* flags, a backend pointer, a pixel format) is one value of Data.         *)
(***************************************************************************)
EXTENDS PoolOps

CONSTANTS
  Data,         \* contents of an object
  Stale,        \* whatever a slot that holds no object contains
  UserData,     \* values of the user data pointer
  NoUserData,   \* the null pointer
  Creatable,    \* the kinds of objects that calls create
  MaxObjects    \* bound: objects alive at once

ASSUME PincObjectsAssumption ==
  /\ NoUserData \in UserData
  /\ MaxObjects \in Nat
  /\ Stale \notin Data
  /\ Creatable \subseteq {"incompleteWindow", "incompleteGlContext", "framebufferFormat"}

VARIABLES
  objects,   \* staticState.objects
  table,     \* the PincObject in each slot of it
  pools,     \* the pool of each kind: incompleteWindowObjects, ...
  store      \* the contents of each slot of those

vars == <<objects, table, pools, store>>

Kinds == {"incompleteWindow", "window", "incompleteGlContext", "glContext",
          "framebufferFormat"}

(* pincWindowComplete and pincOpenglCompleteContext replace the object     *)
(* behind the handle by one of another kind.                               *)
Completed == [k \in Kinds |-> CASE k = "incompleteWindow" -> "window"
                                [] k = "incompleteGlContext" -> "glContext"
                                [] OTHER -> k]

(* pincWindowDeinit and pincOpenglDeinitContext; a framebuffer format      *)
(* lives until pincDeinit.                                                 *)
Destroyable == Kinds \ {"framebufferFormat"}

Slots == 0 .. (MaxObjects - 1)

NoObject == [kind |-> "none", index |-> 0, userData |-> NoUserData]

Entries == [kind : Kinds \cup {"none"}, index : Nat, userData : UserData]

(* The slots of the object pool that hold an object, and those that hold   *)
(* one of kind k.                                                          *)
Live == {s \in Slots : table[s].kind # "none"}
OfKind(k) == {s \in Slots : table[s].kind = k}

(* PincObject_ref_window and its siblings: a handle past the end of the    *)
(* pool, of a freed object or of an object of another kind finds nothing.  *)
Lookup(h, k) == h \in 1 .. objects.num /\ table[h - 1].kind = k

Init ==
  /\ objects = EmptyPool
  /\ table = [s \in Slots |-> NoObject]
  /\ pools = [k \in Kinds |-> EmptyPool]
  /\ store = [k \in Kinds |-> [s \in Slots |-> Stale]]

(* PincObject_allocate, and the caller's assignment to the new object. *)
Create(k, d) ==
  LET slot == NextSlot(objects)
      index == NextSlot(pools[k])
  IN  /\ slot < MaxObjects
      /\ objects' = PoolAlloc(objects)
      /\ table' = [table EXCEPT ![slot] =
                     [kind |-> k, index |-> index, userData |-> NoUserData]]
      /\ pools' = [pools EXCEPT ![k] = PoolAlloc(@)]
      /\ store' = [store EXCEPT ![k][index] = d]

(* PincObject_reallocate, as pincWindowComplete and                        *)
(* pincOpenglCompleteContext call it once the backend has made the object, *)
(* and their assignment of the backend's pointer.  The faulty variants     *)
(* keep the old index, or start the user data afresh.                      *)
CompleteKeepsSlot(h, d) ==
  LET old == table[h - 1].kind
      new == Completed[old]
  IN  /\ table' = [table EXCEPT ![h - 1].kind = new]
      /\ pools' = [pools EXCEPT ![old] = PoolFree(@, table[h - 1].index),
                                ![new] = PoolAlloc(@)]
      /\ store' = [store EXCEPT ![new][table[h - 1].index] = d]
      /\ UNCHANGED objects

CompleteForgetsUserData(h, d) ==
  LET old == table[h - 1].kind
      new == Completed[old]
      index == NextSlot(pools[new])
  IN  /\ table' = [table EXCEPT ![h - 1] =
                     [kind |-> new, index |-> index, userData |-> NoUserData]]
      /\ pools' = [pools EXCEPT ![old] = PoolFree(@, table[h - 1].index),
                                ![new] = PoolAlloc(@)]
      /\ store' = [store EXCEPT ![old][table[h - 1].index] = Stale,
                                ![new][index] = d]
      /\ UNCHANGED objects

Complete(h, d) ==
  LET old == table[h - 1].kind
      new == Completed[old]
      index == NextSlot(pools[new])
  IN  /\ table' = [table EXCEPT ![h - 1] =
                     [kind |-> new, index |-> index, userData |-> @.userData]]
      /\ pools' = [pools EXCEPT ![old] = PoolFree(@, table[h - 1].index),
                                ![new] = PoolAlloc(@)]
      /\ store' = [store EXCEPT ![old][table[h - 1].index] = Stale,
                                ![new][index] = d]
      /\ UNCHANGED objects

(* A setter of an incomplete window or context: the caller writes through  *)
(* the reference the lookup returned.                                      *)
Write(h, d) ==
  /\ store' = [store EXCEPT ![table[h - 1].kind][table[h - 1].index] = d]
  /\ UNCHANGED <<objects, table, pools>>

SetUserData(h, u) ==
  /\ h \in 1 .. objects.num
  /\ table[h - 1].kind # "none"
  /\ table' = [table EXCEPT ![h - 1].userData = u]
  /\ UNCHANGED <<objects, pools, store>>

(* PincObject_free *)
Destroy(h) ==
  /\ table' = [table EXCEPT ![h - 1] = NoObject]
  /\ pools' = [pools EXCEPT ![table[h - 1].kind] = PoolFree(@, table[h - 1].index)]
  /\ objects' = PoolFree(objects, h - 1)
  /\ store' = [store EXCEPT ![table[h - 1].kind][table[h - 1].index] = Stale]

(* The pools as pincDeinit leaves them. *)
Deinit ==
  /\ objects' = EmptyPool
  /\ table' = [s \in Slots |-> NoObject]
  /\ pools' = [k \in Kinds |-> EmptyPool]
  /\ store' = [k \in Kinds |-> [s \in Slots |-> Stale]]

Next ==
  \/ \E k \in Creatable, d \in Data : Create(k, d)
  \/ \E h \in 1 .. MaxObjects, k \in {"incompleteWindow", "incompleteGlContext"}, d \in Data :
       Lookup(h, k) /\ (Complete(h, d) \/ Write(h, d))
  \/ \E h \in 1 .. MaxObjects, u \in UserData : SetUserData(h, u)
  \/ \E h \in 1 .. MaxObjects, k \in Destroyable : Lookup(h, k) /\ Destroy(h)
  \/ Deinit

Spec == Init /\ [][Next]_vars

-----------------------------------------------------------------------------
TypeOK ==
  /\ objects \in Pools
  /\ table \in [Slots -> Entries]
  /\ pools \in [Kinds -> Pools]
  /\ store \in [Kinds -> [Slots -> Data \cup {Stale}]]

(* Every live handle owns its slot of the object pool, and two objects of  *)
(* one kind never share a slot of that kind's pool: each used slot has one *)
(* owner, so no write through one handle reaches another's object.         *)
HandlesOwnSlots ==
  /\ Partitioned(objects, Live)
  /\ \A k \in Kinds :
       /\ Partitioned(pools[k], {table[s].index : s \in OfKind(k)})
       /\ \A s, t \in OfKind(k) : table[s].index = table[t].index => s = t

(* The inductive strengthening: each pool's arrays have room. *)
IInv ==
  /\ TypeOK
  /\ HandlesOwnSlots
  /\ Fits(objects)
  /\ \A k \in Kinds : Fits(pools[k])

(* What the handles name: the objects the user sees. *)
map == [h \in {s + 1 : s \in Live} |->
          [kind |-> table[h - 1].kind,
           data |-> store[table[h - 1].kind][table[h - 1].index],
           userData |-> table[h - 1].userData]]

(* The two levels of pools implement one map from handles to objects:      *)
(* creating, completing, writing or destroying one object changes nothing  *)
(* another handle names, a new handle names nothing before, and a          *)
(* destroyed one nothing after.                                            *)
Abstract == INSTANCE HandleMap WITH Handles <- 1 .. MaxObjects
ImplementsHandleMap == Abstract!Spec
=============================================================================
