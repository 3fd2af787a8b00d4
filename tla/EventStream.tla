---------------------------- MODULE EventStream ----------------------------
(***************************************************************************)
(* What pincStep promises: the events of the windowing system reach the    *)
(* user in the order they happened, each once, in batches.  A batch is     *)
(* replaced by the next one as a whole.  An event may be dropped, but only *)
(* as it is taken from the queue and only together with the end of a       *)
(* batch: those behind it wait for the next one.                           *)
(***************************************************************************)
EXTENDS Naturals, Sequences

CONSTANTS
  Events,
  Counts     \* how many entries of the stream an event may be

VARIABLES
  pending,   \* what happened and was not delivered yet, oldest first
  batch      \* what the user sees

vars == <<pending, batch>>

Init == pending = << >> /\ batch = << >>

(* Something happens that makes k entries. *)
Happen(e, k) ==
  /\ pending' = pending \o [i \in 1 .. k |-> e]
  /\ UNCHANGED batch

Deliver(n) ==
  /\ batch' = SubSeq(pending, 1, n)
  /\ pending' = SubSeq(pending, n + 1, Len(pending))

(* The n oldest events are delivered, and the one after them is dropped. *)
DeliverAndDrop(n) ==
  /\ n < Len(pending)
  /\ batch' = SubSeq(pending, 1, n)
  /\ pending' = SubSeq(pending, n + 2, Len(pending))

Next ==
  \/ \E e \in Events, k \in Counts : Happen(e, k)
  \/ \E n \in 0 .. Len(pending) : Deliver(n) \/ DeliverAndDrop(n)

Spec == Init /\ [][Next]_vars
=============================================================================
