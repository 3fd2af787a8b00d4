---------------------------- MODULE SpareWindow ----------------------------
(***************************************************************************)
(* What the SDL2 backend promises about the windows it opens: every open   *)
(* window belongs to one handle, but for at most one that belongs to none. *)
(* The spare window is given to the next handle that needs a window, and   *)
(* no window is opened while there is a spare one.                         *)
(***************************************************************************)
CONSTANTS
  Windows,
  Handles,
  Nobody,   \* the owner of the spare window
  Closed    \* the owner of a window that is not open

VARIABLE owner   \* of each window: a handle, Nobody or Closed

Open == {w \in Windows : owner[w] # Closed}
Spares == {w \in Windows : owner[w] = Nobody}
Has(h) == \E w \in Windows : owner[w] = h

Init == owner = [w \in Windows |-> Closed]

(* A handle gets the spare window, or a new one if there is none. *)
Assign(h) ==
  /\ ~Has(h)
  /\ \E w \in IF Spares = {} THEN Windows \ Open ELSE Spares :
       owner' = [owner EXCEPT ![w] = h]

(* A window is opened for nobody, the first time one is needed. *)
OpenSpare ==
  /\ Open = {}
  /\ \E w \in Windows : owner' = [owner EXCEPT ![w] = Nobody]

(* A handle's window is closed, or kept if no window is spare. *)
Release(h) ==
  \E w \in Windows :
    /\ owner[w] = h
    /\ \/ owner' = [owner EXCEPT ![w] = Closed]
       \/ /\ Spares = {}
          /\ owner' = [owner EXCEPT ![w] = Nobody]

CloseAll == owner' = [w \in Windows |-> Closed]

Next ==
  \/ \E h \in Handles : Assign(h) \/ Release(h)
  \/ OpenSpare
  \/ CloseAll

Spec == Init /\ [][Next]_owner
=============================================================================
