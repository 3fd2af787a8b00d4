--------------------------- MODULE IndexAllocator ---------------------------
(***************************************************************************)
(* What a slot pool promises its callers: the slots in use are distinct    *)
(* members of Index, a slot is handed out only when nobody holds it, and   *)
(* giving one back disturbs no other.  Index is as small as the largest    *)
(* number of slots ever in use at once.                                    *)
(***************************************************************************)
CONSTANT Index

VARIABLE live

Init == live = {}

Take == \E i \in Index \ live : live' = live \cup {i}

Give == \E i \in live : live' = live \ {i}

Reset == live' = {}

Next == Take \/ Give \/ Reset

Spec == Init /\ [][Next]_live
=============================================================================
