----------------------------- MODULE HandleMap -----------------------------
(***************************************************************************)
(* What the user of Pinc sees of its objects: a map from handles to        *)
(* objects, each with a kind, its data and a user data pointer.  Creating  *)
(* an object takes a handle that names nothing; completing one keeps its   *)
(* handle and its user data; every operation touches one handle only.      *)
(***************************************************************************)
CONSTANTS
  Handles,       \* the handles there are
  Kinds,         \* the kinds of objects
  Completed,     \* [Kinds -> Kinds], what completing an object makes of it
  Data,          \* the contents of an object
  UserData,      \* what the user may attach to an object
  NoUserData     \* the user data of a new object

VARIABLE map

Init == map = [h \in {} |-> NoUserData]

Create ==
  \E h \in Handles \ DOMAIN map, k \in Kinds, d \in Data :
    map' = [x \in DOMAIN map \cup {h} |->
              IF x = h THEN [kind |-> k, data |-> d, userData |-> NoUserData]
              ELSE map[x]]

Complete ==
  \E h \in DOMAIN map, d \in Data :
    /\ Completed[map[h].kind] # map[h].kind
    /\ map' = [map EXCEPT ![h] = [kind |-> Completed[map[h].kind], data |-> d,
                                  userData |-> map[h].userData]]

Write ==
  \E h \in DOMAIN map, d \in Data :
    map' = [map EXCEPT ![h] = [kind |-> map[h].kind, data |-> d,
                               userData |-> map[h].userData]]

SetUserData ==
  \E h \in DOMAIN map, u \in UserData :
    map' = [map EXCEPT ![h] = [kind |-> map[h].kind, data |-> map[h].data,
                               userData |-> u]]

Destroy ==
  \E h \in DOMAIN map : map' = [x \in DOMAIN map \ {h} |-> map[x]]

Clear == map' = [h \in {} |-> NoUserData]

Next == Create \/ Complete \/ Write \/ SetUserData \/ Destroy \/ Clear

Spec == Init /\ [][Next]_map
=============================================================================
