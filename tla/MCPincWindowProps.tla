------------------------- MODULE MCPincWindowProps -------------------------
(***************************************************************************)
(* An instance of PincWindowProps whose handles may be exchanged.          *)
(***************************************************************************)
EXTENDS PincWindowProps, TLC

HandleSymmetry == Permutations(Handles)
=============================================================================
