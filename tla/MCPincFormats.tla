---------------------------- MODULE MCPincFormats ----------------------------
(***************************************************************************)
(* An instance of PincFormats: three formats without alpha and two with,   *)
(* among them two that differ in alpha only and two of one score.          *)
(***************************************************************************)
EXTENDS PincFormats

MCDepths == {<<8, 8, 8, 0>>, <<8, 8, 8, 8>>, <<5, 6, 5, 0>>, <<10, 10, 10, 2>>, <<5, 5, 6, 0>>}
=============================================================================
