----------------------------- MODULE MCPincUtf8 -----------------------------
(***************************************************************************)
(* Instances of PincUtf8: every text of up to MaxCodepoints of the chosen  *)
(* codepoints, which lie on both sides of every boundary of the encoding   *)
(* and of the decoder's tests.                                             *)
(***************************************************************************)
EXTENDS PincUtf8, SequencesExt

CONSTANTS Chosen, MaxCodepoints

TextOf(cps) ==
  LET bytes == FlattenSeq([k \in DOMAIN cps |-> Encode(cps[k])])
  IN  [codepoints |-> cps,
       starts |-> [k \in 1 .. Len(cps) + 1 |->
                     FoldLeft(LAMBDA n, c : n + Size(c), 0, SubSeq(cps, 1, k - 1))],
       bytes |-> bytes]

MCTexts == {TextOf(cps) : cps \in UNION {[1 .. n -> Chosen] : n \in 0 .. MaxCodepoints}}
=============================================================================
