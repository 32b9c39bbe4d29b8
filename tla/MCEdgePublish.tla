--------------------------- MODULE MCEdgePublish ---------------------------
(***************************************************************************)
(* Small instances of EdgePublish.                                         *)
(***************************************************************************)
EXTENDS EdgePublish, TLC

CONSTANTS c1, c2, d1, d2

Good == [coord |-> c1, token |-> TRUE, metaCoord |-> c1, public |-> TRUE,
         sha256 |-> d1, format |-> "tgz", bytes |-> d1, defect |-> "none"]

(* Publishers that race: two contents for c1, one of them in both formats,  *)
(* and the first content again under c2.                                    *)
RacingPayloads ==
  {Good,
   [Good EXCEPT !.format = "zip"],
   [Good EXCEPT !.sha256 = d2, !.bytes = d2],
   [Good EXCEPT !.coord = c2, !.metaCoord = c2]}

(* One request per admission check, each wrong in one respect, and two      *)
(* right ones.                                                              *)
MixedPayloads ==
  {Good,
   [Good EXCEPT !.sha256 = d2, !.bytes = d2, !.format = "zip"],
   [Good EXCEPT !.token = FALSE],
   [Good EXCEPT !.metaCoord = c2],
   [Good EXCEPT !.public = FALSE, !.sha256 = d2, !.bytes = d2],
   [Good EXCEPT !.sha256 = d2],
   [Good EXCEPT !.format = "rar"],
   [Good EXCEPT !.coord = c2, !.metaCoord = c2, !.format = ""]}
  \cup {[Good EXCEPT !.defect = d] : d \in BodyDefect \cup MetaDefect \cup FileDefect}

InvocationSymmetry == Permutations(Invocation)
=============================================================================
