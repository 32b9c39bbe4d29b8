--------------------------- MODULE MCPublicIntake ---------------------------
(***************************************************************************)
(* A small instance of PublicIntake.                                       *)
(***************************************************************************)
EXTENDS PublicIntake

First == [siteKey |-> TRUE, secret |-> TRUE, signingKey |-> TRUE,
          revision |-> "first", marketing |-> "mail"]
Second == [First EXCEPT !.revision = "second"]
Broken == [Second EXCEPT !.siteKey = FALSE, !.signingKey = FALSE, !.marketing = None]
Envs == <<First, Second, Broken>>
Bodies == {"good", "large", "undecodable"}
=============================================================================
