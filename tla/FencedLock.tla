----------------------------- MODULE FencedLock -----------------------------
(***************************************************************************)
(* What a lease with fencing tokens promises, with no clock and no storage *)
(* in sight: every resource issues the tokens 1, 2, 3, ... and each token  *)
(* to one holder only; a resource has at most one owner, the holder of the *)
(* token issued last; and giving it up never takes it from anybody else.   *)
(* Coordinator implements this specification.                              *)
(***************************************************************************)
EXTENDS Naturals

CONSTANTS Resource, Holder, None

VARIABLES issued,   \* tokens issued for each resource
          owner     \* who owns it, or None

vars == <<issued, owner>>

Init == /\ issued = [r \in Resource |-> 0]
        /\ owner = [r \in Resource |-> None]

(* The previous owner's time may have run out: a new token is what          *)
(* separates the two.                                                       *)
Issue(r, h) == /\ issued' = [issued EXCEPT ![r] = issued[r] + 1]
               /\ owner' = [owner EXCEPT ![r] = [holder |-> h, token |-> issued[r] + 1]]

GiveUp(r) == /\ owner[r] # None
             /\ owner' = [owner EXCEPT ![r] = None]
             /\ UNCHANGED issued

Next == \E r \in Resource : GiveUp(r) \/ \E h \in Holder : Issue(r, h)

Spec == Init /\ [][Next]_vars
=============================================================================
