--------------------------- MODULE MCDeployLease ---------------------------
(***************************************************************************)
(* Small instances of DeployLease, in which every deploy has a holder name *)
(* of its own.                                                             *)
(***************************************************************************)
EXTENDS DeployLease

OwnHolder == [d \in Deployer |-> d]

(* Behaviours in which no time passes: no request is slow, nothing expires. *)
InstantSpec == Init /\ [][Next /\ UNCHANGED left]_vars
=============================================================================
