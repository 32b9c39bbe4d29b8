-------------------------- MODULE DeployLeaseProofs --------------------------
(***************************************************************************)
(* What DeployLease guarantees whatever the lease's lifetime: its types for *)
(* any deploys, and that a latecomer is kept out between two of them.       *)
(***************************************************************************)
EXTENDS DeployLease, TLAPS

LEMMA LessIsLess == ASSUME NEW n \in 0..Ttl
                    PROVE  Less(n) \in 0..Ttl /\ Less(n) <= n
BY LimitAssumption DEF Less

LEMMA TypeInit == Init => TypeOK
BY LimitAssumption DEF Init, TypeOK, Version, Phase

LEMMA GotoType ==
  ASSUME pc \in [Deployer -> Phase], NEW d \in Deployer, NEW ph \in Phase, Goto(d, ph)
  PROVE  /\ pc' \in [Deployer -> Phase]
         /\ pc'[d] = ph
         /\ \A e \in Deployer : e # d => pc'[e] = pc[e]
BY DEF Goto

LEMMA PutType ==
  ASSUME TypeOK, NEW d \in Deployer, PutLease(d)
  PROVE  lease' \in Lease
BY DeployerAssumption DEF TypeOK, PutLease, Lease

LEMMA TickType ==
  ASSUME TypeOK, Tick
  PROVE  TypeOK'
<1>1. left' \in [Deployer -> 0..Ttl]
  BY LessIsLess DEF Tick, TypeOK
<1>2. lease' \in Lease \cup {None}
  BY LessIsLess DEF Tick, TypeOK, Lease
<1> QED
  BY <1>1, <1>2 DEF Tick, TypeOK

LEMMA TypeStep == TypeOK /\ [Next]_vars => TypeOK'
<1> SUFFICES ASSUME TypeOK, [Next]_vars
             PROVE  TypeOK'
  OBVIOUS
<1>1. CASE Tick
  BY <1>1, TickType
<1>2. CASE Expire
  BY <1>2 DEF Expire, TypeOK
<1>3. ASSUME NEW d \in Deployer, Snapshot(d)
      PROVE  TypeOK'
  <2>1. pc' \in [Deployer -> Phase]
    BY <1>3, GotoType DEF Snapshot, TypeOK, Phase, Running
  <2> QED
    BY <1>3, <2>1 DEF Snapshot, TypeOK
<1>4. ASSUME NEW d \in Deployer, ReadLiveWorker(d)
      PROVE  TypeOK'
  <2>1. pc' \in [Deployer -> Phase]
    BY <1>4, GotoType DEF ReadLiveWorker, TypeOK, Phase, Running
  <2>2. left' \in [Deployer -> 0..Ttl]
    BY <1>4, LimitAssumption DEF ReadLiveWorker, TypeOK
  <2> QED
    BY <1>4, <2>1, <2>2 DEF ReadLiveWorker, TypeOK
<1>5. ASSUME NEW d \in Deployer, DecideAcquire(d) \/ RereadLease(d) \/ ReadOwnLease(d) \/ Kill(d)
      PROVE  TypeOK'
  <2>1. \E ph \in Phase : Goto(d, ph)
    BY <1>5 DEF DecideAcquire, RereadLease, ReadOwnLease, Kill, Phase, Running
  <2>2. pc' \in [Deployer -> Phase]
    BY <2>1, GotoType DEF TypeOK
  <2> QED
    BY <1>5, <2>2 DEF DecideAcquire, RereadLease, ReadOwnLease, Kill, TypeOK
<1>6. ASSUME NEW d \in Deployer, WriteLease(d)
      PROVE  TypeOK'
  <2>1. pc' \in [Deployer -> Phase]
    BY <1>6, GotoType DEF WriteLease, TypeOK, Phase, Running
  <2> QED
    BY <1>6, <2>1, PutType DEF WriteLease, TypeOK
<1>7. ASSUME NEW d \in Deployer, Upload(d)
      PROVE  TypeOK'
  <2>1. pc' \in [Deployer -> Phase]
    BY <1>7, GotoType DEF Upload, TypeOK, Phase, Running
  <2>2. live' \in Version
    BY <1>7 DEF Upload, TypeOK, Version
  <2> QED
    BY <1>7, <2>1, <2>2 DEF Upload, TypeOK
<1>8. ASSUME NEW d \in Deployer, DeleteLease(d)
      PROVE  TypeOK'
  <2>1. pc' \in [Deployer -> Phase]
    BY <1>8, GotoType DEF DeleteLease, TypeOK, Phase
  <2> QED
    BY <1>8, <2>1 DEF DeleteLease, TypeOK
<1>9. ASSUME NEW d \in Deployer, RequestFails(d)
      PROVE  TypeOK'
  <2>1. pc' \in [Deployer -> Phase]
    BY <1>9, GotoType DEF RequestFails, TypeOK, Phase
  <2>2. lease' \in Lease \cup {None}
    BY <1>9, PutType DEF RequestFails, TypeOK
  <2> QED
    BY <1>9, <2>1, <2>2 DEF RequestFails, TypeOK
<1>10. CASE UNCHANGED vars
  BY <1>10 DEF vars, TypeOK
<1> QED
  BY <1>1, <1>2, <1>3, <1>4, <1>5, <1>6, <1>7, <1>8, <1>9, <1>10 DEF Next

(* Types of every state.                                                    *)
THEOREM TypeCorrect == Spec => []TypeOK
BY TypeInit, TypeStep, PTL DEF Spec

-----------------------------------------------------------------------------
(* Two deploys with names of their own.                                     *)

Names == \A d, e \in Deployer : d # e => HolderId[d] # HolderId[e]
Two == Names /\ \A d, e, f \in Deployer : d = e \/ d = f \/ e = f

(* A deploy past its decision, and one that has had the lease.              *)
Decided == {"decided", "checked", "acquired", "uploaded", "owned"}
HadIt == {"acquired", "uploaded", "owned", "done", "lost", "failed", "killed"}

FoundHadIt == \A d \in Deployer : \A e \in found[d] : pc[e] \in HadIt

(* Nobody has touched the lease of a holder whom d found, or may find yet,  *)
(* and d has not decided.                                                   *)
OwnRecord(e) == lease = [holder |-> HolderId[e], left |-> left[e]]
Untouched == \A d, e \in Deployer :
  (d # e /\ Holds(e) /\ (pc[d] \in {"idle", "snapped"} \/ e \in found[d])) =>
     pc[d] \notin Decided /\ OwnRecord(e)

FoundOthers == \A d \in Deployer : d \notin found[d]

LeaseInv == TypeOK /\ FoundHadIt /\ FoundOthers /\ Untouched

LEMMA LeaseInit == Init => LeaseInv
<1> SUFFICES ASSUME Init PROVE LeaseInv
  OBVIOUS
<1>1. \A e \in Deployer : ~Holds(e) /\ found[e] = {}
  BY DEF Init, Holds
<1> QED
  BY <1>1, TypeInit DEF LeaseInv, FoundHadIt, FoundOthers, Untouched

(* A step that moves one deploy d on and leaves every lease and every       *)
(* record as they are.                                                      *)
LEMMA MoveStep ==
  ASSUME LeaseInv, NEW d \in Deployer, NEW ph \in Phase, Goto(d, ph),
         UNCHANGED <<lease, left, found>>,
         pc[d] \in HadIt => ph \in HadIt,
         ph \in {"acquired", "uploaded", "owned"} => pc[d] \in {"acquired", "uploaded", "owned"},
         ph \in {"idle", "snapped"} => pc[d] \in {"idle", "snapped"},
         (ph \in Decided /\ pc[d] \notin Decided) =>
            \A e \in found[d] : ~(Holds(e) /\ OwnRecord(e) /\ e # d),
         ph \in Decided => pc[d] \notin {"idle", "snapped"} /\ ph \notin {"idle", "snapped"},
         TypeOK'
  PROVE  LeaseInv'
<1>1. /\ pc' \in [Deployer -> Phase] /\ pc'[d] = ph
      /\ \A e \in Deployer : e # d => pc'[e] = pc[e]
  BY GotoType DEF LeaseInv, TypeOK
<1>2. \A e \in Deployer : Holds(e)' => Holds(e)
  BY <1>1 DEF Holds
<1>3. found \in [Deployer -> SUBSET Deployer]
  BY DEF LeaseInv, TypeOK
<1>4. FoundHadIt'
  BY <1>1, <1>3 DEF LeaseInv, FoundHadIt
<1>5. Untouched'
  <2> SUFFICES ASSUME NEW c \in Deployer, NEW e \in Deployer, c # e, Holds(e)',
                      pc'[c] \in {"idle", "snapped"} \/ e \in found[c]
               PROVE  pc'[c] \notin Decided /\ OwnRecord(e)'
    BY DEF Untouched
  <2>1. Holds(e) /\ (pc[c] \in {"idle", "snapped"} \/ e \in found[c])
    BY <1>1, <1>2
  <2>2. pc[c] \notin Decided /\ OwnRecord(e)
    BY <2>1 DEF LeaseInv, Untouched
  <2>3. OwnRecord(e)'
    BY <2>2 DEF OwnRecord
  <2>4. pc'[c] \notin Decided
    BY <1>1, <2>1, <2>2
  <2> QED
    BY <2>3, <2>4
<1> QED
  BY <1>4, <1>5 DEF LeaseInv, FoundOthers

(* Steps of two deploys that change a lease: by Untouched, nobody who holds *)
(* one is found, or can be, by the deploy that writes or deletes.           *)
LEMMA AlterStep ==
  ASSUME LeaseInv, Two, NEW d \in Deployer, NEW ph \in HadIt, Goto(d, ph),
         pc[d] \in {"checked", "owned"},
         UNCHANGED <<left, found>>,
         ph = "acquired" => OwnRecord(d)',
         ph \notin {"uploaded", "owned"},
         TypeOK'
  PROVE  LeaseInv'
<1>1. /\ pc' \in [Deployer -> Phase] /\ pc'[d] = ph
      /\ \A e \in Deployer : e # d => pc'[e] = pc[e]
  BY GotoType DEF LeaseInv, TypeOK, HadIt, Phase, Running
<1>2. found \in [Deployer -> SUBSET Deployer]
  BY DEF LeaseInv, TypeOK
<1>3. FoundHadIt'
  BY <1>1, <1>2 DEF LeaseInv, FoundHadIt
<1>4. Untouched'
  <2> SUFFICES ASSUME NEW c \in Deployer, NEW e \in Deployer, c # e, Holds(e)',
                      pc'[c] \in {"idle", "snapped"} \/ e \in found[c]
               PROVE  pc'[c] \notin Decided /\ OwnRecord(e)'
    BY DEF Untouched
  <2>1. CASE e = d
    <3>1. ph = "acquired" /\ pc'[c] = pc[c]
      BY <1>1, <2>1 DEF Holds
    <3>2. pc[c] \notin Decided
      <4>1. CASE pc[c] \in {"idle", "snapped"}
        BY <4>1 DEF Decided
      <4>2. CASE pc[c] \notin {"idle", "snapped"}
        <5>1. d \in found[c]
          BY <1>1, <2>1, <3>1, <4>2
        <5>2. pc[d] \in HadIt
          BY <5>1 DEF LeaseInv, FoundHadIt
        <5>3. pc[d] = "owned"
          BY <5>2 DEF HadIt
        <5>4. Holds(d)
          BY <1>1, <2>1, <5>3 DEF Holds
        <5> QED
          BY <2>1, <5>1, <5>4 DEF LeaseInv, Untouched
      <4> QED
        BY <4>1, <4>2
    <3> QED
      BY <2>1, <3>1, <3>2
  <2>2. CASE e # d
    <3>1. c = d
      BY <2>2 DEF Two
    <3>2. Holds(e) /\ e \in found[d]
      <4>1. ph \notin {"idle", "snapped"}
        BY DEF HadIt
      <4> QED
        BY <1>1, <2>2, <3>1, <4>1 DEF Holds
    <3>3. pc[d] \notin Decided
      BY <2>2, <3>2 DEF LeaseInv, Untouched
    <3> QED
      BY <3>3 DEF Decided
  <2> QED
    BY <2>1, <2>2
<1> QED
  BY <1>3, <1>4 DEF LeaseInv, FoundOthers

(* Whoever begins to acquire finds the lease of the holder on file.         *)
LEMMA BeginStep ==
  ASSUME LeaseInv, TypeOK', NEW d \in Deployer, ReadLiveWorker(d)
  PROVE  LeaseInv'
<1>1. /\ pc[d] = "snapped" /\ pc'[d] = "listed" /\ pc' \in [Deployer -> Phase]
      /\ \A e \in Deployer : e # d => pc'[e] = pc[e] /\ left'[e] = left[e]
      /\ lease' = lease
  BY GotoType DEF ReadLiveWorker, LeaseInv, TypeOK, Phase, Running
<1>2. /\ found'[d] = {e \in Deployer \ {d} : Holds(e)}
      /\ \A e \in Deployer : e # d => found'[e] = found[e]
      /\ found \in [Deployer -> SUBSET Deployer]
  BY DEF ReadLiveWorker, LeaseInv, TypeOK
<1>3. \A e \in Deployer : Holds(e)' => e # d /\ Holds(e)
  BY <1>1 DEF Holds
<1>4. \A e \in found'[d] : pc'[e] \in HadIt
  BY <1>1, <1>2 DEF Holds, HadIt
<1>5. \A c \in Deployer : c # d => d \notin found[c]
  BY <1>1 DEF LeaseInv, FoundHadIt, HadIt
<1>6. FoundHadIt' /\ FoundOthers'
  <2>1. FoundHadIt'
    BY <1>1, <1>2, <1>4, <1>5 DEF LeaseInv, FoundHadIt
  <2>2. FoundOthers'
    BY <1>2 DEF LeaseInv, FoundOthers
  <2> QED
    BY <2>1, <2>2
<1>7. Untouched'
  <2> SUFFICES ASSUME NEW c \in Deployer, NEW e \in Deployer, c # e, Holds(e)',
                      pc'[c] \in {"idle", "snapped"} \/ e \in found'[c]
               PROVE  pc'[c] \notin Decided /\ OwnRecord(e)'
    BY DEF Untouched
  <2>1. e # d /\ Holds(e) /\ (pc[c] \in {"idle", "snapped"} \/ e \in found[c])
    BY <1>1, <1>2, <1>3
  <2>2. pc[c] \notin Decided /\ OwnRecord(e)
    BY <2>1 DEF LeaseInv, Untouched
  <2>3. OwnRecord(e)'
    BY <1>1, <2>1, <2>2 DEF OwnRecord
  <2>4. pc'[c] \notin Decided
    BY <1>1, <2>2 DEF Decided
  <2> QED
    BY <2>3, <2>4
<1> QED
  BY <1>6, <1>7 DEF LeaseInv

(* Time passes for a holder as it does for the record on file.              *)
LEMMA TimeStep ==
  ASSUME LeaseInv, Tick
  PROVE  LeaseInv'
<1>1. TypeOK' /\ left \in [Deployer -> 0..Ttl] /\ UNCHANGED <<pc, found>>
  BY TickType DEF LeaseInv, TypeOK, Tick
<1>2. \A e \in Deployer : Holds(e)' =>
         Holds(e) /\ left'[e] = Less(left[e])
  <2> SUFFICES ASSUME NEW e \in Deployer, Holds(e)'
               PROVE  Holds(e) /\ left'[e] = Less(left[e])
    OBVIOUS
  <2>1. pc[e] \in {"acquired", "uploaded", "owned"} /\ left'[e] > 0
    BY <1>1 DEF Holds
  <2>2. left'[e] = Less(left[e])
    BY <2>1 DEF Tick, Running
  <2>3. left[e] > 0
    BY <1>1, <2>1, <2>2, LimitAssumption DEF Less
  <2> QED
    BY <2>1, <2>2, <2>3 DEF Holds
<1>3. Untouched'
  <2> SUFFICES ASSUME NEW c \in Deployer, NEW e \in Deployer, c # e, Holds(e)',
                      pc[c] \in {"idle", "snapped"} \/ e \in found[c]
               PROVE  pc[c] \notin Decided /\ OwnRecord(e)'
    BY <1>1 DEF Untouched
  <2>1. pc[c] \notin Decided /\ OwnRecord(e) /\ lease \in Lease
    <3>1. pc[c] \notin Decided /\ OwnRecord(e)
      BY <1>2 DEF LeaseInv, Untouched
    <3> QED
      BY <3>1, <1>1, DeployerAssumption DEF OwnRecord, Lease
  <2>2. lease # None
    BY <2>1, NoneAssumption, LimitAssumption DEF Lease
  <2>3. lease' = [lease EXCEPT !.left = Less(lease.left)]
    BY <2>2 DEF Tick
  <2>4. lease' = [holder |-> HolderId[e], left |-> Less(left[e])]
    BY <2>1, <2>3 DEF OwnRecord, Lease
  <2> QED
    BY <1>2, <2>1, <2>4 DEF OwnRecord
<1> QED
  BY <1>1, <1>3 DEF LeaseInv, FoundHadIt, FoundOthers

LEMMA ExpireStep ==
  ASSUME LeaseInv, Expire
  PROVE  LeaseInv'
<1>1. \A e \in Deployer : OwnRecord(e) => ~Holds(e)
  BY LimitAssumption DEF Expire, OwnRecord, Holds, LeaseInv, TypeOK
<1>2. TypeOK'
  BY DEF Expire, LeaseInv, TypeOK
<1>3. Untouched'
  BY <1>1 DEF Expire, LeaseInv, Untouched, Holds
<1> QED
  BY <1>2, <1>3 DEF Expire, LeaseInv, FoundHadIt, FoundOthers

(* A lease on file of a holder that d found keeps d out.                    *)
LEMMA FoundBlocks ==
  ASSUME LeaseInv, Two, NEW d \in Deployer, NEW e \in Deployer, e # d, Holds(e), OwnRecord(e)
  PROVE  Blocks(d)
<1>1. /\ lease \in [holder: Holder, left: Nat]
      /\ lease.holder = HolderId[e] /\ lease.left = left[e] /\ left[e] > 0
  BY DeployerAssumption, LimitAssumption DEF OwnRecord, LeaseInv, TypeOK, Holds
<1>2. HolderId[e] # HolderId[d]
  BY DEF Two, Names
<1> QED
  BY <1>1, <1>2, NoneAssumption DEF Blocks

LEMMA LeaseStep == Two /\ LeaseInv /\ [Next]_vars => LeaseInv'
<1> SUFFICES ASSUME Two, LeaseInv, [Next]_vars
             PROVE  LeaseInv'
  OBVIOUS
<1>1. TypeOK' /\ \A d \in Deployer : found[d] \subseteq Deployer
  BY TypeStep DEF LeaseInv, TypeOK
<1>2. CASE Tick
  BY <1>2, TimeStep
<1>3. CASE Expire
  BY <1>3, ExpireStep
<1>4. ASSUME NEW d \in Deployer, Snapshot(d)
      PROVE  LeaseInv'
  <2>1. "snapped" \in Phase /\ "snapped" \notin Decided
    BY DEF Phase, Running, Decided
  <2> QED
    BY <1>1, <1>4, <2>1, MoveStep DEF Snapshot, HadIt
<1>5. ASSUME NEW d \in Deployer, ReadLiveWorker(d)
      PROVE  LeaseInv'
  BY <1>1, <1>5, BeginStep
<1>6. ASSUME NEW d \in Deployer, DecideAcquire(d)
      PROVE  LeaseInv'
  <2>1. {"refused", "decided"} \subseteq Phase
    BY DEF Phase, Running
  <2>2. PICK ph \in {"refused", "decided"} : Goto(d, ph) /\ (ph = "decided" => ~Blocks(d))
    BY <1>6 DEF DecideAcquire
  <2>3. ph = "decided" => \A e \in found[d] : ~(Holds(e) /\ OwnRecord(e) /\ e # d)
    BY <1>1, <2>2, FoundBlocks
  <2> QED
    BY <1>1, <1>6, <2>1, <2>2, <2>3, MoveStep DEF DecideAcquire, HadIt, Decided
<1>7. ASSUME NEW d \in Deployer, RereadLease(d)
      PROVE  LeaseInv'
  <2>1. {"refused", "checked"} \subseteq Phase
    BY DEF Phase, Running
  <2>2. PICK ph \in {"refused", "checked"} : Goto(d, ph)
    BY <1>7 DEF RereadLease
  <2> QED
    BY <1>1, <1>7, <2>1, <2>2, MoveStep DEF RereadLease, HadIt, Decided
<1>8. ASSUME NEW d \in Deployer, WriteLease(d)
      PROVE  LeaseInv'
  <2>1. OwnRecord(d)' /\ "acquired" \in HadIt
    BY <1>8 DEF WriteLease, PutLease, OwnRecord, HadIt
  <2> QED
    BY <1>1, <1>8, <2>1, AlterStep DEF WriteLease
<1>9. ASSUME NEW d \in Deployer, Upload(d)
      PROVE  LeaseInv'
  <2>1. "uploaded" \in Phase
    BY DEF Phase, Running
  <2> QED
    BY <1>1, <1>9, <2>1, MoveStep DEF Upload, HadIt, Decided
<1>10. ASSUME NEW d \in Deployer, ReadOwnLease(d)
       PROVE  LeaseInv'
  <2>1. {"done", "owned", "lost"} \subseteq Phase
    BY DEF Phase, Running
  <2>2. PICK ph \in {"done", "owned", "lost"} : Goto(d, ph)
    BY <1>10 DEF ReadOwnLease
  <2> QED
    BY <1>1, <1>10, <2>1, <2>2, MoveStep DEF ReadOwnLease, HadIt, Decided
<1>11. ASSUME NEW d \in Deployer, DeleteLease(d)
       PROVE  LeaseInv'
  <2>1. "done" \in HadIt
    BY DEF HadIt
  <2> QED
    BY <1>1, <1>11, <2>1, AlterStep DEF DeleteLease
<1>12. ASSUME NEW d \in Deployer, RequestFails(d)
       PROVE  LeaseInv'
  <2>1. "failed" \in HadIt /\ "failed" \in Phase /\ "failed" \notin Decided
    BY DEF HadIt, Phase, Decided
  <2>2. CASE pc[d] \in {"checked", "owned"}
    BY <1>1, <1>12, <2>1, <2>2, AlterStep DEF RequestFails
  <2>3. CASE pc[d] \notin {"checked", "owned"}
    BY <1>1, <1>12, <2>1, <2>3, MoveStep DEF RequestFails
  <2> QED
    BY <2>2, <2>3
<1>13. ASSUME NEW d \in Deployer, Kill(d)
       PROVE  LeaseInv'
  <2>1. "killed" \in HadIt /\ "killed" \in Phase /\ "killed" \notin Decided
    BY DEF HadIt, Phase, Decided
  <2> QED
    BY <1>1, <1>13, <2>1, MoveStep DEF Kill
<1>14. CASE UNCHANGED vars
  BY <1>1, <1>14 DEF vars, LeaseInv, FoundHadIt, FoundOthers, Untouched, Holds, OwnRecord
<1> QED
  BY <1>2, <1>3, <1>4, <1>5, <1>6, <1>7, <1>8, <1>9, <1>10, <1>11, <1>12, <1>13, <1>14 DEF Next

(* Between two deploys with names of their own, one that began to acquire   *)
(* while the other held the lease never holds it as long as that one does,  *)
(* however long leases last and wherever either is killed.                  *)
THEOREM LatecomersAreKeptOut == Two => (Spec => []LatecomersKeptOut)
<1>1. Two /\ LeaseInv => LatecomersKeptOut
  <2> SUFFICES ASSUME LeaseInv, NEW d \in Deployer, Holds(d), NEW e \in found[d], Holds(e)
               PROVE  FALSE
    BY DEF LatecomersKeptOut
  <2>1. e \in Deployer /\ e # d
    BY DEF LeaseInv, TypeOK, FoundOthers
  <2>2. pc[d] \notin Decided
    BY <2>1 DEF LeaseInv, Untouched
  <2> QED
    BY <2>2 DEF Decided, Holds
<1> SUFFICES ASSUME Two
             PROVE  Spec => []LatecomersKeptOut
  OBVIOUS
<1>2. Init => LeaseInv
  BY LeaseInit
<1>3. LeaseInv /\ [Next]_vars => LeaseInv'
  BY LeaseStep
<1>4. LeaseInv => LatecomersKeptOut
  BY <1>1
<1> QED
  BY <1>2, <1>3, <1>4, PTL DEF Spec

-----------------------------------------------------------------------------
(* A lease that a killed or failed deploy left on file.                     *)
Dead(d) == pc[d] \in {"killed", "failed"}
Abandoned(d) == Dead(d) /\ lease # None /\ lease.holder = HolderId[d]

(* Nobody renews it: from one step to the next it is gone, or another's, or *)
(* no longer than it was; and time that passes takes from what is left.     *)
OnlyLapses(d) ==
  /\ Dead(d) => pc'[d] = pc[d]
  /\ Abandoned(d) => \/ lease' = None
                     \/ lease'.holder # HolderId[d]
                     \/ /\ lease'.left <= lease.left
                        /\ Tick /\ lease.left > 0 => lease'.left < lease.left

LEMMA DeadStayDead ==
  ASSUME TypeOK, Next, NEW d \in Deployer, Dead(d)
  PROVE  pc'[d] = pc[d]
<1>1. ASSUME NEW e \in Deployer, NEW ph, Goto(e, ph), e # d
      PROVE  pc'[d] = pc[d]
  BY <1>1 DEF Goto, TypeOK
<1>2. CASE Tick \/ Expire
  BY <1>2 DEF Tick, Expire
<1>3. ASSUME NEW e \in Deployer, Snapshot(e) \/ ReadLiveWorker(e) \/ DecideAcquire(e) \/ RereadLease(e)
      PROVE  pc'[d] = pc[d]
  <2>1. e # d
    BY <1>3 DEF Snapshot, ReadLiveWorker, DecideAcquire, RereadLease, Dead
  <2> QED
    BY <1>1, <1>3, <2>1 DEF Snapshot, ReadLiveWorker, DecideAcquire, RereadLease
<1>4. ASSUME NEW e \in Deployer, WriteLease(e) \/ Upload(e) \/ ReadOwnLease(e) \/ DeleteLease(e)
      PROVE  pc'[d] = pc[d]
  <2>1. e # d
    BY <1>4 DEF WriteLease, Upload, ReadOwnLease, DeleteLease, Dead
  <2> QED
    BY <1>1, <1>4, <2>1 DEF WriteLease, Upload, ReadOwnLease, DeleteLease
<1>5. ASSUME NEW e \in Deployer, RequestFails(e) \/ Kill(e)
      PROVE  pc'[d] = pc[d]
  <2>1. e # d
    BY <1>5 DEF RequestFails, Kill, Running, Dead
  <2> QED
    BY <1>1, <1>5, <2>1 DEF RequestFails, Kill
<1> QED
  BY <1>2, <1>3, <1>4, <1>5 DEF Next

(* What one step may make of the lease on file.                             *)
LEMMA LeaseMove ==
  ASSUME Next
  PROVE  \/ lease' = lease /\ ~Tick
         \/ lease' = None
         \/ \E e \in Deployer : pc[e] = "checked" /\ PutLease(e)
         \/ Tick /\ lease # None /\ lease' = [lease EXCEPT !.left = Less(lease.left)]
<1>1. CASE Tick
  BY <1>1 DEF Tick
<1>2. CASE ~Tick
  BY <1>2 DEF Next, Expire, Snapshot, ReadLiveWorker, DecideAcquire, RereadLease, WriteLease, Upload,
              ReadOwnLease, DeleteLease, RequestFails, Kill
<1> QED
  BY <1>1, <1>2

(* Whatever the others do, and however many they are, as long as each has a *)
(* name of its own: the lease of a deploy that was cut off is never         *)
(* prolonged.  What is left to AbandonedLeaseLapses is that time passes.    *)
THEOREM AbandonedOnlyLapses == Names => (Spec => [][\A d \in Deployer : OnlyLapses(d)]_vars)
<1> SUFFICES ASSUME Names
             PROVE  Spec => [][\A d \in Deployer : OnlyLapses(d)]_vars
  OBVIOUS
<1>1. ASSUME TypeOK, Next
      PROVE  \A d \in Deployer : OnlyLapses(d)
  <2> SUFFICES ASSUME NEW d \in Deployer, Abandoned(d), lease' # None, lease'.holder = HolderId[d]
               PROVE  /\ lease'.left <= lease.left
                      /\ Tick /\ lease.left > 0 => lease'.left < lease.left
    BY <1>1, DeadStayDead DEF OnlyLapses
  <2>1. lease \in Lease /\ lease.left \in 0..Ttl /\ Ttl \in Nat
    BY <1>1, LimitAssumption DEF TypeOK, Abandoned, Lease
  <2>2. CASE lease' = lease /\ ~Tick
    BY <2>1, <2>2
  <2>3. ASSUME NEW e \in Deployer, pc[e] = "checked", PutLease(e)
        PROVE  FALSE
    <3>1. e # d /\ lease'.holder = HolderId[e]
      BY <2>3 DEF Abandoned, Dead, PutLease
    <3> QED
      BY <3>1 DEF Names
  <2>4. CASE Tick /\ lease' = [lease EXCEPT !.left = Less(lease.left)]
    <3>1. lease'.left = Less(lease.left)
      BY <2>1, <2>4 DEF Lease
    <3> QED
      BY <2>1, <3>1 DEF Less
  <2> QED
    BY <1>1, <2>2, <2>3, <2>4, LeaseMove
<1> QED
  BY <1>1, TypeCorrect, PTL DEF Spec
=============================================================================
