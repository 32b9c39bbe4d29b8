---------------------------- MODULE DeployLease ----------------------------
(***************************************************************************)
(* Deploying one Worker under the lease of workers/scripts/cf-lease.mjs.   *)
(* A deploy is three processes in a row: "snapshot" (read the live         *)
(* modified_on), "acquire" (read the live script again, decide, look at    *)
(* the lease once more, PUT it) and, after wrangler's upload, "release"    *)
(* (read the lease, DELETE it).  Every read and write is a request of its  *)
(* own to Cloudflare, so deploys interleave between any two of them; the   *)
(* GitHub workflow runs one deploy at a time, operators whenever they      *)
(* like.  A deploy can be killed anywhere and leaves its lease behind.     *)
(***************************************************************************)
EXTENDS Integers

CONSTANTS Deployer,   \* deploys of this Worker; each runs once
          CI,         \* those the GitHub workflow runs
          Holder,     \* lease holder names
          HolderId,   \* holderId(env) of each deploy
          Ttl,        \* lease lifetime in ticks (DEFAULT_TTL_SECONDS)
          JobLimit,   \* timeout-minutes of the workflow's job, in ticks
          None        \* no live script, no lease

ASSUME DeployerAssumption == CI \subseteq Deployer /\ HolderId \in [Deployer -> Holder]
ASSUME LimitAssumption == Ttl \in Nat /\ JobLimit \in 1..Ttl /\ JobLimit # Ttl
ASSUME NoneAssumption == /\ None \notin Deployer \cup {"before"} \cup Holder
                         /\ None \notin [holder: Holder, left: Nat]

VARIABLES live,    \* modified_on of the live script, named by who uploaded it
          lease,   \* KV lease:worker:<name>: holder and ticks left, or None
          pc,      \* where each deploy stands
          seen,    \* the snapshot's modified_on; None means --create-missing
          read,    \* the modified_on cmdAcquire read
          left,    \* ticks until expires_at_ms of the record it built
          found    \* history: who held the lease when this acquire began

vars == <<live, lease, pc, seen, read, left, found>>

Version == {None, "before"} \cup Deployer
Lease == [holder: Holder, left: 0..Ttl]

Running == {"snapped", "listed", "decided", "checked", "acquired", "uploaded", "owned"}
Phase == Running \cup {"idle", "done", "refused", "failed", "lost", "killed"}

Init == /\ live \in {None, "before"}
        /\ lease = None
        /\ pc = [d \in Deployer |-> "idle"]
        /\ seen = [d \in Deployer |-> None]
        /\ read = [d \in Deployer |-> None]
        /\ left = [d \in Deployer |-> Ttl]
        /\ found = [d \in Deployer |-> {}]

Goto(d, ph) == pc' = [pc EXCEPT ![d] = ph]

(* A lease that keeps d out: unexpired and another's.                       *)
BlocksForever(d) == lease # None /\ lease.holder # HolderId[d]   \* variant: expiry ignored
BlocksNobody(d) == FALSE                                         \* variant: no refusal
Blocks(d) == lease # None /\ lease.left > 0 /\ lease.holder # HolderId[d]

(* d was told it has the lease, has not given it back, and the record it    *)
(* wrote has not expired.                                                   *)
Holds(d) == pc[d] \in {"acquired", "uploaded", "owned"} /\ left[d] > 0

-----------------------------------------------------------------------------
(* cmdSnapshot.  The workflow's concurrency group starts a deploy only when *)
(* none of its own runs.                                                    *)
Snapshot(d) ==
  /\ pc[d] = "idle"
  /\ d \in CI => \A e \in CI : pc[e] \notin Running
  /\ seen' = [seen EXCEPT ![d] = live]
  /\ Goto(d, "snapped")
  /\ UNCHANGED <<live, lease, read, left, found>>

(* cmdAcquire: the live script, then the clock the record is built from.    *)
ReadLiveWorker(d) ==
  /\ pc[d] = "snapped"
  /\ read' = [read EXCEPT ![d] = live]
  /\ left' = [left EXCEPT ![d] = Ttl]
  /\ found' = [found EXCEPT ![d] = {e \in Deployer \ {d} : Holds(e)}]
  /\ Goto(d, "listed")
  /\ UNCHANGED <<live, lease, seen>>

DecideAcquire(d) ==
  /\ pc[d] = "listed"
  /\ Goto(d, IF read[d] # seen[d] \/ Blocks(d) THEN "refused" ELSE "decided")
  /\ UNCHANGED <<live, lease, seen, read, left, found>>

(* writeLeaseIfAbsent: "re-read then PUT", two requests.                    *)
RereadLease(d) ==
  /\ pc[d] = "decided"
  /\ Goto(d, IF Blocks(d) THEN "refused" ELSE "checked")
  /\ UNCHANGED <<live, lease, seen, read, left, found>>

PutLease(d) == lease' = [holder |-> HolderId[d], left |-> left[d]]

WriteLease(d) ==
  /\ pc[d] = "checked"
  /\ PutLease(d)
  /\ Goto(d, "acquired")
  /\ UNCHANGED <<live, seen, read, left, found>>

(* wrangler deploy (external); its failure is remembered while the lease is *)
(* released.                                                                *)
Upload(d) ==
  /\ pc[d] = "acquired"
  /\ live' \in {d, live}
  /\ Goto(d, "uploaded")
  /\ UNCHANGED <<lease, seen, read, left, found>>

(* deleteLease: whose lease is it?  Then the DELETE.                        *)
ReadOwnLease(d) ==
  /\ pc[d] = "uploaded"
  /\ Goto(d, IF lease = None THEN "done"
             ELSE IF lease.holder = HolderId[d] THEN "owned" ELSE "lost")
  /\ UNCHANGED <<live, lease, seen, read, left, found>>

DeleteLease(d) ==
  /\ pc[d] = "owned"
  /\ lease' = None
  /\ Goto(d, "done")
  /\ UNCHANGED <<live, seen, read, left, found>>

(* A request fails: the script throws and the deploy stops where it is.  A  *)
(* PUT or DELETE that fails may have been applied.                          *)
RequestFails(d) ==
  /\ pc[d] \in Running \ {"acquired"}
  /\ \/ UNCHANGED lease
     \/ pc[d] = "checked" /\ PutLease(d)
     \/ pc[d] = "owned" /\ lease' = None
  /\ Goto(d, "failed")
  /\ UNCHANGED <<live, seen, read, left, found>>

Kill(d) ==
  /\ pc[d] \in Running
  /\ Goto(d, "killed")
  /\ UNCHANGED <<live, lease, seen, read, left, found>>

(* The job's timeout: a workflow deploy never sees JobLimit ticks pass.     *)
Overdue(d) == d \in CI /\ pc[d] \in Running /\ left[d] <= Ttl - JobLimit
JobTimeout(d) == Overdue(d) /\ Kill(d)

LessWithoutFloor(n) == n - 1   \* variant: an expired lease goes on counting
Less(n) == IF n = 0 THEN 0 ELSE n - 1
Tick ==
  /\ \A d \in Deployer : ~Overdue(d)
  /\ left' = [d \in Deployer |-> IF pc[d] \in Running \ {"snapped"} THEN Less(left[d]) ELSE left[d]]
  /\ lease' = IF lease = None THEN None ELSE [lease EXCEPT !.left = Less(lease.left)]
  /\ left' # left \/ lease' # lease
  /\ UNCHANGED <<live, pc, seen, read, found>>

(* KV drops the key some time after expiration_ttl (external).              *)
Expire ==
  /\ lease # None
  /\ lease.left = 0
  /\ lease' = None
  /\ UNCHANGED <<live, pc, seen, read, left, found>>

-----------------------------------------------------------------------------
Next == \/ Tick \/ Expire
        \/ \E d \in Deployer :
             \/ Snapshot(d) \/ ReadLiveWorker(d) \/ DecideAcquire(d) \/ RereadLease(d)
             \/ WriteLease(d) \/ Upload(d) \/ ReadOwnLease(d) \/ DeleteLease(d)
             \/ RequestFails(d) \/ Kill(d)

Spec == Init /\ [][Next]_vars

(* Time passes, and GitHub enforces its job timeout.                        *)
FairSpec == Spec /\ WF_vars(Tick) /\ \A d \in CI : WF_vars(JobTimeout(d))

-----------------------------------------------------------------------------
TypeOK == /\ live \in Version
          /\ lease \in Lease \cup {None}
          /\ pc \in [Deployer -> Phase]
          /\ seen \in [Deployer -> Version]
          /\ read \in [Deployer -> Version]
          /\ left \in [Deployer -> 0..Ttl]
          /\ found \in [Deployer -> SUBSET Deployer]

(* cf-deploy-leases.md: without compare-and-swap there is "a short race".   *)
(* So a deploy that began to acquire only while another already held the    *)
(* lease is kept out.  It holds between two deploys with names of their own *)
(* and fails as soon as a third one is there to undo the lease.             *)
LatecomersKeptOut ==
  \A d \in Deployer : Holds(d) => \A e \in found[d] : ~Holds(e)

(* A deploy that was killed or failed with its lease on file does not shut  *)
(* the others out for good.                                                 *)
AbandonedLeaseLapses ==
  \A d, e \in Deployer : pc[d] \in {"killed", "failed"} /\ lease # None /\ lease.holder = HolderId[d]
    ~> (~Blocks(e) \/ lease.holder # HolderId[d])

(* cf-lease.test.js: "stale --if-match refuses so a newer remote is not     *)
(* overwritten".                                                            *)
OverwritesOnlySeenVersion ==
  [][\A d \in Deployer : live' = d /\ live # d => live = seen[d]]_vars
=============================================================================
