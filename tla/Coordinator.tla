---------------------------- MODULE Coordinator ----------------------------
(***************************************************************************)
(* ZedPackageCoordinator, the Durable Object of                            *)
(* modules/cloudflare/durable-coordinator/worker.mjs: versioned state with *)
(* compare-and-set, and leases with fencing tokens.  Each method runs in   *)
(* one storage transaction, so it is one step here; what is hard is what   *)
(* happens between the steps: callers read, decide and write in separate   *)
(* calls, the answer to any call may be lost after it took effect, leases  *)
(* expire under their holders, and tokens are used long after.             *)
(***************************************************************************)
EXTENDS Integers

CONSTANTS Client,     \* callers; each is a holder of its own
          Resource,   \* normalized lease keys
          Key,        \* normalized state keys
          TtlMs,      \* lifetimes callers ask for (normalizeTtlMs)
          MaxNow,     \* bound: the clock stops here
          MaxToken,   \* bound: no lease is granted beyond this token
          MaxVersion, \* bound: no write goes beyond this version
          None        \* nothing stored, nothing known

ASSUME TtlAssumption == TtlMs \subseteq Nat \ {0}
ASSUME BoundAssumption == {MaxNow, MaxToken, MaxVersion} \subseteq Nat

VARIABLES now,       \* Date.now()
          kv,        \* kv:<key> -> version and value, a set of entries
          lease,     \* lease:<resource> -> holder, token, expires
          counter,   \* lease-counter:<resource>
          known,     \* what each caller last read of a key, before its write
          added,     \* history: keys each caller was told its entry is in
          grants,    \* history: tokens handed out, with their holders
          belief,    \* the lease each caller was last told it has
          shortened  \* history: resources whose lease a renewal ever shortened

storage == <<kv, lease, counter>>
vars == <<now, kv, lease, counter, known, added, grants, belief, shortened>>

Record == [version: Nat, value: SUBSET Client]
Lease == [holder: Client, token: Nat, expires: Nat]
Grant == [resource: Resource, holder: Client, token: Nat]
Belief == [token: Nat, until: Nat]

ASSUME NoneAssumption ==
  None \notin Record \cup Lease \cup Belief \cup [holder: Client, token: Nat]

Init == /\ now = 0
        /\ kv = [k \in Key |-> None]
        /\ lease = [r \in Resource |-> None]
        /\ counter = [r \in Resource |-> 0]
        /\ known = [c \in Client |-> [k \in Key |-> None]]
        /\ added = [c \in Client |-> {}]
        /\ grants = {}
        /\ belief = [c \in Client |-> [r \in Resource |-> None]]
        /\ shortened = {}

ActualVersion(k) == IF kv[k] = None THEN 0 ELSE kv[k].version
Value(k) == IF kv[k] = None THEN {} ELSE kv[k].value

LeaseIsLive(r) == lease[r] # None /\ lease[r].expires > now

-----------------------------------------------------------------------------
(* State: a caller adds its entry to the value it read, and passes the      *)
(* version it read; 0 when nothing was there.                               *)
GetState(c, k) ==
  /\ known[c][k] = None
  /\ known' = [known EXCEPT ![c][k] = [version |-> ActualVersion(k), value |-> Value(k)]]
  /\ UNCHANGED <<now, storage, added, grants, belief, shortened>>

VersionConflictIgnored(k, expected) == FALSE   \* variant: a blind write
VersionConflict(k, expected) == expected # ActualVersion(k)

(* The write took effect; its answer, the new record, arrives or is lost.   *)
CompareAndSet(c, k) ==
  /\ known[c][k] # None
  /\ ~VersionConflict(k, known[c][k].version)
  /\ ActualVersion(k) < MaxVersion
  /\ kv' = [kv EXCEPT ![k] = [version |-> ActualVersion(k) + 1,
                              value |-> known[c][k].value \cup {c}]]
  /\ added' \in {added, [added EXCEPT ![c] = @ \cup {k}]}
  /\ known' = [known EXCEPT ![c][k] = None]
  /\ UNCHANGED <<now, lease, counter, grants, belief, shortened>>

CompareAndSetConflict(c, k) ==
  /\ known[c][k] # None
  /\ VersionConflict(k, known[c][k].version)
  /\ known' = [known EXCEPT ![c][k] = None]
  /\ UNCHANGED <<now, storage, added, grants, belief, shortened>>

-----------------------------------------------------------------------------
(* The answer to an acquisition reaches the caller, or is lost.             *)
Told(c, r) == belief' \in {belief, [belief EXCEPT ![c][r] =
                                      [token |-> lease'[r].token, until |-> lease'[r].expires]]}

(* The next token.  The lease of a dead holder may still be on file.        *)
NextTokenOfLease(r) ==   \* variant: counted from the lease on file only
  IF lease[r] = None THEN 1 ELSE lease[r].token + 1
NextToken(r) ==
  (IF lease[r] # None /\ lease[r].token > counter[r] THEN lease[r].token ELSE counter[r]) + 1

(* acquireLease of a resource whose lease is free or has expired.           *)
GrantLease(c, r, ttl) ==
  /\ ~LeaseIsLive(r)
  /\ NextToken(r) <= MaxToken
  /\ counter' = [counter EXCEPT ![r] = NextToken(r)]
  /\ lease' = [lease EXCEPT ![r] = [holder |-> c, token |-> NextToken(r), expires |-> now + ttl]]
  /\ grants' = grants \cup {[resource |-> r, holder |-> c, token |-> NextToken(r)]}
  /\ Told(c, r)
  /\ UNCHANGED <<now, kv, known, added, shortened>>

(* acquireLease by the live lease's own holder keeps the token.             *)
RenewAnyones(c, r) == LeaseIsLive(r)   \* variant: the holder is not compared
MayRenew(c, r) == LeaseIsLive(r) /\ lease[r].holder = c
RenewLease(c, r, ttl) ==
  /\ MayRenew(c, r)
  /\ lease' = [lease EXCEPT ![r].expires = now + ttl]
  /\ shortened' = IF now + ttl < lease[r].expires THEN shortened \cup {r} ELSE shortened
  /\ Told(c, r)
  /\ UNCHANGED <<now, kv, counter, known, added, grants>>

(* acquireLease while another's lease is live: the caller learns it has     *)
(* none.                                                                    *)
DenyLease(c, r) ==
  /\ LeaseIsLive(r)
  /\ lease[r].holder # c
  /\ belief' \in {belief, [belief EXCEPT ![c][r] = None]}
  /\ UNCHANGED <<now, storage, known, added, grants, shortened>>

(* releaseLease with any token the caller was ever granted, the latest or   *)
(* one of long ago.  A caller about to release acts as holder no more.      *)
MayReleaseByHolder(g) ==   \* variant: the fencing token is not compared
  LET l == lease[g.resource] IN l # None /\ l.holder = g.holder
MayRelease(g) ==
  LET l == lease[g.resource]
  IN  l # None /\ l.holder = g.holder /\ l.token = g.token

Drop(g) == belief' = IF belief[g.holder][g.resource] # None
                        /\ belief[g.holder][g.resource].token = g.token
                     THEN [belief EXCEPT ![g.holder][g.resource] = None]
                     ELSE belief

VacateByBackdating(g) ==   \* variant: the record stays, expired
  lease' = [lease EXCEPT ![g.resource].expires = now - 1]
Vacate(g) == lease' = [lease EXCEPT ![g.resource] = None]

ReleaseLease(g) ==
  /\ IF MayRelease(g) THEN Vacate(g) ELSE UNCHANGED lease
  /\ Drop(g)
  /\ UNCHANGED <<now, kv, counter, known, added, grants, shortened>>

Tick == /\ now < MaxNow
        /\ now' = now + 1
        /\ UNCHANGED <<storage, known, added, grants, belief, shortened>>

-----------------------------------------------------------------------------
Next == \/ Tick
        \/ \E c \in Client, k \in Key :
             GetState(c, k) \/ CompareAndSet(c, k) \/ CompareAndSetConflict(c, k)
        \/ \E c \in Client, r \in Resource :
             \/ DenyLease(c, r)
             \/ \E ttl \in TtlMs : GrantLease(c, r, ttl) \/ RenewLease(c, r, ttl)
        \/ \E g \in grants : ReleaseLease(g)

Spec == Init /\ [][Next]_vars

-----------------------------------------------------------------------------
TypeOK == /\ now \in Nat
          /\ kv \in [Key -> Record \cup {None}]
          /\ lease \in [Resource -> Lease \cup {None}]
          /\ counter \in [Resource -> Nat]
          /\ known \in [Client -> [Key -> Record \cup {None}]]
          /\ added \in [Client -> SUBSET Key]
          /\ grants \subseteq Grant
          /\ belief \in [Client -> [Resource -> Belief \cup {None}]]
          /\ shortened \subseteq Resource

(* No lost update among callers that pass the version they read: an entry   *)
(* whose write was acknowledged is in the value, however the callers' reads *)
(* and writes interleave.  (A caller may also pass null, a blind write.)    *)
AcknowledgedEntriesSurvive == \A c \in Client : \A k \in added[c] : c \in Value(k)

(* A fencing token names one holder of its resource for ever, across        *)
(* expiry, release and re-grant, and was counted.                           *)
TokenNamesOneHolder ==
  /\ \A g, h \in grants : g.resource = h.resource /\ g.token = h.token => g.holder = h.holder
  /\ \A g \in grants : g.token \in 1..counter[g.resource]

(* A stale token harms nobody: whoever was granted the newest token and     *)
(* has not released it is still on file with it, whatever releases arrive   *)
(* late, its own earlier ones included.                                     *)
NewestGrantOnFile ==
  \A c \in Client, r \in Resource :
    belief[c][r] # None /\ belief[c][r].token = counter[r] =>
      lease[r] # None /\ lease[r].holder = c /\ lease[r].token = counter[r]

(* Two callers never both act as holder of a resource, although answers are *)
(* lost, unless a holder renewed its lease with an earlier expiry: if that  *)
(* answer is lost, the lease ends while the holder still counts on it.      *)
Believes(c, r) == belief[c][r] # None /\ belief[c][r].until > now
AtMostOneBeliever ==
  \A c, d \in Client, r \in Resource \ shortened : Believes(c, r) /\ Believes(d, r) => c = d

(* The leases implement the fenced lock.                                    *)
Owner(r) == IF lease[r] = None THEN None
            ELSE [holder |-> lease[r].holder, token |-> lease[r].token]
Lock == INSTANCE FencedLock WITH Holder <- Client, issued <- counter,
                                 owner <- [r \in Resource |-> Owner(r)]
Fenced == Lock!Spec
=============================================================================
