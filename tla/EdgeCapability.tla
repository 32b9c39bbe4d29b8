--------------------------- MODULE EdgeCapability ---------------------------
(***************************************************************************)
(* Signed read capabilities for private packages, as an edge Worker checks *)
(* them while the issuer cannot be asked (workers/shared/edge-capability.js)*)
(* The issuer, its keys and its sessions are external; so is what the      *)
(* deployment tells the verifier: a key snapshot, when it was taken, when   *)
(* the outage started, the lowest session epoch still good.  Time is the    *)
(* issuer's; the edge's clock differs from it by drift.                     *)
(***************************************************************************)
EXTENDS Integers, Sequences, FiniteSets, SequencesExt

CONSTANTS MaxTtl,        \* EDGE_CAPABILITY_MAX_TTL_SECONDS
          MaxSkew,       \* EDGE_CAPABILITY_CLOCK_SKEW_SECONDS
          MaxGrants,     \* MAX_GRANTS
          Drift,         \* how far the edge's clock may be from the issuer's
          Config,        \* local settings a verifier may be deployed with
          Offer,         \* what an issuer may put into a capability
          FirstKeys,     \* the key snapshot before the rotation ...
          NextKeys,      \* ... and those that may follow it
          Request,       \* provider requests a client may make
          Start, MaxClock,
          None

ASSUME BoundsAssumption == /\ MaxTtl \in Nat /\ MaxSkew \in Nat /\ MaxGrants \in Nat
                           /\ Drift \subseteq Int
                           /\ Start \in Nat /\ MaxClock \in Nat
                           /\ \A d \in Drift : Start + d >= 0
ASSUME NoneAssumption == None \notin Int /\ \A o \in Offer : None \notin ToSet(o.grants)

Provider == {"github", "npm", "cargo-registry"}
Setting == [maxTtl: Int, skew: Int, minimumAssurance: Int, minimumPolicyEpoch: Int,
            maxCapabilityAge: Int, maxRevocationAge: Int, maxJwksAge: Int, maxOutage: Int]
ASSUME ConfigAssumption == Config \subseteq Setting

(* A key of a JWKS snapshot: usable is what the filter of verify asks for   *)
(* (a P-256 signing key with a proper kid).                                 *)
KeyOK(k) == DOMAIN k = {"kid", "key", "usable"} /\ k.usable \in BOOLEAN

(* A capability before it is signed: life and delay give exp and nbf, lag   *)
(* how old the issuer's last look at revocations is; formal says that its   *)
(* segments, header, issuer, audience, subject, ids and field names are all *)
(* in order.  Only v3 carries the epochs and the time of that look; the    *)
(* issuers of v1 and v2 look when they issue.                               *)
OfferOK(o) == /\ o.version \in 0..3 /\ o.formal \in BOOLEAN
              /\ {o.life, o.delay, o.lag, o.assurance, o.policyEpoch} \subseteq Nat
              /\ o.version \in {1, 2} => o.lag = 0
ASSUME OfferAssumption == \A o \in Offer : OfferOK(o)

IsSequence(s) == s \in Seq(ToSet(s))
ASSUME SequenceAssumption ==
  /\ \A o \in Offer : IsSequence(o.grants)
  /\ \A ks \in NextKeys \cup {FirstKeys} : IsSequence(ks) /\ \A k \in ToSet(ks) : KeyOK(k)

VARIABLES clock, drift,
          revokedAt,     \* when the client's session was revoked
          published,     \* the issuer's JWKS
          retiredAt,     \* when the first keys were taken out of it
          token,         \* the capability the client holds
          config,        \* the verifier's local settings
          jwks,          \* its pinned snapshot: keys, and the time it was taken
          minimumEpoch,  \* sessions below it are known to be revoked
          outageSince,   \* edge time, None while the issuer is reachable
          phase, request,
          claims,        \* the capability that was verified last ...
          admittedAt,    \* ... and when
          plan

issuer == <<revokedAt, published, retiredAt, token>>
edge == <<config, jwks, minimumEpoch, outageSince>>
read == <<phase, request, claims, admittedAt, plan>>
capVars == <<clock, drift, issuer, edge, read>>

EdgeNow == clock + drift
Epoch == IF revokedAt = None THEN 0 ELSE 1

InitCapability ==
  /\ clock = Start /\ drift \in Drift
  /\ revokedAt = None /\ published = FirstKeys /\ retiredAt = None
  /\ token = None
  /\ config \in Config
  /\ jwks = [keys |-> FirstKeys, refreshedAt |-> EdgeNow]
  /\ minimumEpoch = 0 /\ outageSince = None
  /\ phase = "idle" /\ request = None /\ claims = None /\ admittedAt = None /\ plan = None

-----------------------------------------------------------------------------
(* The world around the verifier.                                           *)

Tick == /\ clock < MaxClock
        /\ clock' = clock + 1
        /\ UNCHANGED <<drift, issuer, edge, read>>

(* One capability per behaviour, at any time.  Replicas of the issuer may   *)
(* go on signing with a retired key; the epoch is that of the last look at  *)
(* revocations.                                                             *)
Issue(o, k) ==
  LET checked == clock - o.lag IN
  /\ token = None /\ phase = "idle" /\ outageSince = None
  /\ checked >= 0
  /\ token' = [version |-> o.version, formal |-> o.formal, iat |-> clock,
               nbf |-> clock + o.delay, exp |-> clock + o.life, grants |-> o.grants,
               kid |-> k.kid, key |-> k.key, assurance |-> o.assurance,
               policyEpoch |-> o.policyEpoch,
               epoch |-> IF revokedAt # None /\ checked > revokedAt THEN 1 ELSE 0,
               checked |-> checked]
  /\ UNCHANGED <<clock, drift, revokedAt, published, retiredAt, edge, read>>

Revoke == /\ revokedAt = None
          /\ revokedAt' = clock
          /\ UNCHANGED <<clock, drift, published, retiredAt, token, edge, read>>

Rotate == /\ retiredAt = None
          /\ retiredAt' = clock
          /\ published' \in NextKeys
          /\ UNCHANGED <<clock, drift, revokedAt, token, edge, read>>

(* The deployment takes a new snapshot while the issuer can be reached.     *)
Refresh == /\ outageSince = None
           /\ jwks' = [keys |-> published, refreshedAt |-> EdgeNow]
           /\ minimumEpoch' = Epoch
           /\ UNCHANGED <<clock, drift, issuer, config, outageSince, read>>

OutageStarts == /\ outageSince = None
                /\ outageSince' = EdgeNow
                /\ UNCHANGED <<clock, drift, issuer, config, jwks, minimumEpoch, read>>

OutageEnds == /\ outageSince # None
              /\ outageSince' = None
              /\ UNCHANGED <<clock, drift, issuer, config, jwks, minimumEpoch, read>>

World == \/ Tick \/ Revoke \/ Rotate \/ Refresh \/ OutageStarts \/ OutageEnds
         \/ \E o \in Offer, k \in ToSet(FirstKeys) \cup ToSet(published) : Issue(o, k)

-----------------------------------------------------------------------------
(* verifyEdgeCapability.                                                    *)

PolicyUnchecked(c) == TRUE   \* variant: local settings are believed
PolicyNarrows(c) == c.maxTtl \in 1..MaxTtl /\ c.skew \in 0..MaxSkew

Usable(keys) == {i \in DOMAIN keys : keys[i].usable}
Eligible(t, keys) == {i \in Usable(keys) : keys[i].kid = t.kid}

AnySnapshot(keys) == TRUE   \* variant: the first key of a kid is taken
Unambiguous(keys) == \A i, j \in Usable(keys) : keys[i].kid = keys[j].kid => i = j

Signed(t, keys) == /\ Unambiguous(keys)
                   /\ \E i \in Eligible(t, keys) : /\ \A j \in Eligible(t, keys) : i <= j
                                                   /\ keys[i].key = t.key

(* validateGrant and validateProviderResource: only a private Cargo         *)
(* registry has an origin of its own.                                       *)
ValidGrant(g) == /\ g.provider \in Provider
                 /\ g.operation = "read"
                 /\ (g.origin # None) = (g.provider = "cargo-registry")

Coordinates(g) == <<g.provider, g.package, g.resource>>
ValidGrants(gs) == /\ Len(gs) \in 1..MaxGrants
                   /\ \A g \in ToSet(gs) : ValidGrant(g)
                   /\ \A i, j \in DOMAIN gs : Coordinates(gs[i]) = Coordinates(gs[j]) => i = j

ValidLifetime(t, c) == /\ t.exp > t.iat
                       /\ t.nbf \in t.iat..t.exp
                       /\ t.exp - t.iat <= c.maxTtl

ValidClaims(t, c, now) == /\ t.version \in 1..3
                          /\ ValidLifetime(t, c)
                          /\ t.iat <= now + c.skew
                          /\ t.nbf <= now + c.skew
                          /\ t.exp > now - c.skew
                          /\ t.version = 3 => t.assurance \in {1, 2} /\ t.checked <= t.iat
                          /\ ValidGrants(t.grants)

(* validateOutageAdmission: the windows are bounded by the signed contract, *)
(* and v3 allows for no clock skew.                                         *)
Windows(c) == {c.maxCapabilityAge, c.maxRevocationAge, c.maxJwksAge, c.maxOutage}

FreshCheckpointOnly(t, c, now) ==   \* variant: the age of the snapshot is forgotten
  /\ now - t.checked \in 0..c.maxRevocationAge
  /\ now - t.iat <= c.maxCapabilityAge
  /\ now - outageSince <= c.maxOutage
Fresh(t, c, now) == /\ now - t.checked \in 0..c.maxRevocationAge
                    /\ now - t.iat <= c.maxCapabilityAge
                    /\ now - jwks.refreshedAt <= c.maxJwksAge
                    /\ now - outageSince <= c.maxOutage

OutageAdmission(t, c, now) ==
  /\ outageSince # None
  /\ c.minimumAssurance \in {1, 2}
  /\ Windows(c) \subseteq 0..MaxTtl
  /\ t.assurance >= c.minimumAssurance
  /\ t.epoch >= minimumEpoch
  /\ c.minimumPolicyEpoch \in 0..t.policyEpoch
  /\ now >= t.iat /\ now >= t.nbf /\ now < t.exp
  /\ outageSince <= now /\ jwks.refreshedAt <= now
  /\ Fresh(t, c, now)

Verifies(t, keys) == /\ PolicyNarrows(config)
                     /\ t.formal
                     /\ Signed(t, keys)
                     /\ ValidClaims(t, config, EdgeNow)
                     /\ t.version = 3 => OutageAdmission(t, config, EdgeNow)

(* An error ends the read: nothing of it is kept.                           *)
Throw == /\ phase' = "idle"
         /\ request' = None /\ claims' = None /\ admittedAt' = None /\ plan' = None

VerifyEdgeCapability(r) ==
  /\ phase = "idle" /\ token # None
  /\ IF Verifies(token, jwks.keys)
     THEN /\ phase' = "verified" /\ request' = r
          /\ claims' = token /\ admittedAt' = clock
          /\ UNCHANGED plan
     ELSE Throw
  /\ UNCHANGED <<clock, drift, issuer, edge>>

-----------------------------------------------------------------------------
(* planProviderRequest: the grant for exactly this tuple, and a URL inside  *)
(* it.  Of a URL the checks tell apart scheme, host, port, the resource its *)
(* path leads into, and whether it is spelt without dots, escapes, query.   *)

Matching(t, r) == {i \in DOMAIN t.grants :
                     /\ t.grants[i].operation = r.operation
                     /\ Coordinates(t.grants[i]) = <<r.provider, r.package, r.resource>>}

Grant(t, r) == t.grants[CHOOSE i \in Matching(t, r) : \A j \in Matching(t, r) : i <= j]

ProviderDestination(g, url) ==
  /\ url.resource = g.resource
  /\ \/ g.provider = "github" /\ url.host = "github" /\ ~url.port /\ url.plain
     \/ g.provider = "npm" /\ url.host = "npm" /\ ~url.port
     \/ g.provider = "cargo-registry" /\ url.host = g.origin /\ url.plain

MayPlan(t, r) == /\ r.operation = "read"
                 /\ Matching(t, r) # {}
                 /\ r.url.https
                 /\ ProviderDestination(Grant(t, r), r.url)

PlanProviderRequest ==
  /\ phase = "verified"
  /\ IF MayPlan(claims, request)
     THEN /\ phase' = "planned" /\ plan' = Grant(claims, request)
          /\ UNCHANGED <<request, claims, admittedAt>>
     ELSE Throw
  /\ UNCHANGED <<clock, drift, issuer, edge>>

(* brokerContextFromCapability: v1 carries no lineage.                      *)
BrokerContextFromCapability ==
  /\ phase = "planned"
  /\ IF claims.version \in {2, 3}
     THEN phase' = "context" /\ UNCHANGED <<request, claims, admittedAt, plan>>
     ELSE Throw
  /\ UNCHANGED <<clock, drift, issuer, edge>>

Capability == \/ \E r \in Request : VerifyEdgeCapability(r)
              \/ PlanProviderRequest \/ BrokerContextFromCapability

-----------------------------------------------------------------------------
TimeOK == /\ clock \in Start..(IF MaxClock < Start THEN Start ELSE MaxClock)
          /\ drift \in Drift
          /\ {revokedAt, retiredAt, admittedAt} \subseteq Nat \cup {None}
          /\ outageSince \in Nat \cup {None}
          /\ jwks.refreshedAt \in Nat

(* A revoked session dies: whatever the verifier's settings, a capability   *)
(* of that session is admitted for at most one capability lifetime and the  *)
(* allowed skew after the revocation, and in an outage (v3) for at most the *)
(* revocation window.  A slow edge clock adds what it is slow by.           *)
(* (verifyEdgeCapability, validateOutageAdmission)                          *)
RevokedSessionDies ==
  (claims # None /\ revokedAt # None /\ claims.epoch = 0) =>
    admittedAt - revokedAt + drift <= IF claims.version = 3 THEN config.maxRevocationAge
                                                            ELSE MaxTtl + MaxSkew - 1

(* So does a retired key, in an outage: no v3 capability signed with it is  *)
(* admitted longer than the snapshot window after its retirement, even      *)
(* though the snapshot cannot be renewed.  (validateOutageAdmission; v1 and *)
(* v2 trust a snapshot of any age.)                                         *)
RetiredKeyDies ==
  (claims # None /\ claims.version = 3 /\ retiredAt # None
     /\ \A ks \in NextKeys : \A k \in ToSet(ks) : k.usable => k.key # claims.key) =>
    admittedAt - retiredAt <= config.maxJwksAge

(* Whether a capability is admitted, and with which credential reference,   *)
(* does not depend on the order of the keys in the snapshot or of the       *)
(* grants in the capability.  (verifyEdgeCapability, validateClaims)        *)
Decision(t, keys, r) == IF Verifies(t, keys) /\ MayPlan(t, r) THEN Grant(t, r).ref ELSE None
VerdictIgnoresOrder ==
  token # None => \A r \in Request :
    Decision(token, jwks.keys, r)
      = Decision([token EXCEPT !.grants = Reverse(token.grants)], Reverse(jwks.keys), r)
=============================================================================
