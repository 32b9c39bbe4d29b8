-------------------------- MODULE CredentialBroker --------------------------
(***************************************************************************)
(* What follows a verified capability: one short-lived provider credential *)
(* from an internal broker (workers/shared/provider-credential-broker.js), *)
(* and the second client of a broker, which takes capabilities of another  *)
(* shape and does not verify them (private-source-broker.js).  The brokers *)
(* are external; they answer when they like, and nothing times them out.   *)
(***************************************************************************)
EXTENDS EdgeCapability

CONSTANTS MaxBrokerTtl,       \* BROKER_MAX_TTL_SECONDS, MAX_TTL_SECONDS
          FreshnessSkew,      \* BROKER_FRESHNESS_SKEW_SECONDS
          RequestedTtl,       \* context.requestedTtlSeconds
          PrivateCapability,  \* capabilities of the private-source kind
          PrivateRequest      \* providers and resources asked for with them

ASSUME BrokerAssumption == /\ {MaxBrokerTtl, FreshnessSkew} \subseteq Nat
                           /\ RequestedTtl \subseteq Int
                           /\ \A c \in PrivateCapability : c.exp \in Nat
                           /\ None \notin [now: Int, ttl: Int]
                           /\ None \notin [sound: BOOLEAN, exact: BOOLEAN, readOnly: BOOLEAN,
                                           issued: Int, expires: Int]

VARIABLES asked,       \* the broker request under way: when it was made, its TTL
          credential   \* the credential the edge holds

broker == <<asked, credential>>
vars == <<capVars, broker>>

Init == InitCapability /\ asked = None /\ credential = None

(* An error, or the end of a read.                                          *)
OverButKept == Throw /\ asked' = None /\ UNCHANGED credential   \* variant: the credential stays
Over == Throw /\ asked' = None /\ credential' = None

-----------------------------------------------------------------------------
(* requestProviderCredential: what the client checks before the broker is   *)
(* asked.  The time taken here is the one the answer is compared with.      *)

CarriesNoV3(t) == t.version = 2

SmallestOf(S) == CHOOSE x \in S : \A y \in S : x <= y
Ttl(ttl) == SmallestOf({ttl, claims.exp - EdgeNow, MaxBrokerTtl})

MayAsk(ttl) == /\ plan.provider = "github"
               /\ CarriesNoV3(claims)
               /\ claims.exp > EdgeNow
               /\ ttl \in 1..MaxBrokerTtl

RequestProviderCredential(ttl) ==
  /\ phase = "context"
  /\ IF MayAsk(ttl)
     THEN /\ phase' = "asking" /\ asked' = [now |-> EdgeNow, ttl |-> Ttl(ttl)]
          /\ UNCHANGED <<request, claims, admittedAt, plan, credential>>
     ELSE Over
  /\ UNCHANGED <<clock, drift, issuer, edge>>

(* Of an answer: whether it was a proper JSON answer that may not be stored *)
(* (sound), of the kind asked for, with exactly the resource, reference and *)
(* capability asked for (exact), with reading rights only; its times.       *)
Answer == [sound: BOOLEAN, exact: BOOLEAN, readOnly: BOOLEAN,
           issued: (clock - 1)..(clock + 1), expires: clock..(clock + MaxBrokerTtl + 1)]

LifetimeOfRequestOnly(a) ==   \* variant: only the requested lifetime counts
  a.expires - asked.now <= asked.ttl + FreshnessSkew
NotWidened(a) == /\ a.expires <= claims.exp
                 /\ a.expires - asked.now <= asked.ttl + FreshnessSkew

ValidateGithubCredential(a) ==
  /\ a.sound /\ a.exact /\ a.readOnly
  /\ a.issued \in (asked.now - FreshnessSkew)..(asked.now + FreshnessSkew)
  /\ a.expires > asked.now /\ a.expires > a.issued
  /\ NotWidened(a)

BrokerAnswers ==
  /\ phase = "asking"
  /\ \E a \in Answer :
       IF ValidateGithubCredential(a)
       THEN /\ phase' = "credential" /\ credential' = a
            /\ UNCHANGED <<request, claims, admittedAt, plan, asked>>
       ELSE Over
  /\ UNCHANGED <<clock, drift, issuer, edge>>

(* A broker that refuses or cannot be reached.                              *)
BrokerRefuses == /\ phase = "asking"
                 /\ Over
                 /\ UNCHANGED <<clock, drift, issuer, edge>>

(* githubCredentialHeaders: the credential goes upstream, whatever the time *)
GithubCredentialHeaders ==
  /\ phase = "credential"
  /\ phase' = "sent"
  /\ UNCHANGED <<clock, drift, issuer, edge, request, claims, admittedAt, plan, broker>>

-----------------------------------------------------------------------------
(* private-source-broker.js: the provider and the resource must be those of *)
(* the capability's source; its expiry is passed on, and not looked at.     *)
(* The two clients share no state, so a behaviour follows one of them: this *)
(* one before a signed capability is out (token = None bounds the model).   *)
BrokerRequestFromCapability(c, r) ==
  /\ phase = "idle" /\ token = None
  /\ IF c.source = r
     THEN /\ phase' = "private" /\ request' = c
          /\ asked' = [now |-> EdgeNow, ttl |-> MaxBrokerTtl]
          /\ UNCHANGED <<claims, admittedAt, plan, credential>>
     ELSE Over
  /\ UNCHANGED <<clock, drift, issuer, edge>>

ValidateCredential(a) == a.expires \in (asked.now + 1)..(asked.now + MaxBrokerTtl)

PrivateBrokerAnswers ==
  /\ phase = "private"
  /\ \E a \in {x \in Answer : x.readOnly /\ x.issued = clock} :
       IF a.sound /\ a.exact /\ ValidateCredential(a)
       THEN /\ phase' = "private_credential" /\ credential' = a
            /\ UNCHANGED <<request, claims, admittedAt, plan, asked>>
       ELSE Over
  /\ UNCHANGED <<clock, drift, issuer, edge>>

PrivateBrokerRefuses ==
  /\ phase = "private"
  /\ Over
  /\ UNCHANGED <<clock, drift, issuer, edge>>

UpstreamAuthorizationHeaders ==
  /\ phase = "private_credential"
  /\ phase' = "private_sent"
  /\ UNCHANGED <<clock, drift, issuer, edge, request, claims, admittedAt, plan, broker>>

(* The next request starts from nothing.                                    *)
NextRequest ==
  /\ phase \in {"sent", "private_sent"}
  /\ Over
  /\ UNCHANGED <<clock, drift, issuer, edge>>

Provided == \/ \E ttl \in RequestedTtl : RequestProviderCredential(ttl)
            \/ BrokerAnswers \/ BrokerRefuses \/ GithubCredentialHeaders

Private == \/ \E c \in PrivateCapability, r \in PrivateRequest : BrokerRequestFromCapability(c, r)
           \/ PrivateBrokerAnswers \/ PrivateBrokerRefuses \/ UpstreamAuthorizationHeaders

Next == \/ World /\ UNCHANGED broker
        \/ Capability /\ UNCHANGED broker
        \/ Provided \/ Private \/ NextRequest

Spec == Init /\ [][Next]_vars

-----------------------------------------------------------------------------
Holding == {"credential", "sent"}
HoldingPrivate == {"private_credential", "private_sent"}
Phase == {"idle", "verified", "planned", "context", "asking", "private"} \cup Holding \cup HoldingPrivate

(* Types; and every phase has what the phases before it produced.           *)
TypeOK ==
  /\ TimeOK
  /\ config \in Config
  /\ minimumEpoch \in {0, 1}
  /\ phase \in Phase
  /\ admittedAt = None <=> claims = None
  /\ phase \in {"verified", "planned", "context", "asking"} \cup Holding => claims # None
  /\ phase \in {"planned", "context", "asking"} \cup Holding => plan # None
  /\ phase \in {"asking", "private"} \cup Holding \cup HoldingPrivate => asked # None
  /\ credential # None <=> phase \in Holding \cup HoldingPrivate

(* A credential dies with the session: whenever the session is revoked, and *)
(* however slow the broker or wrong the edge's clock, no credential that    *)
(* was obtained for it is good for longer than one capability lifetime      *)
(* after.  A v3 capability, issued on an older look at revocations, would   *)
(* outlive that, and is stopped on the way.  (verifyEdgeCapability,         *)
(* brokerContextFromCapability, requestProviderCredential, validateContext, *)
(* validateGithubCredential)                                                *)
CredentialDiesWithSession ==
  (phase \in Holding /\ revokedAt # None /\ claims.epoch = 0) =>
    credential.expires <= revokedAt + MaxTtl
=============================================================================
