----------------------- MODULE CredentialBrokerProofs -----------------------
(***************************************************************************)
(* How long a capability and a credential outlive their session and their  *)
(* key, for every clock error, every lifetime, every window and every      *)
(* moment of revocation, rotation and outage.                              *)
(***************************************************************************)
EXTENDS CredentialBroker, TLAPS

(* A time of the issuer's that has come, if any.                            *)
Past(t) == t \in Nat /\ t <= clock

(* What is known of a capability, whoever holds it.                         *)
Genuine(t) == /\ t.version \in 0..3
              /\ t.iat \in Nat /\ t.exp \in Nat /\ t.checked \in Nat
              /\ t.checked <= t.iat /\ t.iat <= clock
              /\ t.version \in {1, 2} => t.checked = t.iat
              /\ (t.epoch = 0 /\ revokedAt # None) => t.checked <= revokedAt

TimesInv == /\ clock \in Nat /\ drift \in Int /\ config \in Config
            /\ revokedAt # None => Past(revokedAt)
            /\ retiredAt # None => Past(retiredAt)
            /\ token # None => Genuine(token)

(* A snapshot that lacks the new keys is no newer than the rotation.        *)
SnapshotInv == /\ retiredAt = None => jwks.refreshedAt <= EdgeNow
               /\ retiredAt # None => published \in NextKeys
               /\ (retiredAt # None /\ jwks.keys \notin NextKeys)
                    => jwks.refreshedAt <= retiredAt + drift
               /\ jwks.refreshedAt \in Int

(* What verification found, at the time it did.                             *)
AdmittedInv ==
  /\ phase \in {"verified", "planned", "context", "asking"} \cup Holding => claims # None
  /\ claims # None =>
       /\ Genuine(claims)
       /\ Past(admittedAt)
       /\ claims.version \in 1..3
       /\ claims.exp - claims.iat <= MaxTtl
       /\ claims.version = 3 => /\ admittedAt + drift - claims.checked <= config.maxRevocationAge
                                /\ config.maxJwksAge \in Nat
       /\ claims.version # 3 => admittedAt + drift - claims.iat <= MaxTtl + MaxSkew - 1

(* Who asks for a credential or holds one has a v2 capability that lives at *)
(* least as long.                                                           *)
EarnedInv == /\ phase \in {"asking"} \cup Holding => claims.version = 2
             /\ phase \in Holding => credential.expires \in Int /\ credential.expires <= claims.exp

BrokerInv == TimesInv /\ SnapshotInv /\ AdmittedInv /\ EarnedInv /\ RetiredKeyDies

LEMMA BrokerInit == Init => BrokerInv
BY BoundsAssumption, NoneAssumption
   DEF Init, InitCapability, BrokerInv, TimesInv, SnapshotInv, AdmittedInv, EarnedInv, EdgeNow,
       Holding, RetiredKeyDies

-----------------------------------------------------------------------------
(* The world.                                                               *)

(* What is issued is genuine.                                               *)
LEMMA IssueStep ==
  ASSUME BrokerInv, NEW o \in Offer, NEW k, Issue(o, k), UNCHANGED broker
  PROVE  BrokerInv'
<1> DEFINE checked == clock - o.lag
           t == [version |-> o.version, formal |-> o.formal, iat |-> clock,
                 nbf |-> clock + o.delay, exp |-> clock + o.life, grants |-> o.grants,
                 kid |-> k.kid, key |-> k.key, assurance |-> o.assurance,
                 policyEpoch |-> o.policyEpoch,
                 epoch |-> IF revokedAt # None /\ checked > revokedAt THEN 1 ELSE 0,
                 checked |-> checked]
<1>1. /\ checked >= 0 /\ token' = t
      /\ UNCHANGED <<clock, drift, revokedAt, published, retiredAt, edge, read, broker>>
  BY DEF Issue
<1>2. /\ o.version \in 0..3 /\ o.life \in Nat /\ o.lag \in Nat
      /\ o.version \in {1, 2} => o.lag = 0
  BY OfferAssumption DEF OfferOK
<1>3. clock \in Nat /\ (revokedAt # None => revokedAt \in Nat)
  BY DEF BrokerInv, TimesInv, Past
<1>4. Genuine(t)
  BY <1>1, <1>2, <1>3 DEF Genuine
<1>5. Genuine(token)'
  BY <1>1, <1>4 DEF Genuine
<1> HIDE DEF t
<1> QED
  BY <1>1, <1>5
     DEF BrokerInv, TimesInv, SnapshotInv, AdmittedInv, EarnedInv, Past, Genuine, EdgeNow, Holding,
         edge, read, broker, RetiredKeyDies

LEMMA TickStep ==
  ASSUME BrokerInv, Tick, UNCHANGED broker
  PROVE  BrokerInv'
<1>1. clock \in Nat /\ clock' = clock + 1 /\ drift \in Int
      /\ UNCHANGED <<drift, issuer, edge, read, broker>>
  BY DEF Tick, BrokerInv, TimesInv
<1>2. \A x : Past(x) => Past(x)'
  BY <1>1 DEF Past
<1>3. \A x : Genuine(x) => Genuine(x)'
  BY <1>1 DEF Genuine, issuer
<1>4. TimesInv'
  BY <1>1, <1>2, <1>3 DEF BrokerInv, TimesInv, issuer, edge, Past
<1>5. SnapshotInv'
  BY <1>1 DEF BrokerInv, TimesInv, SnapshotInv, issuer, edge, EdgeNow
<1>6. AdmittedInv'
  BY <1>1, <1>2, <1>3 DEF BrokerInv, AdmittedInv, issuer, edge, read, broker, Holding, Past
<1> QED
  BY <1>1, <1>4, <1>5, <1>6
     DEF BrokerInv, EarnedInv, issuer, edge, read, broker, Holding, RetiredKeyDies

(* The session is revoked no earlier than anything that was checked.        *)
LEMMA RevokeStep ==
  ASSUME BrokerInv, Revoke, UNCHANGED broker
  PROVE  BrokerInv'
<1>1. clock \in Nat /\ revokedAt' = clock
      /\ UNCHANGED <<clock, drift, published, retiredAt, token, edge, read, broker>>
  BY DEF Revoke, BrokerInv, TimesInv
<1>2. \A x : Past(x) => Past(x)'
  BY <1>1 DEF Past
<1>3. \A x : Genuine(x) => Genuine(x)'
  BY <1>1 DEF Genuine
<1>4. TimesInv'
  BY <1>1, <1>2, <1>3 DEF BrokerInv, TimesInv, edge, Past
<1>5. AdmittedInv'
  BY <1>1, <1>2, <1>3 DEF BrokerInv, AdmittedInv, edge, read, broker, Holding, Past
<1> QED
  BY <1>1, <1>4, <1>5
     DEF BrokerInv, SnapshotInv, EarnedInv, edge, read, broker, Holding, EdgeNow, RetiredKeyDies

(* The keys are rotated no earlier than anything that was admitted.         *)
LEMMA RotateStep ==
  ASSUME BrokerInv, Rotate, UNCHANGED broker
  PROVE  BrokerInv'
<1>1. clock \in Nat /\ retiredAt = None /\ retiredAt' = clock /\ published' \in NextKeys
      /\ UNCHANGED <<clock, drift, revokedAt, token, edge, read, broker>>
  BY DEF Rotate, BrokerInv, TimesInv
<1>2. TimesInv' /\ AdmittedInv' /\ EarnedInv'
  BY <1>1 DEF BrokerInv, TimesInv, AdmittedInv, EarnedInv, edge, read, broker, Holding, Past, Genuine
<1>3. SnapshotInv'
  BY <1>1, NoneAssumption DEF BrokerInv, SnapshotInv, edge, EdgeNow
<1>4. RetiredKeyDies'
  <2> SUFFICES ASSUME claims # None, claims.version = 3
               PROVE  admittedAt - clock <= config.maxJwksAge
    BY <1>1 DEF RetiredKeyDies, edge, read
  <2>1. Past(admittedAt) /\ config.maxJwksAge \in Nat
    BY DEF BrokerInv, AdmittedInv
  <2> QED
    BY <2>1, <1>1 DEF Past
<1> QED
  BY <1>2, <1>3, <1>4 DEF BrokerInv

LEMMA DeploymentStep ==
  ASSUME BrokerInv, Refresh \/ OutageStarts \/ OutageEnds, UNCHANGED broker
  PROVE  BrokerInv'
<1>1. UNCHANGED <<clock, drift, issuer, config, read, broker>>
  BY DEF Refresh, OutageStarts, OutageEnds
<1>2. TimesInv' /\ AdmittedInv' /\ EarnedInv' /\ RetiredKeyDies'
  BY <1>1 DEF BrokerInv, TimesInv, AdmittedInv, EarnedInv, issuer, read, broker, Holding, Past,
              Genuine, RetiredKeyDies
<1>3. SnapshotInv'
  <2>1. CASE Refresh
    <3>1. jwks' = [keys |-> published, refreshedAt |-> EdgeNow] /\ EdgeNow \in Int
      BY <2>1 DEF Refresh, EdgeNow, BrokerInv, TimesInv
    <3> QED
      BY <1>1, <3>1 DEF BrokerInv, SnapshotInv, issuer, EdgeNow
  <2>2. CASE ~Refresh
    BY <1>1, <2>2 DEF OutageStarts, OutageEnds, BrokerInv, SnapshotInv, issuer, EdgeNow
  <2> QED
    BY <2>1, <2>2
<1> QED
  BY <1>2, <1>3 DEF BrokerInv

-----------------------------------------------------------------------------
(* The reader.  A step of it leaves world and deployment alone.             *)

LEMMA WorldKept ==
  ASSUME BrokerInv, UNCHANGED <<clock, drift, issuer, edge>>
  PROVE  TimesInv' /\ SnapshotInv' /\ (\A x : Genuine(x) <=> Genuine(x)')
         /\ (\A x : Past(x) <=> Past(x)')
BY DEF BrokerInv, TimesInv, SnapshotInv, issuer, edge, EdgeNow, Past, Genuine

LEMMA OverStep ==
  ASSUME BrokerInv, UNCHANGED <<clock, drift, issuer, edge>>, Throw
  PROVE  BrokerInv'
BY WorldKept DEF Throw, BrokerInv, AdmittedInv, EarnedInv, Holding, RetiredKeyDies

(* Whose claims are kept keeps what is known of them.                       *)
LEMMA ClaimsKept ==
  ASSUME BrokerInv, UNCHANGED <<clock, drift, issuer, edge, claims, admittedAt>>,
         phase' \in {"verified", "planned", "context", "asking"} \cup Holding => claims # None
  PROVE  AdmittedInv' /\ RetiredKeyDies'
BY WorldKept DEF BrokerInv, AdmittedInv, RetiredKeyDies, Holding, issuer, edge

LEMMA VerifyStep ==
  ASSUME BrokerInv, NEW r \in Request, VerifyEdgeCapability(r), UNCHANGED broker
  PROVE  BrokerInv'
<1>1. token # None /\ UNCHANGED <<clock, drift, issuer, edge>>
  BY DEF VerifyEdgeCapability
<1>2. CASE ~Verifies(token, jwks.keys)
  BY <1>1, <1>2, OverStep DEF VerifyEdgeCapability
<1>3. CASE Verifies(token, jwks.keys)
  <2>1. phase' = "verified" /\ claims' = token /\ admittedAt' = clock
    BY <1>3 DEF VerifyEdgeCapability
  <2>2. /\ Genuine(token) /\ clock \in Nat /\ drift \in Int /\ EdgeNow \in Int
        /\ config.maxTtl \in Int /\ config.skew \in Int /\ config.maxRevocationAge \in Int
    BY <1>1, ConfigAssumption DEF BrokerInv, TimesInv, EdgeNow, Setting
  <2>3. /\ config.maxTtl <= MaxTtl /\ config.skew <= MaxSkew
        /\ token.exp - token.iat <= config.maxTtl
        /\ token.exp > EdgeNow - config.skew
        /\ token.version \in 1..3
    BY <1>3, <2>2, BoundsAssumption
       DEF Verifies, PolicyNarrows, ValidClaims, ValidLifetime
  <2>4. token.exp - token.iat <= MaxTtl
        /\ clock + drift - token.iat <= MaxTtl + MaxSkew - 1
    BY <2>2, <2>3, BoundsAssumption DEF Genuine, EdgeNow
  <2>5. ASSUME token.version = 3
        PROVE  /\ clock + drift - token.checked <= config.maxRevocationAge
               /\ config.maxJwksAge \in Nat
               /\ EdgeNow - jwks.refreshedAt <= config.maxJwksAge
    BY <1>3, <2>2, <2>5, BoundsAssumption
       DEF Verifies, OutageAdmission, Fresh, Windows, EdgeNow, Genuine
  <2>6. AdmittedInv'
    BY <1>1, <2>1, <2>2, <2>3, <2>4, <2>5, WorldKept
       DEF AdmittedInv, Holding, Past, edge
  <2>7. RetiredKeyDies'
    <3> SUFFICES ASSUME token.version = 3, retiredAt # None,
                        \A ks \in NextKeys : \A k \in ToSet(ks) : k.usable => k.key # token.key
                 PROVE  clock - retiredAt <= config.maxJwksAge
      BY <1>1, <2>1 DEF RetiredKeyDies, issuer, edge
    <3>1. PICK i \in Eligible(token, jwks.keys) : jwks.keys[i].key = token.key
      BY <1>3 DEF Verifies, Signed
    <3>2. jwks.keys[i] \in ToSet(jwks.keys) /\ jwks.keys[i].usable
      BY <3>1 DEF Eligible, Usable, ToSet
    <3>3. jwks.keys \notin NextKeys
      BY <3>1, <3>2
    <3>4. jwks.refreshedAt <= retiredAt + drift /\ jwks.refreshedAt \in Int /\ retiredAt \in Nat
      BY <3>3 DEF BrokerInv, SnapshotInv, TimesInv, Past
    <3> QED
      BY <2>2, <2>5, <3>4 DEF EdgeNow
  <2>8. EarnedInv'
    BY <2>1 DEF EarnedInv, Holding
  <2> QED
    BY <1>1, <2>6, <2>7, <2>8, WorldKept DEF BrokerInv
<1> QED
  BY <1>2, <1>3

LEMMA PlanStep ==
  ASSUME BrokerInv, PlanProviderRequest \/ BrokerContextFromCapability, UNCHANGED broker
  PROVE  BrokerInv'
<1>1. UNCHANGED <<clock, drift, issuer, edge>>
  BY DEF PlanProviderRequest, BrokerContextFromCapability
<1>2. CASE Throw
  BY <1>1, <1>2, OverStep
<1>3. CASE ~Throw
  <2>1. /\ phase \in {"verified", "planned"} /\ phase' \in {"planned", "context"}
        /\ UNCHANGED <<claims, admittedAt>>
    BY <1>3 DEF PlanProviderRequest, BrokerContextFromCapability
  <2>2. claims # None
    BY <2>1 DEF BrokerInv, AdmittedInv
  <2>3. EarnedInv'
    BY <2>1 DEF EarnedInv, Holding
  <2> QED
    BY <1>1, <2>1, <2>2, <2>3, WorldKept, ClaimsKept DEF BrokerInv
<1> QED
  BY <1>2, <1>3

LEMMA AskStep ==
  ASSUME BrokerInv, NEW ttl \in RequestedTtl, RequestProviderCredential(ttl)
  PROVE  BrokerInv'
<1>1. UNCHANGED <<clock, drift, issuer, edge>> /\ phase = "context"
  BY DEF RequestProviderCredential
<1>2. CASE ~MayAsk(ttl)
  BY <1>1, <1>2, OverStep DEF RequestProviderCredential, Over
<1>3. CASE MayAsk(ttl)
  <2>1. phase' = "asking" /\ claims.version = 2 /\ UNCHANGED <<claims, admittedAt>>
    BY <1>3 DEF RequestProviderCredential, MayAsk, CarriesNoV3
  <2>2. claims # None
    BY <1>1 DEF BrokerInv, AdmittedInv
  <2>3. EarnedInv'
    BY <2>1 DEF EarnedInv, Holding
  <2> QED
    BY <1>1, <2>1, <2>2, <2>3, WorldKept, ClaimsKept DEF BrokerInv
<1> QED
  BY <1>2, <1>3

LEMMA AnswerStep ==
  ASSUME BrokerInv, BrokerAnswers
  PROVE  BrokerInv'
<1>1. UNCHANGED <<clock, drift, issuer, edge>> /\ phase = "asking"
  BY DEF BrokerAnswers
<1>2. PICK a \in Answer :
        IF ValidateGithubCredential(a)
        THEN /\ phase' = "credential" /\ credential' = a
             /\ UNCHANGED <<request, claims, admittedAt, plan, asked>>
        ELSE Over
  BY DEF BrokerAnswers
<1>3. CASE ~ValidateGithubCredential(a)
  BY <1>1, <1>2, <1>3, OverStep DEF Over
<1>4. CASE ValidateGithubCredential(a)
  <2>1. phase' = "credential" /\ credential' = a /\ UNCHANGED <<claims, admittedAt>>
    BY <1>2, <1>4
  <2>2. claims # None /\ claims.version = 2
    BY <1>1 DEF BrokerInv, AdmittedInv, EarnedInv
  <2>3. a.expires \in Int /\ a.expires <= claims.exp
    BY <1>4, BrokerAssumption
       DEF ValidateGithubCredential, NotWidened, Answer, BrokerInv, TimesInv
  <2>4. EarnedInv'
    BY <2>1, <2>2, <2>3 DEF EarnedInv
  <2> QED
    BY <1>1, <2>1, <2>2, <2>4, WorldKept, ClaimsKept DEF BrokerInv
<1> QED
  BY <1>3, <1>4

LEMMA HeadersStep ==
  ASSUME BrokerInv, GithubCredentialHeaders
  PROVE  BrokerInv'
<1>1. /\ UNCHANGED <<clock, drift, issuer, edge, claims, admittedAt, credential>>
      /\ phase = "credential" /\ phase' = "sent"
  BY DEF GithubCredentialHeaders, broker
<1>2. claims # None
  BY <1>1 DEF BrokerInv, AdmittedInv, Holding
<1>3. EarnedInv'
  BY <1>1 DEF EarnedInv, Holding, BrokerInv
<1> QED
  BY <1>1, <1>2, <1>3, WorldKept, ClaimsKept DEF BrokerInv

(* The private-source client has nothing to do with claims.                 *)
LEMMA PrivateStep ==
  ASSUME BrokerInv, Private
  PROVE  BrokerInv'
<1>1. UNCHANGED <<clock, drift, issuer, edge>>
  BY DEF Private, BrokerRequestFromCapability, PrivateBrokerAnswers, PrivateBrokerRefuses,
         UpstreamAuthorizationHeaders
<1>2. CASE Throw
  BY <1>1, <1>2, OverStep
<1>3. CASE ~Throw
  <2>1. /\ phase' \in {"private", "private_credential", "private_sent"}
        /\ UNCHANGED <<claims, admittedAt>>
    BY <1>3 DEF Private, BrokerRequestFromCapability, PrivateBrokerAnswers, PrivateBrokerRefuses,
                UpstreamAuthorizationHeaders, Over
  <2>2. EarnedInv'
    BY <2>1 DEF EarnedInv, Holding
  <2> QED
    BY <1>1, <2>1, <2>2, WorldKept, ClaimsKept DEF BrokerInv, Holding
<1> QED
  BY <1>2, <1>3

-----------------------------------------------------------------------------
LEMMA BrokerStep == BrokerInv /\ [Next]_vars => BrokerInv'
<1> SUFFICES ASSUME BrokerInv, [Next]_vars
             PROVE  BrokerInv'
  OBVIOUS
<1>1. CASE World /\ UNCHANGED broker
  BY <1>1, IssueStep, TickStep, RevokeStep, RotateStep, DeploymentStep DEF World
<1>2. CASE Capability /\ UNCHANGED broker
  BY <1>2, VerifyStep, PlanStep DEF Capability
<1>3. CASE Provided
  <2>1. CASE BrokerRefuses
    BY <2>1, OverStep DEF BrokerRefuses, Over
  <2> QED
    BY <1>3, <2>1, AskStep, AnswerStep, HeadersStep DEF Provided
<1>4. CASE Private
  BY <1>4, PrivateStep
<1>5. CASE NextRequest
  BY <1>5, OverStep DEF NextRequest, Over
<1>6. CASE UNCHANGED vars
  <2>1. UNCHANGED <<clock, drift, issuer, edge, phase, claims, admittedAt, credential>>
    BY <1>6 DEF vars, capVars, read, broker
  <2>2. EarnedInv'
    BY <2>1 DEF EarnedInv, Holding, BrokerInv
  <2>3. AdmittedInv' /\ RetiredKeyDies'
    BY <2>1, ClaimsKept DEF BrokerInv, AdmittedInv, Holding
  <2> QED
    BY <2>1, <2>2, <2>3, WorldKept DEF BrokerInv
<1> QED
  BY <1>1, <1>2, <1>3, <1>4, <1>5, <1>6 DEF Next

LEMMA BrokerInvariant == Spec => []BrokerInv
BY BrokerInit, BrokerStep, PTL DEF Spec

-----------------------------------------------------------------------------
(* A revoked session is admitted no longer than the contract allows,        *)
(* whatever the local settings are and whatever the edge's clock shows.     *)
THEOREM SessionsDie == Spec => []RevokedSessionDies
<1>1. BrokerInv => RevokedSessionDies
  <2> SUFFICES ASSUME BrokerInv, claims # None, revokedAt # None, claims.epoch = 0
               PROVE  admittedAt - revokedAt + drift
                        <= IF claims.version = 3 THEN config.maxRevocationAge
                                                 ELSE MaxTtl + MaxSkew - 1
    BY DEF RevokedSessionDies
  <2>1. /\ Genuine(claims) /\ admittedAt \in Nat /\ revokedAt \in Nat /\ drift \in Int
        /\ claims.checked <= revokedAt /\ claims.version \in 1..3
    BY DEF BrokerInv, TimesInv, AdmittedInv, Genuine, Past
  <2>2. CASE claims.version = 3
    <3>1. config.maxRevocationAge \in Int
      BY ConfigAssumption DEF BrokerInv, TimesInv, Setting
    <3>2. admittedAt + drift - claims.checked <= config.maxRevocationAge
      BY <2>2 DEF BrokerInv, AdmittedInv
    <3> QED
      BY <2>1, <2>2, <3>1, <3>2 DEF Genuine
  <2>3. CASE claims.version # 3
    <3>1. admittedAt + drift - claims.iat <= MaxTtl + MaxSkew - 1 /\ claims.checked = claims.iat
      BY <2>1, <2>3 DEF BrokerInv, AdmittedInv, Genuine
    <3> QED
      BY <2>1, <2>3, <3>1, BoundsAssumption DEF Genuine
  <2> QED
    BY <2>2, <2>3
<1> QED
  BY <1>1, BrokerInvariant, PTL

(* A retired key opens nothing in an outage longer than the snapshot window.*)
THEOREM KeysDie == Spec => []RetiredKeyDies
<1>1. BrokerInv => RetiredKeyDies
  BY DEF BrokerInv
<1> QED
  BY <1>1, BrokerInvariant, PTL

(* No credential outlives its session by more than a capability lifetime,   *)
(* however slow the broker was.                                             *)
THEOREM CredentialsDie == Spec => []CredentialDiesWithSession
<1>1. BrokerInv => CredentialDiesWithSession
  <2> SUFFICES ASSUME BrokerInv, phase \in Holding, revokedAt # None, claims.epoch = 0
               PROVE  credential.expires <= revokedAt + MaxTtl
    BY DEF CredentialDiesWithSession
  <2>1. /\ claims # None /\ claims.version = 2
        /\ credential.expires \in Int /\ credential.expires <= claims.exp
    BY DEF BrokerInv, AdmittedInv, EarnedInv
  <2>2. /\ Genuine(claims) /\ claims.exp - claims.iat <= MaxTtl
        /\ claims.checked = claims.iat /\ claims.checked <= revokedAt /\ revokedAt \in Nat
    BY <2>1 DEF BrokerInv, AdmittedInv, TimesInv, Genuine, Past
  <2> QED
    BY <2>1, <2>2, BoundsAssumption DEF Genuine
<1> QED
  BY <1>1, BrokerInvariant, PTL

-----------------------------------------------------------------------------
(* The verdict and the order of keys and grants.                            *)

Mirror(s, i) == Len(s) + 1 - i

LEMMA ReverseMirrors ==
  ASSUME NEW S, NEW s \in Seq(S)
  PROVE  /\ Reverse(s) \in Seq(S) /\ Len(Reverse(s)) = Len(s) /\ DOMAIN Reverse(s) = DOMAIN s
         /\ \A i \in DOMAIN s : /\ i \in Nat /\ Mirror(s, i) \in DOMAIN s
                                /\ Mirror(s, Mirror(s, i)) = i
                                /\ Reverse(s)[i] = s[Mirror(s, i)]
                                /\ Reverse(s)[Mirror(s, i)] = s[i]
<1>1. Len(s) \in Nat /\ DOMAIN s = 1..Len(s)
  OBVIOUS
<1>2. \A i \in 1..Len(s) : /\ Mirror(s, i) \in 1..Len(s) /\ Mirror(s, Mirror(s, i)) = i
                           /\ (Len(s) - i) + 1 = Mirror(s, i)
  BY <1>1 DEF Mirror
<1>3. Reverse(s) = [i \in 1..Len(s) |-> s[Mirror(s, i)]]
  BY <1>2 DEF Reverse
<1>4. \A i \in 1..Len(s) : s[Mirror(s, i)] \in S
  BY <1>1, <1>2
<1>5. Reverse(s) \in Seq(S) /\ Len(Reverse(s)) = Len(s)
  BY <1>1, <1>3, <1>4
<1> QED
  BY <1>1, <1>2, <1>3, <1>5

LEMMA ReverseBack ==
  ASSUME NEW S, NEW s \in Seq(S)
  PROVE  Reverse(Reverse(s)) = s
<1>1. /\ Reverse(s) \in Seq(S) /\ Len(Reverse(s)) = Len(s)
      /\ Reverse(Reverse(s)) \in Seq(S) /\ Len(Reverse(Reverse(s))) = Len(s)
  BY ReverseMirrors
<1>2. \A i \in 1..Len(s) : Reverse(Reverse(s))[i] = s[i]
  <2> SUFFICES ASSUME NEW i \in 1..Len(s)
               PROVE  Reverse(Reverse(s))[i] = s[i]
    OBVIOUS
  <2>1. Reverse(Reverse(s))[i] = Reverse(s)[Mirror(Reverse(s), i)]
    BY <1>1, ReverseMirrors
  <2>2. Mirror(Reverse(s), i) = Mirror(s, i)
    BY <1>1 DEF Mirror
  <2> QED
    BY <2>1, <2>2, ReverseMirrors
<1> QED
  BY <1>1, <1>2

(* The same capability, but for its grants.                                 *)
SameButGrants(t, u) ==
  /\ t.version = u.version /\ t.formal = u.formal /\ t.iat = u.iat /\ t.nbf = u.nbf
  /\ t.exp = u.exp /\ t.kid = u.kid /\ t.key = u.key /\ t.assurance = u.assurance
  /\ t.policyEpoch = u.policyEpoch /\ t.epoch = u.epoch /\ t.checked = u.checked

LEMMA GrantsReversed ==
  ASSUME NEW S, NEW gs \in Seq(S), ValidGrants(gs)
  PROVE  ValidGrants(Reverse(gs))
<1>1. /\ DOMAIN Reverse(gs) = DOMAIN gs /\ Len(Reverse(gs)) = Len(gs)
      /\ \A i \in DOMAIN gs : /\ Mirror(gs, i) \in DOMAIN gs
                              /\ Mirror(gs, Mirror(gs, i)) = i
                              /\ Reverse(gs)[i] = gs[Mirror(gs, i)]
  BY ReverseMirrors
<1>2. ToSet(Reverse(gs)) \subseteq ToSet(gs)
  BY <1>1 DEF ToSet
<1>3. ASSUME NEW i \in DOMAIN Reverse(gs), NEW j \in DOMAIN Reverse(gs),
             Coordinates(Reverse(gs)[i]) = Coordinates(Reverse(gs)[j])
      PROVE  i = j
  <2>1. Mirror(gs, i) = Mirror(gs, j)
    BY <1>1, <1>3 DEF ValidGrants
  <2> QED
    BY <1>1, <2>1
<1> QED
  BY <1>1, <1>2, <1>3 DEF ValidGrants

LEMMA SignedReversed ==
  ASSUME NEW S, NEW ks \in Seq(S), NEW t, NEW u, SameButGrants(t, u), Signed(t, ks)
  PROVE  Signed(u, Reverse(ks))
<1>1. /\ DOMAIN Reverse(ks) = DOMAIN ks
      /\ \A i \in DOMAIN ks : /\ i \in Nat
                              /\ Mirror(ks, i) \in DOMAIN ks
                              /\ Mirror(ks, Mirror(ks, i)) = i
                              /\ Reverse(ks)[i] = ks[Mirror(ks, i)]
                              /\ Reverse(ks)[Mirror(ks, i)] = ks[i]
  BY ReverseMirrors
<1>2. \A i, j \in Usable(Reverse(ks)) : Reverse(ks)[i].kid = Reverse(ks)[j].kid => i = j
  <2> SUFFICES ASSUME NEW i \in Usable(Reverse(ks)), NEW j \in Usable(Reverse(ks)),
                      Reverse(ks)[i].kid = Reverse(ks)[j].kid
               PROVE  i = j
    OBVIOUS
  <2>1. Mirror(ks, i) \in Usable(ks) /\ Mirror(ks, j) \in Usable(ks)
    BY <1>1 DEF Usable
  <2>2. Mirror(ks, i) = Mirror(ks, j)
    BY <1>1, <2>1 DEF Usable, Signed, Unambiguous
  <2> QED
    BY <1>1, <2>2 DEF Usable
<1>3. PICK i \in Eligible(t, ks) : ks[i].key = t.key
  BY DEF Signed
<1>4. /\ Mirror(ks, i) \in Eligible(u, Reverse(ks))
      /\ Reverse(ks)[Mirror(ks, i)].key = u.key
  BY <1>1, <1>3 DEF Eligible, Usable, SameButGrants
<1>5. \A j \in Eligible(u, Reverse(ks)) : Mirror(ks, i) <= j
  BY <1>1, <1>2, <1>4 DEF Eligible, Usable
<1> QED
  BY <1>2, <1>4, <1>5 DEF Signed, Unambiguous

LEMMA VerifiesReversed ==
  ASSUME NEW S, NEW ks \in Seq(S), NEW t, NEW u, SameButGrants(t, u),
         NEW G, t.grants \in Seq(G), u.grants = Reverse(t.grants), Verifies(t, ks)
  PROVE  Verifies(u, Reverse(ks))
<1>1. Signed(u, Reverse(ks))
  BY SignedReversed DEF Verifies
<1>2. ValidGrants(u.grants)
  BY GrantsReversed DEF Verifies, ValidClaims
<1>3. ValidClaims(u, config, EdgeNow)
  BY <1>2 DEF Verifies, ValidClaims, ValidLifetime, SameButGrants
<1>4. u.version = 3 => OutageAdmission(u, config, EdgeNow)
  BY DEF Verifies, OutageAdmission, Fresh, SameButGrants
<1> QED
  BY <1>1, <1>3, <1>4 DEF Verifies, SameButGrants

(* Valid grants do not overlap, so the first that matches is the only one.  *)
LEMMA OnlyGrant ==
  ASSUME NEW S, NEW t, t.grants \in Seq(S), ValidGrants(t.grants), NEW r, NEW i \in Matching(t, r)
  PROVE  Grant(t, r) = t.grants[i]
<1>1. Matching(t, r) = {i} /\ i \in Nat
  BY DEF Matching, ValidGrants
<1>2. (CHOOSE j \in Matching(t, r) : \A k \in Matching(t, r) : j <= k) = i
  BY <1>1
<1> QED
  BY <1>2 DEF Grant

LEMMA PlanReversed ==
  ASSUME NEW S, NEW t, t.grants \in Seq(S), ValidGrants(t.grants),
         NEW u, u.grants = Reverse(t.grants), NEW r
  PROVE  /\ MayPlan(t, r) <=> MayPlan(u, r)
         /\ MayPlan(t, r) => Grant(t, r) = Grant(u, r)
<1>1. /\ u.grants \in Seq(S) /\ ValidGrants(u.grants) /\ DOMAIN u.grants = DOMAIN t.grants
      /\ \A i \in DOMAIN t.grants : /\ Mirror(t.grants, i) \in DOMAIN t.grants
                                    /\ u.grants[i] = t.grants[Mirror(t.grants, i)]
                                    /\ u.grants[Mirror(t.grants, i)] = t.grants[i]
  BY ReverseMirrors, GrantsReversed
<1>2. Matching(t, r) = {} <=> Matching(u, r) = {}
  BY <1>1 DEF Matching
<1>3. ASSUME Matching(t, r) # {}
      PROVE  Grant(t, r) = Grant(u, r)
  <2>1. PICK i \in Matching(t, r) : TRUE
    BY <1>3
  <2>2. Mirror(t.grants, i) \in Matching(u, r)
    BY <1>1, <2>1 DEF Matching
  <2>3. Grant(t, r) = t.grants[i] /\ Grant(u, r) = u.grants[Mirror(t.grants, i)]
    BY <1>1, <2>1, <2>2, OnlyGrant
  <2> QED
    BY <1>1, <2>1, <2>3 DEF Matching
<1> QED
  BY <1>2, <1>3 DEF MayPlan

(* What is issued and published is made of sequences.                       *)
Capable(t) == /\ IsSequence(t.grants)
              /\ t = [version |-> t.version, formal |-> t.formal, iat |-> t.iat, nbf |-> t.nbf,
                      exp |-> t.exp, grants |-> t.grants, kid |-> t.kid, key |-> t.key,
                      assurance |-> t.assurance, policyEpoch |-> t.policyEpoch, epoch |-> t.epoch,
                      checked |-> t.checked]

ListsInv == /\ token # None => Capable(token)
            /\ IsSequence(published) /\ IsSequence(jwks.keys)

LEMMA ListsStep == ListsInv /\ [Next]_vars => ListsInv'
<1> SUFFICES ASSUME ListsInv, [Next]_vars
             PROVE  ListsInv'
  OBVIOUS
<1>1. ASSUME NEW o \in Offer, NEW k, Issue(o, k)
      PROVE  ListsInv'
  <2>1. /\ token'.grants = o.grants
        /\ token' = [version |-> token'.version, formal |-> token'.formal, iat |-> token'.iat,
                     nbf |-> token'.nbf, exp |-> token'.exp, grants |-> token'.grants,
                     kid |-> token'.kid, key |-> token'.key, assurance |-> token'.assurance,
                     policyEpoch |-> token'.policyEpoch, epoch |-> token'.epoch, checked |-> token'.checked]
    BY <1>1 DEF Issue
  <2>2. IsSequence(token.grants)'
    BY <2>1, SequenceAssumption
  <2>3. UNCHANGED <<published, jwks>>
    BY <1>1 DEF Issue, edge
  <2> QED
    BY <2>1, <2>2, <2>3 DEF ListsInv, Capable
<1>2. CASE Rotate
  BY <1>2, SequenceAssumption DEF Rotate, edge, ListsInv
<1>3. CASE Refresh
  BY <1>3 DEF Refresh, issuer, ListsInv
<1>4. CASE UNCHANGED <<token, published, jwks>>
  BY <1>4 DEF ListsInv, Capable
<1>5. CASE World
  <2>1. Tick \/ Revoke \/ OutageStarts \/ OutageEnds => UNCHANGED <<token, published, jwks>>
    BY DEF Tick, Revoke, OutageStarts, OutageEnds, issuer, edge
  <2> QED
    BY <1>1, <1>2, <1>3, <1>4, <1>5, <2>1 DEF World
<1>6. CASE Capability
  BY <1>4, <1>6
     DEF Capability, VerifyEdgeCapability, PlanProviderRequest, BrokerContextFromCapability,
         issuer, edge
<1>7. CASE Provided
  BY <1>4, <1>7
     DEF Provided, RequestProviderCredential, BrokerAnswers, BrokerRefuses,
         GithubCredentialHeaders, issuer, edge
<1>8. CASE Private
  BY <1>4, <1>8
     DEF Private, BrokerRequestFromCapability, PrivateBrokerAnswers, PrivateBrokerRefuses,
         UpstreamAuthorizationHeaders, issuer, edge
<1>9. CASE NextRequest
  BY <1>4, <1>9 DEF NextRequest, issuer, edge
<1>10. CASE UNCHANGED vars
  BY <1>4, <1>10 DEF vars, capVars, issuer, edge
<1> QED
  BY <1>5, <1>6, <1>7, <1>8, <1>9, <1>10 DEF Next

LEMMA VerdictOfLists == ListsInv => VerdictIgnoresOrder
<1> SUFFICES ASSUME ListsInv, token # None, NEW r \in Request
             PROVE  Decision(token, jwks.keys, r)
                      = Decision([token EXCEPT !.grants = Reverse(token.grants)],
                                 Reverse(jwks.keys), r)
  BY DEF VerdictIgnoresOrder
<1>1. PICK u : u = [token EXCEPT !.grants = Reverse(token.grants)]
  OBVIOUS
<1>2. PICK G, K : token.grants \in Seq(G) /\ jwks.keys \in Seq(K)
  BY DEF ListsInv, Capable, IsSequence
<1>3. /\ u.grants = Reverse(token.grants) /\ SameButGrants(token, u)
      /\ SameButGrants(u, token)
  BY <1>1 DEF ListsInv, Capable, SameButGrants
<1>4. /\ Reverse(u.grants) = token.grants /\ u.grants \in Seq(G)
      /\ Reverse(Reverse(jwks.keys)) = jwks.keys /\ Reverse(jwks.keys) \in Seq(K)
  BY <1>2, <1>3, ReverseBack, ReverseMirrors
<1>5. Verifies(token, jwks.keys) => Verifies(u, Reverse(jwks.keys))
  BY <1>2, <1>3, VerifiesReversed
<1>6. Verifies(u, Reverse(jwks.keys)) => Verifies(token, jwks.keys)
  BY <1>3, <1>4, VerifiesReversed
<1>7. Verifies(token, jwks.keys) =>
         /\ MayPlan(token, r) <=> MayPlan(u, r)
         /\ MayPlan(token, r) => Grant(token, r) = Grant(u, r)
  BY <1>2, <1>3, PlanReversed DEF Verifies, ValidClaims
<1>8. Decision(token, jwks.keys, r) = Decision(u, Reverse(jwks.keys), r)
  BY <1>5, <1>6, <1>7 DEF Decision
<1> QED
  BY <1>1, <1>8

(* Whatever the order of keys and grants, the verdict is the same.          *)
THEOREM OrderIsIgnored == Spec => []VerdictIgnoresOrder
<1>1. Init => ListsInv
  BY SequenceAssumption DEF Init, InitCapability, ListsInv
<1> QED
  BY <1>1, ListsStep, VerdictOfLists, PTL DEF Spec

-----------------------------------------------------------------------------
(* Types.  Grants are none of them missing, and those that were verified do *)
(* not overlap; so a plan is made of one.                                   *)

GrantsOK(t) == IsSequence(t.grants) /\ None \notin ToSet(t.grants)

(* What a read has produced so far, and what it holds.                      *)
ReadOK == /\ phase \in Phase
          /\ admittedAt \in Nat \cup {None}
          /\ admittedAt = None <=> claims = None
          /\ phase \in {"verified", "planned", "context", "asking"} \cup Holding => claims # None
          /\ phase \in {"planned", "context", "asking"} \cup Holding => plan # None
          /\ phase \in {"asking", "private"} \cup Holding \cup HoldingPrivate => asked # None
          /\ credential # None <=> phase \in Holding \cup HoldingPrivate
          /\ claims # None => GrantsOK(claims) /\ ValidGrants(claims.grants)

(* The world and the deployment.                                            *)
AroundOK == /\ clock \in Start..(IF MaxClock < Start THEN Start ELSE MaxClock)
            /\ drift \in Drift
            /\ {revokedAt, retiredAt, outageSince} \subseteq Nat \cup {None}
            /\ jwks.refreshedAt \in Nat
            /\ config \in Config
            /\ minimumEpoch \in {0, 1}
            /\ token # None => GrantsOK(token)

TypeInv == AroundOK /\ ReadOK

LEMMA TimeFacts ==
  ASSUME AroundOK
  PROVE  clock \in Nat /\ EdgeNow \in Nat
BY BoundsAssumption DEF AroundOK, EdgeNow

LEMMA TypeInit == Init => TypeInv
<1> SUFFICES ASSUME Init PROVE TypeInv
  OBVIOUS
<1>1. clock = Start /\ drift \in Drift /\ Start \in Nat /\ jwks.refreshedAt = clock + drift
  BY BoundsAssumption DEF Init, InitCapability, EdgeNow
<1>2. jwks.refreshedAt \in Nat
  BY <1>1, BoundsAssumption
<1>3. AroundOK
  BY <1>1, <1>2, BoundsAssumption DEF Init, InitCapability, AroundOK
<1>4. ReadOK
  BY DEF Init, InitCapability, ReadOK, Phase, Holding, HoldingPrivate
<1> QED
  BY <1>3, <1>4 DEF TypeInv

(* What goes on around a read.                                              *)
LEMMA AroundTypes ==
  ASSUME TypeInv, World, UNCHANGED broker
  PROVE  TypeInv'
<1>1. UNCHANGED <<read, broker>>
  BY DEF World, Tick, Revoke, Rotate, Refresh, OutageStarts, OutageEnds, Issue
<1>2. ReadOK'
  BY <1>1 DEF read, broker, TypeInv, ReadOK, GrantsOK
<1>3. AroundOK'
  <2>1. AroundOK /\ clock \in Nat /\ EdgeNow \in Nat
    BY TimeFacts DEF TypeInv
  <2>2. CASE Tick
    BY <2>1, <2>2, BoundsAssumption DEF Tick, issuer, edge, AroundOK, GrantsOK
  <2>3. CASE Revoke \/ Rotate
    BY <2>1, <2>3 DEF Revoke, Rotate, edge, AroundOK, GrantsOK
  <2>4. CASE Refresh
    <3>1. jwks'.refreshedAt = EdgeNow /\ minimumEpoch' \in {0, 1}
      BY <2>4 DEF Refresh, Epoch
    <3> QED
      BY <2>1, <2>4, <3>1 DEF Refresh, issuer, AroundOK, GrantsOK
  <2>5. CASE OutageStarts \/ OutageEnds
    BY <2>1, <2>5 DEF OutageStarts, OutageEnds, issuer, AroundOK, GrantsOK
  <2>6. ASSUME NEW o \in Offer, NEW k, Issue(o, k)
        PROVE  AroundOK'
    <3>1. token'.grants = o.grants /\ UNCHANGED <<clock, drift, revokedAt, retiredAt, edge>>
      BY <2>6 DEF Issue
    <3>2. GrantsOK(token)'
      BY <3>1, SequenceAssumption, NoneAssumption DEF GrantsOK
    <3> QED
      BY <2>1, <3>1, <3>2 DEF edge, AroundOK
  <2> QED
    BY <2>2, <2>3, <2>4, <2>5, <2>6 DEF World
<1> QED
  BY <1>2, <1>3 DEF TypeInv

(* A step of a read is judged by what it leaves of the read.                *)
LEMMA ReaderTypes ==
  ASSUME TypeInv, UNCHANGED <<clock, drift, issuer, edge>>, ReadOK'
  PROVE  TypeInv'
BY DEF TypeInv, AroundOK, GrantsOK, issuer, edge

LEMMA ThrowTypes ==
  ASSUME TypeInv, UNCHANGED <<clock, drift, issuer, edge>>, Throw, credential' = None
  PROVE  TypeInv'
BY ReaderTypes DEF Throw, ReadOK, Phase, Holding, HoldingPrivate

LEMMA CapabilityTypes ==
  ASSUME TypeInv, Capability, UNCHANGED broker
  PROVE  TypeInv'
<1>1. /\ UNCHANGED <<clock, drift, issuer, edge, asked, credential>>
      /\ phase \in {"idle", "verified", "planned"}
  BY DEF Capability, VerifyEdgeCapability, PlanProviderRequest, BrokerContextFromCapability, broker
<1>2. credential = None /\ AroundOK /\ ReadOK
  BY <1>1 DEF TypeInv, ReadOK, Holding, HoldingPrivate
<1>3. CASE Throw
  BY <1>1, <1>2, <1>3, ThrowTypes
<1>4. ASSUME NEW r \in Request, VerifyEdgeCapability(r), ~Throw
      PROVE  ReadOK'
  <2>1. /\ phase' = "verified" /\ claims' = token /\ admittedAt' = clock /\ token # None
        /\ Verifies(token, jwks.keys)
    BY <1>4 DEF VerifyEdgeCapability
  <2>2. GrantsOK(token) /\ ValidGrants(token.grants)
    BY <1>2, <2>1 DEF AroundOK, Verifies, ValidClaims
  <2>3. admittedAt' \in Nat /\ admittedAt' # None
    BY <1>2, <2>1, TimeFacts, NoneAssumption
  <2> QED
    BY <1>1, <1>2, <2>1, <2>2, <2>3 DEF ReadOK, GrantsOK, Phase, Holding, HoldingPrivate
<1>5. ASSUME PlanProviderRequest, ~Throw
      PROVE  ReadOK'
  <2>1. /\ phase = "verified" /\ phase' = "planned" /\ MayPlan(claims, request)
        /\ plan' = Grant(claims, request) /\ UNCHANGED <<claims, admittedAt>>
    BY <1>5 DEF PlanProviderRequest
  <2>2. claims # None /\ GrantsOK(claims) /\ ValidGrants(claims.grants)
    BY <1>2, <2>1 DEF ReadOK
  <2>3. PICK i \in Matching(claims, request) : TRUE
    BY <2>1 DEF MayPlan
  <2>4. plan' = claims.grants[i] /\ i \in DOMAIN claims.grants
    BY <2>1, <2>2, <2>3, OnlyGrant DEF GrantsOK, IsSequence, Matching
  <2>5. plan' # None
    BY <2>2, <2>4 DEF GrantsOK, ToSet
  <2> QED
    BY <1>1, <1>2, <2>1, <2>2, <2>5 DEF ReadOK, GrantsOK, Phase, Holding, HoldingPrivate
<1>6. ASSUME BrokerContextFromCapability, ~Throw
      PROVE  ReadOK'
  BY <1>1, <1>2, <1>6
     DEF BrokerContextFromCapability, ReadOK, GrantsOK, Phase, Holding, HoldingPrivate
<1> QED
  BY <1>1, <1>3, <1>4, <1>5, <1>6, ReaderTypes DEF Capability

LEMMA SmallestIsInt ==
  ASSUME NEW a \in Int, NEW b \in Int, NEW c \in Int
  PROVE  SmallestOf({a, b, c}) \in Int
<1>1. \E x \in {a, b, c} : \A y \in {a, b, c} : x <= y
  <2>1. CASE a <= b /\ a <= c
    BY <2>1
  <2>2. CASE b <= a /\ b <= c
    BY <2>2
  <2>3. CASE c <= a /\ c <= b
    BY <2>3
  <2> QED
    BY <2>1, <2>2, <2>3
<1> QED
  BY <1>1 DEF SmallestOf

LEMMA AnswerIsSome == TypeInv => \A a \in Answer : a # None
<1> SUFFICES ASSUME TypeInv, NEW a \in Answer PROVE a # None
  OBVIOUS
<1>1. clock \in Nat
  BY TimeFacts DEF TypeInv
<1>2. a \in [sound: BOOLEAN, exact: BOOLEAN, readOnly: BOOLEAN, issued: Int, expires: Int]
  BY <1>1, BrokerAssumption DEF Answer
<1> QED
  BY <1>2, BrokerAssumption

LEMMA ProvidedTypes ==
  ASSUME BrokerInv, TypeInv, Provided
  PROVE  TypeInv'
<1>1. UNCHANGED <<clock, drift, issuer, edge>> /\ ReadOK
  BY DEF Provided, RequestProviderCredential, BrokerAnswers, BrokerRefuses,
         GithubCredentialHeaders, TypeInv
<1>2. CASE Over
  BY <1>1, <1>2, ThrowTypes DEF Over
<1>3. ASSUME NEW ttl \in RequestedTtl, RequestProviderCredential(ttl), ~Over
      PROVE  ReadOK'
  <2>1. /\ phase = "context" /\ phase' = "asking" /\ asked' = [now |-> EdgeNow, ttl |-> Ttl(ttl)]
        /\ UNCHANGED <<claims, admittedAt, plan, credential>>
    BY <1>3 DEF RequestProviderCredential
  <2>2. EdgeNow \in Int /\ claims.exp \in Int
    BY <1>1, <2>1, TimeFacts DEF TypeInv, ReadOK, BrokerInv, AdmittedInv, Genuine
  <2>3. ttl \in Int /\ claims.exp - EdgeNow \in Int /\ MaxBrokerTtl \in Int
    BY <2>2, BrokerAssumption
  <2>4. Ttl(ttl) \in Int
    BY <2>3, SmallestIsInt DEF Ttl
  <2>5. asked' # None
    BY <2>1, <2>2, <2>4, BrokerAssumption
  <2> QED
    BY <1>1, <2>1, <2>5 DEF ReadOK, GrantsOK, Phase, Holding, HoldingPrivate
<1>4. ASSUME BrokerAnswers, ~Over
      PROVE  ReadOK'
  <2>1. /\ phase = "asking" /\ phase' = "credential" /\ credential' \in Answer
        /\ UNCHANGED <<claims, admittedAt, plan, asked>>
    BY <1>4 DEF BrokerAnswers
  <2>2. credential' # None
    BY <2>1, AnswerIsSome
  <2> QED
    BY <1>1, <2>1, <2>2 DEF ReadOK, GrantsOK, Phase, Holding, HoldingPrivate
<1>5. ASSUME GithubCredentialHeaders
      PROVE  ReadOK'
  BY <1>1, <1>5
     DEF GithubCredentialHeaders, broker, ReadOK, GrantsOK, Phase, Holding, HoldingPrivate
<1> QED
  BY <1>1, <1>2, <1>3, <1>4, <1>5, ReaderTypes DEF Provided, BrokerRefuses

LEMMA PrivateTypes ==
  ASSUME TypeInv, Private
  PROVE  TypeInv'
<1>1. UNCHANGED <<clock, drift, issuer, edge>> /\ ReadOK
  BY DEF Private, BrokerRequestFromCapability, PrivateBrokerAnswers, PrivateBrokerRefuses,
         UpstreamAuthorizationHeaders, TypeInv
<1>2. CASE Over
  BY <1>1, <1>2, ThrowTypes DEF Over
<1>3. ASSUME NEW c \in PrivateCapability, NEW r \in PrivateRequest,
             BrokerRequestFromCapability(c, r), ~Over
      PROVE  ReadOK'
  <2>1. /\ phase = "idle" /\ phase' = "private"
        /\ asked' = [now |-> EdgeNow, ttl |-> MaxBrokerTtl]
        /\ UNCHANGED <<claims, admittedAt, plan, credential>>
    BY <1>3 DEF BrokerRequestFromCapability
  <2>2. asked' # None
    BY <2>1, TimeFacts, BrokerAssumption DEF TypeInv
  <2> QED
    BY <1>1, <2>1, <2>2 DEF ReadOK, GrantsOK, Phase, Holding, HoldingPrivate
<1>4. ASSUME PrivateBrokerAnswers, ~Over
      PROVE  ReadOK'
  <2>1. /\ phase = "private" /\ phase' = "private_credential" /\ credential' \in Answer
        /\ UNCHANGED <<claims, admittedAt, plan, asked>>
    BY <1>4 DEF PrivateBrokerAnswers
  <2>2. credential' # None
    BY <2>1, AnswerIsSome
  <2> QED
    BY <1>1, <2>1, <2>2 DEF ReadOK, GrantsOK, Phase, Holding, HoldingPrivate
<1>5. ASSUME UpstreamAuthorizationHeaders
      PROVE  ReadOK'
  BY <1>1, <1>5
     DEF UpstreamAuthorizationHeaders, broker, ReadOK, GrantsOK, Phase, Holding, HoldingPrivate
<1> QED
  BY <1>1, <1>2, <1>3, <1>4, <1>5, ReaderTypes DEF Private, PrivateBrokerRefuses

LEMMA TypeStep == BrokerInv /\ TypeInv /\ [Next]_vars => TypeInv'
<1> SUFFICES ASSUME BrokerInv, TypeInv, [Next]_vars
             PROVE  TypeInv'
  OBVIOUS
<1>1. CASE World /\ UNCHANGED broker
  BY <1>1, AroundTypes
<1>2. CASE Capability /\ UNCHANGED broker
  BY <1>2, CapabilityTypes
<1>3. CASE Provided \/ Private
  BY <1>3, ProvidedTypes, PrivateTypes
<1>4. CASE NextRequest
  BY <1>4, ThrowTypes DEF NextRequest, Over
<1>5. CASE UNCHANGED vars
  BY <1>5 DEF vars, capVars, issuer, edge, read, broker, TypeInv, AroundOK, ReadOK, GrantsOK
<1> QED
  BY <1>1, <1>2, <1>3, <1>4, <1>5 DEF Next

(* Types of every state; and each phase of a read has what the phases       *)
(* before it produced: no request is planned without claims, no credential  *)
(* asked for without a plan, and none is held outside the phases that use it*)
THEOREM TypeCorrect == Spec => []TypeOK
<1>1. TypeInv => TypeOK
  BY DEF TypeInv, AroundOK, ReadOK, TypeOK, TimeOK
<1> QED
  BY <1>1, TypeInit, TypeStep, BrokerInvariant, PTL DEF Spec
=============================================================================
