------------------------- MODULE MCCredentialBroker -------------------------
(***************************************************************************)
(* A small instance of CredentialBroker.                                   *)
(***************************************************************************)
EXTENDS CredentialBroker

Entry(kid, key, usable) == [kid |-> kid, key |-> key, usable |-> usable]
OldKeys == <<Entry("kid1", "old", TRUE)>>
(* After the rotation: the new key beside an unusable one; or, by mistake,  *)
(* two keys under one kid.                                                  *)
NewKeys == {<<Entry("kid1", "old", FALSE), Entry("kid2", "new", TRUE)>>,
            <<Entry("kid2", "new", TRUE), Entry("kid2", "other", TRUE)>>}

GithubGrant == [provider |-> "github", operation |-> "read", package |-> "p", resource |-> "r",
                origin |-> None, ref |-> "a"]
CargoGrant == [GithubGrant EXCEPT !.provider = "cargo-registry", !.origin = "registry"]
Shape == [version |-> 2, formal |-> TRUE, life |-> 2, delay |-> 0, lag |-> 0, assurance |-> 1,
          policyEpoch |-> 1, grants |-> <<GithubGrant>>]
Outage == [Shape EXCEPT !.version = 3, !.lag = 1]
Offers == {Shape, Outage,
           [Shape EXCEPT !.version = 1],
           [Shape EXCEPT !.life = 3],
           [Shape EXCEPT !.grants = <<GithubGrant, [GithubGrant EXCEPT !.ref = "b"]>>],
           [Shape EXCEPT !.formal = FALSE, !.grants = <<CargoGrant>>],
           [Outage EXCEPT !.lag = 0, !.delay = 1, !.grants = <<CargoGrant, GithubGrant>>],
           [Outage EXCEPT !.policyEpoch = 0]}

Strict == [maxTtl |-> 2, skew |-> 1, minimumAssurance |-> 1, minimumPolicyEpoch |-> 1,
           maxCapabilityAge |-> 2, maxRevocationAge |-> 1, maxJwksAge |-> 1, maxOutage |-> 2]
Settings == {Strict, [Strict EXCEPT !.maxTtl = 3, !.skew = 2, !.maxJwksAge = 3]}

Url == [https |-> TRUE, host |-> "github", port |-> FALSE, resource |-> "r", plain |-> TRUE]
Read == [provider |-> "github", operation |-> "read", package |-> "p", resource |-> "r", url |-> Url]
Requests == {Read, [Read EXCEPT !.url.resource = "elsewhere"]}

Drifts == {-1, 1}

Source == [provider |-> "npm", resource |-> "r"]
Privates == {[source |-> Source, exp |-> 2]}
PrivateRequests == {Source, [Source EXCEPT !.resource = "elsewhere"]}
=============================================================================
