\* One session, one rotation of keys, a clock that is right or one off.
SPECIFICATION Spec
CONSTANTS
  None = None
  MaxTtl = 2
  MaxSkew = 1
  MaxGrants = 2
  Drift <- Drifts
  Config <- Settings
  Offer <- Offers
  FirstKeys <- OldKeys
  NextKeys <- NewKeys
  Request <- Requests
  Start = 1
  MaxClock = 4
  MaxBrokerTtl = 2
  FreshnessSkew = 1
  RequestedTtl = {1, 2, 3}
  PrivateCapability <- Privates
  PrivateRequest <- PrivateRequests
INVARIANTS
  TypeOK
  RevokedSessionDies
  RetiredKeyDies
  VerdictIgnoresOrder
  CredentialDiesWithSession
