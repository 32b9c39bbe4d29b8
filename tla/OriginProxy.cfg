\* Timeouts of 1 to 3 ticks, settings beyond both ends, connections of up to 5.
SPECIFICATION FairSpec
CONSTANTS
  None = None
  Request <- Requests
  Response <- Responses
  Setting = {0, 1, 3, 4}
  MinTimeout = 1
  DefaultTimeout = 2
  MaxTimeout = 3
  MaxTime = 5
INVARIANTS
  TypeOK
  SocketOutlivesSetup
  AnswerIsTheOrigins
  SetupIsBounded
PROPERTIES
  EveryRequestAnswered
