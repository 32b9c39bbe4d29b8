\* One workflow deploy and one operator's, racing, under the fairness of time
\* and of the job timeout; deploys end, so the system stops.
SPECIFICATION FairSpec
CONSTANTS
  None = None
  Deployer = {ci1, op1}
  CI = {ci1}
  Holder = {ci1, op1}
  HolderId <- OwnHolder
  Ttl = 2
  JobLimit = 1
INVARIANTS
  TypeOK
  LatecomersKeptOut
PROPERTIES
  AbandonedLeaseLapses
CHECK_DEADLOCK FALSE
