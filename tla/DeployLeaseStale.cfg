\* The documented protection of a newer remote, two deploys.
SPECIFICATION InstantSpec
CONSTANTS
  None = None
  Deployer = {ci1, op1}
  CI = {ci1}
  Holder = {ci1, op1}
  HolderId <- OwnHolder
  Ttl = 2
  JobLimit = 1
PROPERTIES
  OverwritesOnlySeenVersion
CHECK_DEADLOCK FALSE
