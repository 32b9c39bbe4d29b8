\* The documented "short race" with a third deploy.
SPECIFICATION InstantSpec
CONSTANTS
  None = None
  Deployer = {ci1, op1, op2}
  CI = {ci1}
  Holder = {ci1, op1, op2}
  HolderId <- OwnHolder
  Ttl = 2
  JobLimit = 1
INVARIANTS
  LatecomersKeptOut
CHECK_DEADLOCK FALSE
