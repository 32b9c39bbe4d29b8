\* One person, two pages, two proofs, two attempts that may overlap.
SPECIFICATION FairSpec
CONSTANTS
  None = None
  Env <- Envs
  Kind = {"pre-interest", "quote"}
  Body <- Bodies
  Marketing = {TRUE}
  MaxPages = 2
  MaxProofs = 2
  MaxAttempts = 2
  ConsentWindow = 0
  MaxClock = 1
INVARIANTS
  TypeOK
  AcceptedIsStored
  OneRecordPerPage
  ProofPerForward
  FinalLeavesNothing
PROPERTIES
  EveryAttemptAnswered
\* The bounds end every behaviour; a person stops submitting some day.
CHECK_DEADLOCK FALSE
