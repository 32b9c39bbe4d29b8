\* Two callers, one resource with leases of one and of two ticks, one key.
SPECIFICATION Spec
CONSTANTS
  None = None
  Client = {c1, c2}
  Resource = {r1}
  Key = {k1}
  TtlMs = {1, 2}
  MaxNow = 3
  MaxToken = 3
  MaxVersion = 2
SYMMETRY ClientSymmetry
INVARIANTS
  TypeOK
  TokenNamesOneHolder
  NewestGrantOnFile
  AtMostOneBeliever
  AcknowledgedEntriesSurvive
PROPERTIES
  Fenced
