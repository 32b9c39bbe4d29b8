\* Two publishes that may each fail any single admission check, under the
\* fairness of FairSpec (no symmetry: one property is a liveness property).
SPECIFICATION FairSpec
CONSTANTS
  c1 = c1
  c2 = c2
  d1 = d1
  d2 = d2
  None = None
  Invocation = {i1, i2}
  Coord = {c1, c2}
  Taggable = {c1}
  Digest = {d1, d2}
  Payload <- MixedPayloads
  EdgeEnabled = TRUE
  MirrorEnabled = TRUE
INVARIANTS
  PublicationVouched
PROPERTIES
  AnsweredUnlessMirroring
