\* The documented "exactly one of any number of concurrent publishes", across
\* the origin and the edge.
SPECIFICATION Spec
CONSTANTS
  c1 = c1
  c2 = c2
  d1 = d1
  d2 = d2
  None = None
  Invocation = {i1, i2}
  Coord = {c1, c2}
  Taggable = {c1}
  Digest = {d1, d2}
  Payload <- RacingPayloads
  EdgeEnabled = TRUE
  MirrorEnabled = FALSE
INVARIANTS
  OneCreatedPerCoordinate
