\* A release lists a sidecar at its expected URL; a version of it is asked for
\* while the origin is down.
SPECIFICATION Spec
CONSTANTS
  d1 = d1
  d2 = d2
  None = None
  Version = {1, 2, 3}
  Digest = {d1, d2}
  Tags <- TwoTags
  MaxRedirects = 2
  World <- ListedWorld
  Candidate <- SmallCandidate
  Request <- OneRead
  PageSize = 2
  MaxPages = 2
  MaxObjects = 4
  MaxClock = 1
  MaxMarks = 1
PROPERTIES
  SidecarSettlesOnlyItself
