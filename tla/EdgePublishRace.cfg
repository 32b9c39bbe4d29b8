\* Three publishes over two coordinates, two contents and two formats, with
\* origin outages, failing puts, cut-off invocations and the mirror on.
SPECIFICATION Spec
CONSTANTS
  c1 = c1
  c2 = c2
  d1 = d1
  d2 = d2
  None = None
  Invocation = {i1, i2, i3}
  Coord = {c1, c2}
  Taggable = {c1}
  Digest = {d1, d2}
  Payload <- RacingPayloads
  EdgeEnabled = TRUE
  MirrorEnabled = TRUE
SYMMETRY InvocationSymmetry
INVARIANTS
  TypeOK
  AdvertisedBytesExist
  CreatedIsServed
  MirrorAgreesWithBucket
PROPERTIES
  VersionsImmutable
  WriteOnce
