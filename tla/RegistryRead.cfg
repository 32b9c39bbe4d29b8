\* Three versions appearing while one reader works, two of them per page.
SPECIFICATION FairSpec
CONSTANTS
  d1 = d1
  d2 = d2
  None = None
  Version = {1, 2, 3}
  Digest = {d1, d2}
  Tags <- TwoTags
  MaxRedirects = 2
  World <- SmallWorld
  Candidate <- SmallCandidate
  Request <- AllRequests
  PageSize = 2
  MaxPages = 2
  MaxObjects = 4
  MaxClock = 1
  MaxMarks = 1
INVARIANTS
  TypeOK
  PublishedNeverGuessed
  RestrictionIsTerminal
  ListingHonest
  AdvertisedBytesServed
  AnswerMatchesFile
PROPERTIES
  ReadAnswered
