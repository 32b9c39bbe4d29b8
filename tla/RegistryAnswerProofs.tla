------------------------ MODULE RegistryAnswerProofs ------------------------
(***************************************************************************)
(* Which source answers a registry read, and that a read comes to an end,   *)
(* whatever versions, tags, third parties and limits there are.             *)
(***************************************************************************)
EXTENDS RegistryReadProofs, FiniteSetTheorems

-----------------------------------------------------------------------------
(* Third parties.  No location that is fetched carries a digest; tags are   *)
(* counted singly or, for sidecars, twice; only a package of a native       *)
(* registry is downloaded from there.                                       *)

ByTag == {"release", "release_sidecar", "release_read", "mirror", "mirror_hop"}

FallbackInv == /\ FallbackTypeOK
               /\ at.sha = None
               /\ step \in ByTag => attempt <= Len(Tags)
               /\ step = "download" => world.native # None
               /\ step = "release_sidecar" => world.releases[Tags[attempt]] # None
               /\ AnswerMatchesFile

LEMMA TagFacts == /\ Len(Tags) \in Nat \ {0}
                  /\ \A i \in 1..Len(Tags) : Tags[i] \in ToSet(Tags)
                  /\ \A i \in 1..(2 * Len(Tags)) : (i + 1) \div 2 \in 1..Len(Tags)
<1>1. Tags \in Seq(ToSet(Tags)) /\ Tags # <<>>
  BY TagsAssumption
<1>2. Len(Tags) \in Nat \ {0} /\ \A i \in 1..Len(Tags) : Tags[i] \in ToSet(Tags)
  BY <1>1
<1>3. \A n \in Nat : \A i \in 1..(2 * n) : (i + 1) \div 2 \in 1..n
  OBVIOUS
<1> QED
  BY <1>2, <1>3

(* Four ways a step goes on: to another source or try, to a location, to    *)
(* where a redirect points, to an answer.                                   *)

LEMMA MoveKeeps ==
  ASSUME FallbackInv, NEW s \in Step, NEW i \in 1..(2 * Len(Tags)), Move(s, i),
         s \in ByTag => i <= Len(Tags), s \notin {"download", "release_sidecar"}
  PROVE  FallbackInv'
BY RedirectAssumption
   DEF Move, FallbackInv, FallbackTypeOK, AnswerMatchesFile, Nowhere, Location, Place

LEMMA DownloadKeeps ==
  ASSUME FallbackInv, NEW s \in Step, NEW u \in Location, u.sha = None, Download(s, u),
         s \in ByTag => attempt <= Len(Tags), s = "download" => world.native # None,
         s = "release_sidecar" => world.releases[Tags[attempt]] # None
  PROVE  FallbackInv'
BY RedirectAssumption DEF Download, FallbackInv, FallbackTypeOK, AnswerMatchesFile

LEMMA FollowKeeps ==
  ASSUME FallbackInv, NEW p \in Place, Follow([place |-> p, sha |-> None])
  PROVE  FallbackInv'
<1>1. [place |-> p, sha |-> None] \in Location
  BY DEF Location
<1> QED
  BY <1>1, RedirectAssumption DEF Follow, FallbackInv, FallbackTypeOK, AnswerMatchesFile

(* An answer that is true of the file it names.                             *)
TrueOf(source, sha, url, asset, readAt) ==
  /\ source = "native" => url.place = "native_file"
  /\ source = "github" => url.place \in {"release", "asset_store", "cdn"}
  /\ asset # None => asset.reported \in {None, sha}
  /\ url.sha \in {None, sha}
  /\ readAt.place \in {"nowhere", "native_file", "release", "asset_store"}

LEMMA FindKeeps ==
  ASSUME FallbackInv, NEW source \in {"native", "github"}, NEW sha \in Digest \cup {None},
         NEW url, NEW asset, NEW readAt, Find(source, sha, url, asset, readAt),
         url # Nowhere => TrueOf(source, sha, url, asset, readAt)
  PROVE  FallbackInv'
<1>1. /\ found' = [source |-> source, sha |-> sha, url |-> url, asset |-> asset, readAt |-> readAt]
      /\ step' = "over" /\ attempt' = 1 /\ at' = Nowhere /\ hops' = 0 /\ UNCHANGED world
  BY DEF Find
<1>2. FallbackTypeOK'
  BY <1>1, TagFacts, RedirectAssumption
     DEF FallbackInv, FallbackTypeOK, Step, Nowhere, Location, Place
<1>3. AnswerMatchesFile'
  BY <1>1 DEF AnswerMatchesFile, TrueOf, Nowhere
<1> QED
  BY <1>1, <1>2, <1>3 DEF FallbackInv, ByTag, Nowhere

LEMMA StartGithubKeeps == FallbackInv /\ StartGithub => FallbackInv'
BY MoveKeeps, TagFacts DEF StartGithub, Step, ByTag

LEMMA ListingKeeps ==
  ASSUME FallbackInv, NEW source \in {"native", "github"}, FindListing(source)
  PROVE  FallbackInv'
BY FindKeeps DEF FindListing

(* What the world holds.                                                    *)
LEMMA NativeFacts ==
  ASSUME FallbackInv, world.native # None
  PROVE  /\ world.native.url \in Location
         /\ world.native.sha \in Digest \cup {None} /\ world.native.bytes \in Digest
BY WorldAssumption DEF FallbackInv, FallbackTypeOK, WorldOK, NativePackage

LEMMA ReleaseFacts ==
  ASSUME FallbackInv, NEW t \in ToSet(Tags), world.releases[t] # None
  PROVE  ReleaseOK(world.releases[t])
BY WorldAssumption DEF FallbackInv, FallbackTypeOK, WorldOK

LEMMA SidecarKeeps ==
  ASSUME FallbackInv, NEW t \in ToSet(Tags), NEW readAt, HasSidecar(t), FindSidecar(t, readAt),
         readAt.place \in {"nowhere", "release", "asset_store"}
  PROVE  FallbackInv'
<1> DEFINE s == world.releases[t].sidecar
<1>1. s \in Sidecar /\ ValidSidecar(s)
  BY ReleaseFacts DEF HasSidecar, ReleaseOK
<1>2. Find("github", s.sha, s.url, None, readAt)
  BY DEF FindSidecar
<1>3. s.sha \in Digest /\ TrueOf("github", s.sha, s.url, None, readAt)
  BY <1>1 DEF Sidecar, ValidSidecar, TrueOf
<1> HIDE DEF s
<1> QED
  BY <1>2, <1>3, FindKeeps

(* The least of some positions of a sequence is one of them.                *)
LEMMA FirstIsOne ==
  ASSUME NEW n \in Nat, NEW I \in SUBSET (1..n), I # {}
  PROVE  (CHOOSE i \in I : \A j \in I : i <= j) \in I
<1>1. PICK i \in I : \A j \in I : i <= j
  BY HasSmallest
<1> QED
  BY <1>1

LEMMA ArtifactIsAsset ==
  ASSUME FallbackInv, NEW t \in ToSet(Tags), world.releases[t] # None,
         Artifact(world.releases[t]) # None
  PROVE  LET a == Artifact(world.releases[t]) IN
         /\ a \in Asset /\ a.reported \in {None, a.bytes}
         /\ a.digest # None <=> a.named = "digest"
<1> DEFINE r == world.releases[t]
<1>1. /\ r.assets \in Seq(Asset)
      /\ \A i \in DOMAIN r.assets :
           /\ r.assets[i] \in Asset
           /\ r.assets[i].reported \in {None, r.assets[i].bytes}
           /\ r.assets[i].digest # None <=> r.assets[i].named = "digest"
  <2>1. ReleaseOK(r)
    BY ReleaseFacts
  <2>2. \A i \in DOMAIN r.assets : r.assets[i] \in ToSet(r.assets)
    BY DEF ToSet
  <2> QED
    BY <2>1, <2>2 DEF ReleaseOK
<1>2. \A n : Named(r, n) # {} => \E i \in DOMAIN r.assets : FirstNamed(r, n) = r.assets[i]
  <2> SUFFICES ASSUME NEW n, Named(r, n) # {}
               PROVE  \E i \in DOMAIN r.assets : FirstNamed(r, n) = r.assets[i]
    OBVIOUS
  <2>1. Named(r, n) \in SUBSET (1..Len(r.assets)) /\ Len(r.assets) \in Nat
    BY <1>1 DEF Named
  <2>2. (CHOOSE i \in Named(r, n) : \A j \in Named(r, n) : i <= j) \in Named(r, n)
    BY <2>1, FirstIsOne
  <2> QED
    BY <2>2 DEF FirstNamed, Named
<1>3. \E i \in DOMAIN r.assets : Artifact(r) = r.assets[i]
  BY <1>2 DEF Artifact
<1> QED
  BY <1>1, <1>3

LEMMA NextReleaseKeeps ==
  ASSUME FallbackInv, step \in {"release", "release_sidecar"}, NextRelease
  PROVE  FallbackInv'
<1>1. CASE attempt < Len(Tags)
  <2>1. attempt + 1 \in 1..(2 * Len(Tags)) /\ attempt + 1 <= Len(Tags)
    BY <1>1, TagFacts DEF FallbackInv, FallbackTypeOK
  <2> QED
    BY <1>1, <2>1, MoveKeeps DEF NextRelease, Step
<1>2. CASE ~(attempt < Len(Tags))
  BY <1>2, MoveKeeps, TagFacts DEF NextRelease, Step, ByTag
<1> QED
  BY <1>1, <1>2

LEMMA ArtifactKeeps ==
  ASSUME FallbackInv, step \in {"release", "release_sidecar"},
         NEW t \in ToSet(Tags), world.releases[t] # None, TakeArtifact(world.releases[t])
  PROVE  FallbackInv'
<1> DEFINE a == Artifact(world.releases[t])
<1>1. CASE a # None /\ Trusted(a)
           /\ Find("github", DigestOf(a), [place |-> "release", sha |-> a.digest], a, Nowhere)
  <2>1. /\ a \in Asset /\ a.reported \in {None, a.bytes}
        /\ a.digest # None <=> a.named = "digest"
    BY <1>1, ArtifactIsAsset
  <2> HIDE DEF a
  <2>2. DigestOf(a) \in Digest
    BY <1>1, <2>1 DEF Trusted, DigestOf, Asset
  <2>3. TrueOf("github", DigestOf(a), [place |-> "release", sha |-> a.digest], a, Nowhere)
    BY <1>1, <2>1 DEF Trusted, DigestOf, TrueOf, Nowhere
  <2> QED
    BY <1>1, <2>2, <2>3, FindKeeps
<1>2. CASE NextRelease
  BY <1>2, NextReleaseKeeps
<1> QED
  BY <1>1, <1>2 DEF TakeArtifact

(* The release a listed sidecar was fetched for is there.                   *)
LEMMA ReleaseKeeps ==
  ASSUME FallbackInv,
         \/ VersionFromGithub \/ ReleaseSidecarRefused \/ ReleaseSidecarArrives
         \/ IsGithubAssetResponseThrows
  PROVE  FallbackInv'
<1> DEFINE tag == Tags[attempt]
<1>1. CASE VersionFromGithub \/ ReleaseSidecarRefused
  <2>1. step \in {"release", "release_sidecar"} /\ tag \in ToSet(Tags)
    BY <1>1, TagFacts
       DEF VersionFromGithub, ReleaseSidecarRefused, FallbackInv, FallbackTypeOK, ByTag
  <2>2. world.releases[tag] # None
    BY <1>1 DEF VersionFromGithub, ReleaseSidecarRefused, FallbackInv
  <2>3. CASE TakeArtifact(world.releases[tag])
    BY <2>1, <2>2, <2>3, ArtifactKeeps
  <2>4. CASE VersionFromGithub /\ Download("release_sidecar", [place |-> "release", sha |-> None])
    <3>1. [place |-> "release", sha |-> None] \in Location
      BY DEF Location, Place
    <3>2. attempt <= Len(Tags)
      BY <2>1 DEF FallbackInv, ByTag
    <3> QED
      BY <2>2, <2>4, <3>1, <3>2, DownloadKeeps DEF Step
  <2> QED
    BY <1>1, <2>3, <2>4 DEF VersionFromGithub, ReleaseSidecarRefused
<1>2. CASE ReleaseSidecarArrives
  <2>1. PICK p \in {"release", "asset_store", "elsewhere"} :
          Download("release_read", [place |-> p, sha |-> None])
    BY <1>2 DEF ReleaseSidecarArrives
  <2>2. [place |-> p, sha |-> None] \in Location
    BY DEF Location, Place
  <2>3. attempt <= Len(Tags)
    BY <1>2 DEF ReleaseSidecarArrives, FallbackInv, ByTag
  <2> QED
    BY <2>1, <2>2, <2>3, DownloadKeeps DEF Step
<1>3. CASE IsGithubAssetResponseThrows
  BY <1>3, MoveKeeps, TagFacts DEF IsGithubAssetResponseThrows, Step, ByTag
<1> QED
  BY <1>1, <1>2, <1>3

LEMMA NativeKeeps ==
  ASSUME FallbackInv, NativeMetadata \/ NativeBytes \/ NativeGivesUp
  PROVE  FallbackInv'
<1> DEFINE p == world.native
<1>1. CASE StartGithub
  BY <1>1, StartGithubKeeps
<1>2. CASE FindListing("native")
  BY <1>2, ListingKeeps
<1>3. CASE p # None /\ HasCandidate(p) /\ Find("native", p.sha, p.url, None, Nowhere)
  <2>1. p.sha \in Digest \cup {None} /\ TrueOf("native", p.sha, p.url, None, Nowhere)
    BY <1>3, NativeFacts DEF HasCandidate, IsAllowedNativeDownloadUrl, TrueOf, Location, Nowhere
  <2> QED
    BY <1>3, <2>1, FindKeeps
<1>4. CASE p # None /\ HasCandidate(p) /\ Download("download", p.url)
  <2>1. p.url \in Location /\ p.url.sha = None
    BY <1>4, NativeFacts DEF HasCandidate, IsAllowedNativeDownloadUrl, Location
  <2> QED
    BY <1>4, <2>1, DownloadKeeps DEF Step, ByTag
<1>5. CASE NativeBytes
  <2>1. at.place = "native_file" /\ at.sha = None /\ p # None
    BY <1>5 DEF NativeBytes, MayFetch, FromNative, IsAllowedNativeDownloadUrl, FallbackInv
  <2>2. PICK d \in {p.bytes} : Find("native", d, at, None, at)
    BY <1>5, <2>1 DEF NativeBytes
  <2>3. d \in Digest /\ TrueOf("native", d, at, None, at)
    BY <2>1, <2>2, NativeFacts DEF TrueOf
  <2> QED
    BY <2>2, <2>3, FindKeeps
<1> QED
  BY <1>1, <1>2, <1>3, <1>4, <1>5 DEF NativeMetadata, NativeGivesUp

LEMMA RedirectKeeps == FallbackInv /\ Redirect => FallbackInv'
BY FollowKeeps DEF Redirect, Place

LEMMA NextSidecarKeeps ==
  ASSUME FallbackInv, NextSidecar
  PROVE  FallbackInv'
<1>1. CASE attempt < 2 * Len(Tags)
  <2>1. attempt + 1 \in 1..(2 * Len(Tags))
    BY <1>1, TagFacts DEF FallbackInv, FallbackTypeOK
  <2> QED
    BY <1>1, <2>1, MoveKeeps DEF NextSidecar, Step, ByTag
<1>2. CASE ~(attempt < 2 * Len(Tags))
  BY <1>2, MoveKeeps, TagFacts DEF NextSidecar, Step, ByTag
<1> QED
  BY <1>1, <1>2

LEMMA SidecarStepKeeps ==
  ASSUME FallbackInv,
         SidecarFromCdn \/ SidecarFromGithub \/ SidecarArrives \/ SidecarMissing
  PROVE  FallbackInv'
<1>1. CASE SidecarFromCdn \/ SidecarArrives
  <2>1. SidecarTag \in ToSet(Tags)
    BY TagFacts DEF SidecarTag, FallbackInv, FallbackTypeOK
  <2>2. PICK readAt : /\ HasSidecar(SidecarTag) /\ FindSidecar(SidecarTag, readAt)
                      /\ readAt.place \in {"nowhere", "release", "asset_store"}
    <3>1. CASE SidecarFromCdn
      BY <3>1 DEF SidecarFromCdn, Nowhere
    <3>2. CASE SidecarArrives
      BY <3>2 DEF SidecarArrives, MayFetch, FromNative, IsAllowedGithubReleaseRedirect
    <3> QED
      BY <1>1, <3>1, <3>2
  <2> QED
    BY <2>1, <2>2, SidecarKeeps
<1>2. CASE SidecarFromGithub
  <2>1. [place |-> "release", sha |-> None] \in Location
    BY DEF Location, Place
  <2> QED
    BY <1>2, <2>1, DownloadKeeps DEF SidecarFromGithub, Step, ByTag
<1>3. CASE SidecarMissing
  BY <1>3, NextSidecarKeeps DEF SidecarMissing
<1> QED
  BY <1>1, <1>2, <1>3

LEMMA ApiKeeps ==
  ASSUME FallbackInv,
         \/ FeedFound \/ FeedMissing \/ PublicGithubRepo \/ PackageFromGithub
         \/ ReleaseMissing \/ GithubGivesUp
  PROVE  FallbackInv'
<1>1. CASE FeedFound \/ PackageFromGithub
  BY <1>1, ListingKeeps DEF FeedFound, PackageFromGithub
<1>2. CASE FeedMissing \/ PublicGithubRepo \/ GithubGivesUp
  BY <1>2, MoveKeeps, TagFacts DEF FeedMissing, PublicGithubRepo, GithubGivesUp, Step, ByTag
<1>3. CASE ReleaseMissing
  BY <1>3, NextReleaseKeeps DEF ReleaseMissing
<1> QED
  BY <1>1, <1>2, <1>3

LEMMA MirrorKeeps ==
  ASSUME FallbackInv, StartMirror \/ MirrorArrives \/ MirrorMissing
  PROVE  FallbackInv'
<1> DEFINE place == IF world.native # None THEN "native_file" ELSE "release"
<1>1. CASE StartMirror
  <2>1. [place |-> place, sha |-> None] \in Location
    BY DEF Location, Place
  <2>2. attempt <= Len(Tags)
    BY <1>1 DEF StartMirror, FallbackInv, ByTag
  <2> QED
    BY <1>1, <2>1, <2>2, DownloadKeeps DEF StartMirror, Step
<1>2. CASE MirrorArrives
  <2> DEFINE source == IF world.native # None THEN "native" ELSE "github"
  <2>1. Find(source, None, at, None, at) /\ source \in {"native", "github"}
    BY <1>2 DEF MirrorArrives
  <2>2. at.place \in IF source = "native" THEN {"native_file"} ELSE {"release", "asset_store"}
    BY <1>2 DEF MirrorArrives, MayFetch, FromNative, IsAllowedNativeDownloadUrl,
                IsAllowedGithubReleaseRedirect
  <2>3. TrueOf(source, None, at, None, at)
    BY <2>2 DEF TrueOf, FallbackInv
  <2> QED
    BY <2>1, <2>3, FindKeeps
<1>3. CASE MirrorMissing
  <2>1. CASE world.native = None /\ attempt < Len(Tags)
    <3>1. attempt + 1 \in 1..(2 * Len(Tags)) /\ attempt + 1 <= Len(Tags)
      BY <2>1, TagFacts DEF FallbackInv, FallbackTypeOK
    <3> QED
      BY <1>3, <2>1, <3>1, MoveKeeps DEF MirrorMissing, Step
  <2>2. CASE ~(world.native = None /\ attempt < Len(Tags))
    BY <1>3, <2>2, MoveKeeps, TagFacts DEF MirrorMissing, Step, ByTag
  <2> QED
    BY <2>1, <2>2
<1> QED
  BY <1>1, <1>2, <1>3

LEMMA FallbackKeeps == FallbackInv /\ FallbackStep => FallbackInv'
BY NativeKeeps, RedirectKeeps, SidecarStepKeeps, ApiKeeps, ReleaseKeeps, MirrorKeeps
   DEF FallbackStep

(* Types of the read around it; a listing in progress has pages left.       *)
TypeInv == /\ TypeOK /\ FallbackInv
           /\ phase = "origin" => scan = NoScan
           /\ phase = "list" => scan.pages < MaxPages

LEMMA TypeInit == Init => TypeInv
<1> SUFFICES ASSUME Init PROVE TypeInv
  OBVIOUS
<1>1. FallbackInv
  BY TagFacts, RedirectAssumption
     DEF Init, InitFallback, FallbackInv, FallbackTypeOK, AnswerMatchesFile, Step, ByTag, Nowhere,
         Location, Place
<1>2. TypeOK
  BY <1>1, LimitAssumption
     DEF Init, TypeOK, FallbackInv, Phase, OriginStatus, NoScan, Established
<1> QED
  BY <1>1, <1>2 DEF Init, TypeInv

(* What no step of a read but those of third parties changes.               *)
LEMMA FallbackStays ==
  ASSUME FallbackInv, UNCHANGED <<world, fallback>>
  PROVE  FallbackInv'
BY DEF fallback, FallbackInv, FallbackTypeOK, AnswerMatchesFile

LEMMA AskKeeps ==
  ASSUME FallbackInv, step' = "native", UNCHANGED <<world, chase, found>>
  PROVE  FallbackInv'
BY DEF chase, FallbackInv, FallbackTypeOK, AnswerMatchesFile, Step, ByTag

LEMMA PublishingTypes ==
  ASSUME TypeInv, Publishing
  PROVE  TypeInv'
<1>1. UNCHANGED <<world, fallback, request, phase, originSaid, scan, clean, before>>
  BY DEF Publishing
<1>2. FallbackInv'
  BY <1>1, FallbackStays DEF TypeInv
<1> DEFINE BucketGrows ==
             /\ clock' \in 0..MaxClock /\ docs' \in [Version -> Document \cup {None}]
             /\ Established \subseteq Established' /\ markedDocs' \subseteq Established'
             /\ objects \subseteq objects' /\ objects' \subseteq ArtifactKey
             /\ markedObjects' \subseteq objects'
<1>3. BucketGrows
  <2>1. CASE Tick \/ Mark
    BY <2>1, LimitAssumption DEF Tick, Mark, TypeInv, TypeOK, Established
  <2>2. ASSUME NEW v \in Version, NEW c \in Candidate[v], Upload(c.url)
        PROVE  BucketGrows
    <3>1. c.url \in ArtifactKey
      BY CandidateAssumption DEF Content
    <3>2. /\ objects' = objects \cup {c.url}
          /\ UNCHANGED <<clock, docs, markedDocs, markedObjects>>
      BY <2>2 DEF Upload
    <3>3. Established' = Established
      BY <3>2 DEF Established
    <3> QED
      BY <3>1, <3>2, <3>3 DEF TypeInv, TypeOK
  <2>3. ASSUME NEW v \in Version, NEW c \in Candidate[v], Establish(v, c)
        PROVE  BucketGrows
    <3> DEFINE d == [url |-> c.url, private |-> c.private, fits |-> c.fits, uploaded |-> clock]
    <3>1. d \in Document
      BY CandidateAssumption DEF Content, Document, TypeInv, TypeOK
    <3>2. /\ docs[v] = None /\ docs' = [docs EXCEPT ![v] = d]
          /\ UNCHANGED <<clock, objects, markedDocs, markedObjects>>
      BY <2>3 DEF Establish, Registry!Establish
    <3> HIDE DEF d
    <3>3. docs' \in [Version -> Document \cup {None}]
      BY <3>1, <3>2 DEF TypeInv, TypeOK
    <3>4. \A w \in Established : docs'[w] = docs[w]
      BY <3>2 DEF Established, TypeInv, TypeOK
    <3>5. Established \subseteq Established'
      BY <3>4 DEF Established
    <3> QED
      BY <3>2, <3>3, <3>5 DEF TypeInv, TypeOK
  <2> QED
    BY <2>1, <2>2, <2>3 DEF Publishing
<1>4. TypeOK'
  BY <1>1, <1>2, <1>3 DEF TypeInv, TypeOK, FallbackInv
<1> QED
  BY <1>1, <1>2, <1>4 DEF TypeInv

LEMMA ReceiveTypes ==
  ASSUME TypeInv, NEW r \in Request, Receive(r)
  PROVE  TypeInv'
<1>1. /\ request' = r /\ before' = Snapshot(r) /\ originSaid' = 0 /\ scan' = NoScan /\ clean' = TRUE
      /\ found' = None /\ attempt' = 1 /\ at' = Nowhere /\ hops' = 0
      /\ step' \in {"mirror", "off"}
      /\ UNCHANGED <<world, clock, docs, objects, markedDocs, markedObjects>>
  BY DEF Receive, bucket
<1>2. phase' \in {"third", "cdn", "done", "origin"}
  BY DEF Receive, Problem, Answer
<1>3. FallbackInv'
  BY <1>1, TagFacts, RedirectAssumption
     DEF TypeInv, FallbackInv, FallbackTypeOK, AnswerMatchesFile, Step, ByTag, Nowhere, Location, Place
<1>4. Snapshot(r).docs \subseteq Established /\ Snapshot(r).objects \subseteq objects
  BY DEF Snapshot
<1>5. TypeOK'
  BY <1>1, <1>2, <1>3, <1>4, LimitAssumption
     DEF TypeInv, TypeOK, FallbackInv, Phase, OriginStatus, NoScan, Established
<1> QED
  BY <1>1, <1>2, <1>3, <1>5 DEF TypeInv

LEMMA OriginTypes ==
  ASSUME TypeInv, TryOrigin
  PROVE  TypeInv'
<1>1. /\ UNCHANGED <<world, fallback, request, clock, docs, objects, markedDocs, markedObjects,
                     scan, clean, before>>
      /\ phase = "origin" /\ originSaid' \in OriginStatus
  BY DEF TryOrigin, bucket
<1>2. phase' \in {"done", "document", "list", "tarball"}
  BY DEF TryOrigin, AfterOrigin, Problem, Answer, Goto
<1>3. FallbackInv'
  BY <1>1, FallbackStays DEF TypeInv
<1>4. TypeOK'
  BY <1>1, <1>2, <1>3 DEF TypeInv, TypeOK, FallbackInv, Phase, Established
<1> QED
  BY <1>1, <1>2, <1>3, <1>4, LimitAssumption DEF TypeInv, NoScan

(* A step of the bucket's reader that gives up, answers, or moves on.       *)
LEMMA BucketTypes ==
  ASSUME TypeInv, ReadDocument \/ ListPage \/ ReadNewest \/ BucketFails
  PROVE  TypeInv'
<1>1. UNCHANGED <<world, chase, found, request, clock, docs, objects, markedDocs, markedObjects,
                  originSaid, before>>
  BY DEF ReadDocument, ListPage, ReadNewest, BucketFails, bucket
<1>2. \/ phase' = "third" /\ step' = "native"
      \/ phase' \in {"done", "list", "newest"} /\ UNCHANGED step
  BY DEF ReadDocument, ListPage, ReadNewest, BucketFails, AnswerUnlessWithheld, TakePage,
         AskThirdParties, Withheld, Problem, Answer, Goto
<1>3. FallbackInv'
  BY <1>1, <1>2, FallbackStays, AskKeeps DEF TypeInv, fallback, chase
<1>4. clean' \in BOOLEAN
  BY DEF ReadDocument, ListPage, ReadNewest, BucketFails, TypeInv, TypeOK
<1>5. /\ scan'.pages \in 0..MaxPages /\ scan'.listed \subseteq Established
      /\ phase' = "list" => scan'.pages < MaxPages
  <2>1. CASE scan' = NoScan /\ phase' # "list"
    BY <2>1, LimitAssumption DEF NoScan
  <2>2. CASE ReadDocument
    BY <2>2 DEF ReadDocument, AnswerUnlessWithheld, AskThirdParties, Withheld, Problem, Answer, Goto,
                TypeInv, TypeOK
  <2>3. CASE ListPage
    <3>1. PICK page \in Pages(scan.cursor) : TakePage(page)
      BY <2>3 DEF ListPage
    <3>2. page \subseteq Established
      BY DEF Pages, After
    <3>3. scan.pages \in Nat /\ scan.pages < MaxPages /\ MaxPages \in Nat /\ scan.listed \subseteq Established
      BY <2>3, LimitAssumption DEF ListPage, TypeInv, TypeOK
    <3> DEFINE truncated == After(scan.cursor) # page
               taken == /\ scan'.pages = scan.pages + 1 /\ scan'.listed = scan.listed \cup page
                        /\ ~ScanGivesUp(page, truncated)
                        /\ phase' = IF truncated THEN "list" ELSE "newest"
    <3>4. CASE taken
      BY <3>2, <3>3, <3>4 DEF ScanGivesUp
    <3>5. taken \/ (scan' = NoScan /\ phase' # "list")
      BY <3>1 DEF TakePage, Withheld, Problem, Answer, AskThirdParties, Goto
    <3> QED
      BY <2>1, <3>4, <3>5
  <2>4. CASE ReadNewest \/ BucketFails
    BY <2>1, <2>4 DEF ReadNewest, BucketFails, AnswerUnlessWithheld, AskThirdParties, Withheld,
                      Problem, Answer, Goto
  <2> QED
    BY <2>2, <2>3, <2>4
<1>6. TypeOK'
  BY <1>1, <1>2, <1>3, <1>4, <1>5 DEF TypeInv, TypeOK, FallbackInv, Phase, Established
<1> QED
  BY <1>2, <1>3, <1>5, <1>6 DEF TypeInv

LEMMA CdnTypes ==
  ASSUME TypeInv, CdnRead \/ CdnBucketFails \/ CdnArtifact \/ CdnArtifactFails
  PROVE  TypeInv'
<1>1. UNCHANGED <<world, fallback, request, clock, docs, objects, markedDocs, markedObjects,
                  originSaid, scan, before>>
  BY DEF CdnRead, CdnBucketFails, CdnArtifact, CdnArtifactFails, bucket, reader
<1>2. phase' \in {"zip", "done"} /\ clean' \in BOOLEAN
  BY DEF CdnRead, CdnBucketFails, CdnArtifact, CdnArtifactFails, ServeObject, NextFormat, Problem,
         Answer, Goto, TypeInv, TypeOK
<1>3. FallbackInv'
  BY <1>1, FallbackStays DEF TypeInv
<1>4. TypeOK'
  BY <1>1, <1>2, <1>3 DEF TypeInv, TypeOK, FallbackInv, Phase, Established
<1> QED
  BY <1>2, <1>3, <1>4 DEF TypeInv

LEMMA FallbackKeepsWorld == FallbackStep => UNCHANGED world
<1> SUFFICES ASSUME FallbackStep
             PROVE  UNCHANGED world
  OBVIOUS
<1> USE DEF Move, Find, FindListing, Download, StartGithub, Follow
<1>1. CASE NativeMetadata \/ NativeBytes \/ NativeGivesUp \/ Redirect
  BY <1>1 DEF NativeMetadata, NativeBytes, NativeGivesUp, Redirect
<1>2. CASE SidecarFromCdn \/ SidecarFromGithub \/ SidecarArrives \/ SidecarMissing
  BY <1>2 DEF SidecarFromCdn, SidecarFromGithub, SidecarArrives, SidecarMissing, FindSidecar,
              NextSidecar
<1>3. CASE FeedFound \/ FeedMissing \/ PublicGithubRepo \/ PackageFromGithub
  BY <1>3 DEF FeedFound, FeedMissing, PublicGithubRepo, PackageFromGithub
<1>4. CASE \/ VersionFromGithub \/ ReleaseSidecarRefused \/ ReleaseSidecarArrives
          \/ IsGithubAssetResponseThrows \/ ReleaseMissing \/ GithubGivesUp
  BY <1>4 DEF VersionFromGithub, ReleaseSidecarRefused, ReleaseSidecarArrives,
              IsGithubAssetResponseThrows, ReleaseMissing, GithubGivesUp, TakeArtifact, NextRelease
<1>5. CASE StartMirror \/ MirrorArrives \/ MirrorMissing
  BY <1>5 DEF StartMirror, MirrorArrives, MirrorMissing
<1> QED
  BY <1>1, <1>2, <1>3, <1>4, <1>5 DEF FallbackStep

LEMMA ThirdTypes ==
  ASSUME TypeInv, ThirdParty \/ Conclude
  PROVE  TypeInv'
<1>1. /\ UNCHANGED <<request, clock, docs, objects, markedDocs, markedObjects, originSaid, scan,
                     clean, before>>
      /\ phase' \in {"third", "done"}
  BY FallbackKeepsRequest
     DEF ThirdParty, Conclude, readVars, bucket, reader, Problem, Answer
<1>2. FallbackInv'
  <2>1. CASE ThirdParty
    BY <2>1, FallbackKeeps DEF ThirdParty, TypeInv
  <2>2. CASE Conclude
    BY <2>2 DEF Conclude, chase, TypeInv, FallbackInv, FallbackTypeOK, AnswerMatchesFile, Step, ByTag
  <2> QED
    BY <2>1, <2>2
<1>3. TypeOK'
  BY <1>1, <1>2 DEF TypeInv, TypeOK, FallbackInv, Phase, Established
<1> QED
  BY <1>1, <1>2, <1>3 DEF TypeInv

LEMMA TypeStep == TypeInv /\ [Next]_vars => TypeInv'
<1> SUFFICES ASSUME TypeInv, [Next]_vars
             PROVE  TypeInv'
  OBVIOUS
<1>1. CASE Publishing
  BY <1>1, PublishingTypes
<1>2. ASSUME NEW r \in Request, Receive(r)
      PROVE  TypeInv'
  BY <1>2, ReceiveTypes
<1>3. CASE ReadStep
  BY <1>3, OriginTypes, BucketTypes, CdnTypes, ThirdTypes DEF ReadStep
<1>4. CASE UNCHANGED vars
  <2>1. FallbackInv'
    BY <1>4, FallbackStays DEF vars, TypeInv
  <2> QED
    BY <1>4, <2>1 DEF vars, readVars, bucket, fallback, TypeInv, TypeOK, FallbackInv, Established
<1> QED
  BY <1>1, <1>2, <1>3, <1>4 DEF Next

(* Types of every state of a read and of the sources it asks.               *)
THEOREM TypeCorrect == Spec => []TypeOK
<1>1. TypeInv => TypeOK
  BY DEF TypeInv
<1> QED
  BY <1>1, TypeInit, TypeStep, PTL DEF Spec

(* What the edge passes on from a third party is true of the file it comes  *)
(* from, whatever that party holds and wherever it redirects, and was not   *)
(* read on a hop nobody checked: the followed read of a release's sidecar   *)
(* ends the fallback and never becomes an answer.                           *)
THEOREM AnswersAreTrue == Spec => []AnswerMatchesFile
<1>1. TypeInv => AnswerMatchesFile
  BY DEF TypeInv, FallbackInv
<1> QED
  BY <1>1, TypeInit, TypeStep, PTL DEF Spec

-----------------------------------------------------------------------------
(* A read of a route by its grammar and method.                             *)
ReadOf(route) == /\ phase # "idle" /\ request.route = route
                /\ request.method = "GET" /\ ~request.odd

(* What was marked before the read was there, and is marked.                *)
MarksOK == /\ before.markedDocs \subseteq before.docs
           /\ before.markedDocs \subseteq markedDocs

(* Every page but an empty one lists a key that no page before it did.      *)
CountOK == /\ IsFiniteSet(Established)
           /\ (ReadsPackage /\ phase = "list") =>
                /\ \A v \in scan.listed : v <= scan.cursor
                /\ scan.pages <= Cardinality(scan.listed)

Refused == answer.source = "origin" \/ answer.status = 404

RestrictedVersion ==
  (ReadOf("version") /\ clean /\ request.version \in before.docs
     /\ \/ request.version \in before.markedDocs
        \/ docs[request.version].private /\ docs[request.version].fits)
    => phase \in {"origin", "document"} \/ (phase = "done" /\ Refused)

(* What was marked before has not been passed; the scan stops where it is.  *)
RestrictedPackage ==
  (ReadOf("package") /\ clean /\ before.markedDocs # {} /\ Cardinality(Established) <= MaxPages)
    => /\ phase \in {"origin", "list"} \/ (phase = "done" /\ Refused)
       /\ phase = "list" => before.markedDocs \cap scan.listed = {}

ReadableVersion ==
  (ReadOf("version") /\ clean /\ request.version \in before.docs
     /\ Public(request.version) /\ docs[request.version].fits)
    => phase \in {"origin", "document"} \/ (phase = "done" /\ FromEdge)

ReadablePackage ==
  (ReadOf("package") /\ clean /\ before.docs # {} /\ Cardinality(Established) <= MaxPages
     /\ \A v \in Established : Public(v) /\ docs[v].fits)
    => phase \in {"origin", "list", "newest"} \/ (phase = "done" /\ FromEdge)

AnswerInv == /\ MarksOK /\ CountOK
             /\ RestrictedVersion /\ RestrictedPackage /\ ReadableVersion /\ ReadablePackage

LEMMA AnswerInit == Init => AnswerInv
<1> SUFFICES ASSUME Init PROVE AnswerInv
  OBVIOUS
<1>1. Established = {} /\ phase = "idle" /\ before.markedDocs = {}
  BY DEF Init, Established
<1>2. IsFiniteSet(Established)
  BY <1>1, FS_EmptySet
<1> QED
  BY <1>1, <1>2 DEF AnswerInv, MarksOK, CountOK, ReadsPackage, ReadOf, RestrictedVersion,
                    RestrictedPackage, ReadableVersion, ReadablePackage

-----------------------------------------------------------------------------
(* Publishing adds one document, to a bucket that keeps what it has.        *)

LEMMA PublishingAdds ==
  ASSUME TypeInv, Publishing
  PROVE  /\ markedDocs \subseteq markedDocs'
         /\ \/ Established' = Established
            \/ \E v \in Version : Established' \subseteq Established \cup {v}
<1>1. CASE Tick \/ Mark
  BY <1>1 DEF Tick, Mark, Established
<1>2. ASSUME NEW k, Upload(k)
      PROVE  UNCHANGED <<docs, markedDocs>>
  BY <1>2 DEF Upload
<1>3. ASSUME NEW v \in Version, NEW c \in Candidate[v], Establish(v, c)
      PROVE  markedDocs' = markedDocs /\ Established' \subseteq Established \cup {v}
  <2> DEFINE d == [url |-> c.url, private |-> c.private, fits |-> c.fits, uploaded |-> clock]
  <2>1. docs' = [docs EXCEPT ![v] = d] /\ markedDocs' = markedDocs
    BY <1>3 DEF Establish, Registry!Establish
  <2> HIDE DEF d
  <2>2. \A w \in Version : w # v => docs'[w] = docs[w]
    BY <2>1 DEF TypeInv, TypeOK
  <2> QED
    BY <2>1, <2>2 DEF Established
<1> QED
  BY <1>1, <1>2, <1>3 DEF Publishing, Established

LEMMA PublishingAnswers ==
  ASSUME TypeInv, ListInv, AnswerInv, Publishing
  PROVE  AnswerInv'
<1>1. UNCHANGED <<request, phase, scan, clean, before, answer>>
  BY DEF Publishing
<1>2. /\ markedDocs \subseteq markedDocs' /\ Established \subseteq Established'
      /\ \A v \in Established : docs'[v] = docs[v]
  BY PublishingAdds, DocsStay
<1>3. before.docs \subseteq Established /\ IsFiniteSet(Established)
  BY DEF TypeInv, TypeOK, AnswerInv, CountOK
<1>4. IsFiniteSet(Established')
  <2>1. CASE Established' = Established
    BY <1>3, <2>1
  <2>2. ASSUME NEW v, Established' \subseteq Established \cup {v}
        PROVE  IsFiniteSet(Established')
    <3>1. IsFiniteSet(Established \cup {v})
      BY <1>3, FS_AddElement
    <3> QED
      BY <2>2, <3>1, FS_Subset
  <2> QED
    BY <2>1, <2>2, PublishingAdds
<1>5. Cardinality(Established') <= MaxPages => Cardinality(Established) <= MaxPages
  <2>1. /\ Cardinality(Established) <= Cardinality(Established')
        /\ Cardinality(Established) \in Nat /\ Cardinality(Established') \in Nat
    BY <1>2, <1>3, <1>4, FS_Subset, FS_CardinalityType
  <2> QED
    BY <2>1, LimitAssumption
<1>6. \A v \in Established : Public(v)' => Public(v)
  BY <1>2 DEF Public
<1>7. MarksOK' /\ CountOK'
  BY <1>1, <1>2, <1>4 DEF AnswerInv, MarksOK, CountOK, ReadsPackage
<1>8. RestrictedVersion' /\ ReadableVersion'
  BY <1>1, <1>2, <1>3, <1>6
     DEF AnswerInv, RestrictedVersion, ReadableVersion, ReadOf, Refused, FromEdge
<1>9. RestrictedPackage'
  BY <1>1, <1>5 DEF AnswerInv, RestrictedPackage, ReadOf, Refused
<1>10. ReadablePackage'
  BY <1>1, <1>2, <1>5, <1>6 DEF AnswerInv, ReadablePackage, ReadOf, FromEdge
<1> QED
  BY <1>7, <1>8, <1>9, <1>10 DEF AnswerInv

(* A new read of a version or a package asks the origin first.              *)
LEMMA ReceiveAnswers ==
  ASSUME TypeInv, AnswerInv, NEW r \in Request, Receive(r)
  PROVE  AnswerInv'
<1>1. request' = r /\ before' = Snapshot(r) /\ UNCHANGED <<docs, markedDocs>>
  BY DEF Receive, bucket
<1>2. ASSUME r.route \in {"version", "package"}, r.method = "GET", ~r.odd
      PROVE  phase' = "origin"
  <2>1. ClassifyRegistryRequest(r) = "fallback_read"
    BY <1>2 DEF ClassifyRegistryRequest, Methods
  <2> QED
    BY <1>2, <2>1 DEF Receive, CdnRoute, OwnAnswer
<1>3. MarksOK'
  BY <1>1 DEF MarksOK, Snapshot, TypeInv, TypeOK
<1>4. phase' # "list"
  BY DEF Receive, Problem, Answer
<1>5. CountOK'
  BY <1>1, <1>4 DEF AnswerInv, CountOK, Established
<1> QED
  BY <1>1, <1>2, <1>3, <1>5
     DEF AnswerInv, ReadOf, RestrictedVersion, RestrictedPackage, ReadableVersion, ReadablePackage

-----------------------------------------------------------------------------
(* Within a read, what each part of the invariant assumes was so before.    *)

ReadKept == /\ UNCHANGED <<request, before, docs, markedDocs>>
            /\ clean' => clean
            /\ phase # "idle"

LEMMA ReadKeeps == ReadStep => ReadKept
<1> SUFFICES ASSUME ReadStep PROVE ReadKept
  OBVIOUS
<1> USE DEF ReadKept, bucket
<1>1. CASE TryOrigin \/ ReadDocument \/ ListPage \/ ReadNewest \/ BucketFails
  BY <1>1 DEF TryOrigin, ReadDocument, ListPage, ReadNewest, BucketFails
<1>2. CASE CdnRead \/ CdnBucketFails \/ CdnArtifact \/ CdnArtifactFails
  BY <1>2 DEF CdnRead, CdnBucketFails, CdnArtifact, CdnArtifactFails, reader
<1>3. CASE ThirdParty \/ Conclude
  BY <1>3, FallbackKeepsRequest DEF ThirdParty, Conclude, readVars, reader
<1> QED
  BY <1>1, <1>2, <1>3 DEF ReadStep

LEMMA MarksStay ==
  ASSUME AnswerInv, ReadKept
  PROVE  MarksOK' /\ Established' = Established /\ IsFiniteSet(Established')
<1>1. Established' = Established
  BY DEF ReadKept, Established
<1> QED
  BY <1>1 DEF ReadKept, AnswerInv, MarksOK, CountOK

(* A step to an answer or to another source decides each part by itself.    *)
LEMMA Decides ==
  ASSUME AnswerInv, ReadKept, CountOK',
         (ReadOf("version") /\ RestrictedVersion) => RestrictedVersion',
         (ReadOf("package") /\ RestrictedPackage) => RestrictedPackage',
         (ReadOf("version") /\ ReadableVersion) => ReadableVersion',
         (ReadOf("package") /\ ReadablePackage) => ReadablePackage'
  PROVE  AnswerInv'
<1>1. MarksOK' /\ CountOK'
  BY MarksStay
<1>2. \A x \in {"version", "package"} : ReadOf(x)' => ReadOf(x)
  BY DEF ReadKept, ReadOf
<1>3. RestrictedVersion' /\ ReadableVersion'
  BY <1>2 DEF AnswerInv, RestrictedVersion, ReadableVersion
<1>4. RestrictedPackage' /\ ReadablePackage'
  BY <1>2 DEF AnswerInv, RestrictedPackage, ReadablePackage
<1> QED
  BY <1>1, <1>3, <1>4 DEF AnswerInv

(* An origin that is there answers finally, but for a missing read.         *)
LEMMA OriginAnswers ==
  ASSUME TypeInv, AnswerInv, TryOrigin
  PROVE  AnswerInv'
<1>1. ReadKept /\ scan' = scan /\ phase = "origin" /\ scan = NoScan
  BY ReadKeeps DEF ReadStep, TryOrigin, TypeInv
<1>2. CountOK'
  <2>1. scan'.listed = {} /\ scan'.pages = 0 /\ Cardinality({}) = 0
    BY <1>1, FS_EmptySet DEF NoScan
  <2>2. IsFiniteSet(Established')
    BY <1>1, MarksStay
  <2> QED
    BY <2>1, <2>2 DEF CountOK
<1>3. PICK s \in OriginStatus : AfterOrigin(s)
  BY DEF TryOrigin
<1>4. ASSUME ReadOf("version") \/ ReadOf("package")
      PROVE  ClassifyRegistryRequest(request) = "fallback_read"
  BY <1>4 DEF ReadOf, ClassifyRegistryRequest, Methods
<1>5. ASSUME ReadOf("version")
      PROVE  \/ phase' = "document"
             \/ phase' = "done" /\ answer'.source = "origin" /\ answer'.status # 404
  BY <1>3, <1>4, <1>5 DEF ReadOf, AfterOrigin, Final, Answer, Goto
<1>6. ASSUME ReadOf("package")
      PROVE  \/ phase' = "list"
             \/ phase' = "done" /\ answer'.source = "origin" /\ answer'.status # 404
  BY <1>3, <1>4, <1>6 DEF ReadOf, AfterOrigin, Final, Answer, Goto
<1>7. scan'.listed = {}
  BY <1>1 DEF NoScan
<1> QED
  BY <1>1, <1>2, <1>5, <1>6, <1>7, Decides
     DEF RestrictedVersion, RestrictedPackage, ReadableVersion, ReadablePackage, Refused, FromEdge

(* The document of a version: withheld, or the answer.                      *)
LEMMA DocumentAnswers ==
  ASSUME TypeInv, ListInv, AnswerInv, ReadDocument
  PROVE  AnswerInv'
<1>1. ReadKept /\ phase = "document"
  BY ReadKeeps DEF ReadStep, ReadDocument
<1>2. CountOK'
  <2>1. phase' # "list"
    BY DEF ReadDocument, AnswerUnlessWithheld, AskThirdParties, Withheld, Problem, Answer, Goto
  <2> QED
    BY <1>1, <2>1, MarksStay DEF CountOK
<1> DEFINE v == request.version
<1>3. AnswerUnlessWithheld(v, docs[v])
  BY DEF ReadDocument
<1>4. ASSUME ReadOf("version"), RestrictedVersion
      PROVE  RestrictedVersion'
  <2> SUFFICES ASSUME clean', v \in before.docs,
                      v \in before.markedDocs \/ (docs[v].private /\ docs[v].fits)
               PROVE  phase' = "done" /\ Refused'
    BY <1>1, <1>4 DEF RestrictedVersion, ReadKept, ReadOf
  <2>1. docs[v] # None /\ (v \in markedDocs \/ (docs[v].private /\ docs[v].fits))
    BY DEF AnswerInv, MarksOK, TypeInv, TypeOK, Established
  <2> QED
    BY <1>3, <2>1 DEF AnswerUnlessWithheld, Withheld, Problem, Answer, Refused
<1>5. ASSUME ReadOf("version"), ReadableVersion
      PROVE  ReadableVersion'
  <2> SUFFICES ASSUME v \in before.docs, Public(v), docs[v].fits
               PROVE  phase' = "done" /\ FromEdge'
    BY <1>1, <1>5 DEF ReadableVersion, ReadKept, ReadOf, Public
  <2>1. docs[v] # None
    BY DEF TypeInv, TypeOK, Established
  <2> QED
    BY <1>3, <2>1 DEF AnswerUnlessWithheld, Public, Answer, FromEdge
<1>6. ~ReadOf("package")
  BY <1>1 DEF ReadOf, ListInv, PackageRead, ReadsPackage
<1> QED
  BY <1>1, <1>2, <1>4, <1>5, <1>6, Decides

(* No page of a listing of at most MaxPages versions meets a limit: each     *)
(* page before it listed a version, it lists one, and one is left.          *)
LEMMA ScanGoesOn ==
  ASSUME TypeInv, ListInv, AnswerInv, ReadsPackage, phase = "list",
         Cardinality(Established) <= MaxPages, NEW page \in Pages(scan.cursor)
  PROVE  ~ScanGivesUp(page, After(scan.cursor) # page)
<1> DEFINE listed == scan.listed \cup page
<1>1. /\ IsFiniteSet(Established) /\ Cardinality(Established) \in Nat
      /\ scan.cursor \in Int /\ scan.pages \in Nat
      /\ scan.pages <= Cardinality(scan.listed)
      /\ \A v \in scan.listed : v <= scan.cursor
      /\ MaxPages \in Nat /\ MaxObjects \in Nat /\ MaxPages <= MaxObjects
  BY FS_CardinalityType, LimitAssumption
     DEF AnswerInv, CountOK, ListInv, PackageRead, TypeInv, TypeOK
<1>2. listed \subseteq Established /\ page \subseteq After(scan.cursor)
  BY DEF Pages, After, TypeInv, TypeOK
<1>3. /\ IsFiniteSet(listed) /\ Cardinality(listed) \in Nat
      /\ Cardinality(listed) <= Cardinality(Established)
  BY <1>1, <1>2, FS_Subset, FS_CardinalityType
<1>4. ~(Cardinality(listed) > MaxObjects)
  BY <1>1, <1>3
<1>5. ASSUME After(scan.cursor) # page
      PROVE  scan.pages + 1 < MaxPages
  <2>1. PICK v \in page, w \in After(scan.cursor) : w \notin page
    BY <1>2, <1>5 DEF Pages
  <2>2. \A x \in After(scan.cursor) : x \in Established /\ x \notin scan.listed
    <3> SUFFICES ASSUME NEW x \in After(scan.cursor), x \in scan.listed
                 PROVE  FALSE
      BY DEF After
    <3>1. x \in Nat /\ x > scan.cursor /\ x <= scan.cursor
      BY <1>1, VersionAssumption DEF After, Established
    <3> QED
      BY <1>1, <3>1
  <2>3. v \in Established \ scan.listed /\ w \in Established \ (scan.listed \cup {v})
    BY <1>2, <2>1, <2>2
  <2>4. /\ IsFiniteSet(scan.listed) /\ Cardinality(scan.listed) \in Nat
        /\ IsFiniteSet(scan.listed \cup {v})
        /\ Cardinality(scan.listed \cup {v}) = Cardinality(scan.listed) + 1
    BY <1>1, <1>2, <2>3, FS_Subset, FS_AddElement, FS_CardinalityType
  <2>5. Cardinality((scan.listed \cup {v}) \cup {w}) = Cardinality(scan.listed) + 2
    <3> DEFINE S == scan.listed \cup {v}
    <3>1. w \notin S /\ IsFiniteSet(S) /\ Cardinality(S) = Cardinality(scan.listed) + 1
      BY <2>3, <2>4
    <3> HIDE DEF S
    <3>2. Cardinality(S \cup {w}) = Cardinality(S) + 1
      BY <3>1, FS_AddElement
    <3>3. Cardinality(S \cup {w}) = Cardinality(scan.listed) + 2
      BY <2>4, <3>1, <3>2
    <3> QED
      BY <3>3 DEF S
  <2>6. (scan.listed \cup {v}) \cup {w} \subseteq Established
    BY <1>2, <2>3
  <2>7. Cardinality(scan.listed) + 2 <= Cardinality(Established)
    BY <1>1, <2>5, <2>6, FS_Subset
  <2> QED
    BY <1>1, <2>4, <2>7
<1> QED
  BY <1>1, <1>4, <1>5 DEF ScanGivesUp

(* A page that the scan goes on from lists at least one version more.       *)
LEMMA PageCounts ==
  ASSUME TypeInv, ListInv, AnswerInv, ListPage
  PROVE  CountOK'
<1>1. ReadKept /\ phase = "list"
  BY ReadKeeps DEF ReadStep, ListPage
<1>2. IsFiniteSet(Established') /\ Established' = Established
  BY <1>1, MarksStay
<1> SUFFICES ASSUME ReadsPackage', phase' = "list"
             PROVE  /\ \A v \in scan'.listed : v <= scan'.cursor
                    /\ scan'.pages <= Cardinality(scan'.listed)
  BY <1>2 DEF CountOK
<1>3. PICK page \in Pages(scan.cursor) : TakePage(page)
  BY DEF ListPage
<1> DEFINE listed == scan.listed \cup page
<1>4. /\ After(scan.cursor) # page
      /\ scan' = [pages |-> scan.pages + 1, listed |-> listed,
                  cursor |-> IF page = {} THEN scan.cursor ELSE NextCursor(page)]
  BY <1>3 DEF TakePage, Withheld, Problem, Answer, AskThirdParties, Goto
<1>5. ReadsPackage
  BY <1>1 DEF ReadKept, ReadsPackage
<1>6. /\ IsFiniteSet(Established) /\ scan.listed \subseteq Established
      /\ page \subseteq After(scan.cursor) /\ After(scan.cursor) \subseteq Established
      /\ scan.cursor \in Int /\ scan.pages \in Nat
      /\ \A v \in scan.listed : v <= scan.cursor
      /\ scan.pages <= Cardinality(scan.listed)
      /\ Established \subseteq Nat
  <2>1. page \subseteq After(scan.cursor) /\ After(scan.cursor) \subseteq Established
    BY DEF Pages, After
  <2>2. Established \subseteq Nat
    BY VersionAssumption DEF Established
  <2> QED
    BY <1>1, <1>5, <2>1, <2>2 DEF AnswerInv, CountOK, ListInv, PackageRead, TypeInv, TypeOK
<1>7. PICK n : n = NextCursor(page)
  OBVIOUS
<1>8. n \in page /\ \A v \in page : v <= n
  <2>1. /\ page \in SUBSET Nat /\ page # {}
        /\ \A v \in page, w \in After(scan.cursor) \ page : v < w
    <3>1. page # {} \/ After(scan.cursor) = {}
      BY DEF Pages
    <3>2. \A v \in page, w \in After(scan.cursor) \ page : v < w
      BY DEF Pages
    <3> QED
      BY <1>4, <1>6, <3>1, <3>2
  <2>2. PICK b \in After(scan.cursor) : b \notin page
    BY <1>4, <1>6
  <2>3. b \in Nat /\ \A v \in page : v <= b
    <3>1. b \in Nat /\ b \in After(scan.cursor) \ page
      BY <1>6, <2>2
    <3>2. \A v \in page : v \in Nat /\ v < b
      BY <2>1, <3>1
    <3> QED
      BY <3>1, <3>2
  <2>4. \E x \in page : \A v \in page : v <= x
    BY <2>1, <2>3, HasLargest
  <2> QED
    BY <1>7, <2>4 DEF NextCursor
<1>9. n \in Nat /\ n > scan.cursor /\ n \in Established
  BY <1>6, <1>8 DEF After
<1>10. scan'.pages = scan.pages + 1 /\ scan'.listed = listed /\ scan'.cursor = n
  BY <1>4, <1>7, <1>8
<1>11. \A v \in listed : v <= n
  <2> SUFFICES ASSUME NEW v \in scan.listed PROVE v <= n
    BY <1>8
  <2>1. v \in Nat /\ v <= scan.cursor
    BY <1>6
  <2> QED
    BY <1>6, <1>9, <2>1
<1>12. scan.pages + 1 <= Cardinality(listed)
  <2>1. n \notin scan.listed
    BY <1>6, <1>9
  <2>2. /\ IsFiniteSet(scan.listed) /\ IsFiniteSet(listed)
        /\ Cardinality(scan.listed) \in Nat /\ Cardinality(listed) \in Nat
        /\ Cardinality(scan.listed \cup {n}) = Cardinality(scan.listed) + 1
    <3>1. listed \subseteq Established
      BY <1>6
    <3> QED
      BY <1>6, <2>1, <3>1, FS_Subset, FS_AddElement, FS_CardinalityType
  <2>3. scan.listed \cup {n} \subseteq listed
    BY <1>8
  <2>4. Cardinality(scan.listed) + 1 <= Cardinality(listed)
    BY <2>2, <2>3, FS_Subset
  <2> QED
    BY <1>6, <2>2, <2>4
<1> QED
  BY <1>10, <1>11, <1>12

(* The scan stops at a page with a restriction, and only there if there is  *)
(* one; it passes pages without.                                            *)
LEMMA PageAnswers ==
  ASSUME TypeInv, ListInv, AnswerInv, ListPage
  PROVE  AnswerInv'
<1>1. ReadKept /\ phase = "list" /\ CountOK'
  BY ReadKeeps, PageCounts DEF ReadStep, ListPage
<1>2. PICK page \in Pages(scan.cursor) : TakePage(page)
  BY DEF ListPage
<1> DEFINE truncated == After(scan.cursor) # page
           listed == scan.listed \cup page
<1>3. ASSUME ReadsPackage
      PROVE  before.docs \subseteq listed \/ truncated
  <2> SUFFICES ASSUME ~truncated, NEW v \in before.docs, v \notin scan.listed
               PROVE  v \in page
    OBVIOUS
  <2>1. /\ v \in Established /\ v \in Nat /\ scan.cursor \in Int
        /\ v <= scan.cursor => v \in scan.listed
    BY <1>1, <1>3, VersionAssumption DEF ListInv, PackageRead, Established
  <2>2. v > scan.cursor
    BY <2>1
  <2>3. v \in After(scan.cursor)
    BY <2>1, <2>2 DEF After
  <2> QED
    BY <2>3
<1>4. ASSUME ReadsPackage, Cardinality(Established) <= MaxPages, before.docs # {}
      PROVE  \/ page \cap markedDocs # {} /\ phase' = "done" /\ answer'.status = 404
             \/ /\ page \cap markedDocs = {}
                /\ phase' = IF truncated THEN "list" ELSE "newest"
                /\ scan'.listed = listed
  <2>1. ~ScanGivesUp(page, truncated)
    BY <1>1, <1>4, ScanGoesOn
  <2>2. truncated \/ listed # {}
    BY <1>3, <1>4
  <2> QED
    BY <1>2, <2>1, <2>2 DEF TakePage, Withheld, Problem, Answer, Goto
<1>5. ASSUME ReadOf("package"), RestrictedPackage
      PROVE  RestrictedPackage'
  <2> SUFFICES ASSUME clean', before.markedDocs # {}, Cardinality(Established) <= MaxPages
               PROVE  \/ phase' = "done" /\ answer'.status = 404
                      \/ phase' = "list" /\ before.markedDocs \cap scan'.listed = {}
    BY <1>1, <1>5, MarksStay DEF RestrictedPackage, ReadKept, ReadOf, Refused
  <2>1. /\ before.markedDocs \subseteq before.docs /\ before.markedDocs \subseteq markedDocs
        /\ before.markedDocs \cap scan.listed = {}
        /\ ReadsPackage
    BY <1>1, <1>5 DEF AnswerInv, MarksOK, RestrictedPackage, ReadKept, ReadOf, ReadsPackage
  <2>2. CASE page \cap markedDocs = {}
    <3>1. before.markedDocs \cap listed = {}
      BY <2>1, <2>2
    <3>2. truncated
      BY <1>3, <2>1, <3>1
    <3> QED
      BY <1>4, <2>1, <2>2, <3>1, <3>2
  <2>3. CASE page \cap markedDocs # {}
    BY <1>4, <2>1, <2>3
  <2> QED
    BY <2>2, <2>3
<1>6. ASSUME ReadOf("package"), ReadablePackage
      PROVE  ReadablePackage'
  <2> SUFFICES ASSUME clean', before.docs # {}, Cardinality(Established) <= MaxPages,
                      \A v \in Established : Public(v)
               PROVE  phase' \in {"list", "newest"}
    BY <1>1, <1>6, MarksStay DEF ReadablePackage, ReadKept, ReadOf, Public
  <2>1. page \subseteq Established /\ page \cap markedDocs = {}
    BY DEF Pages, After, Public
  <2> QED
    BY <1>4, <1>6, <2>1 DEF ReadOf, ReadsPackage
<1>7. ASSUME ReadOf("version"), RestrictedVersion
      PROVE  RestrictedVersion'
  BY <1>1, <1>7 DEF RestrictedVersion, ReadKept, ReadOf
<1>8. ASSUME ReadOf("version"), ReadableVersion
      PROVE  ReadableVersion'
  BY <1>1, <1>8 DEF ReadableVersion, ReadKept, ReadOf, Public
<1> QED
  BY <1>1, <1>5, <1>6, <1>7, <1>8, Decides

(* The newest document, readable as all are, is the answer.                 *)
LEMMA NewestAnswers ==
  ASSUME TypeInv, ListInv, AnswerInv, ReadNewest
  PROVE  AnswerInv'
<1>1. ReadKept /\ phase = "newest"
  BY ReadKeeps DEF ReadStep, ReadNewest
<1>2. CountOK'
  <2>1. phase' # "list"
    BY DEF ReadNewest, AnswerUnlessWithheld, AskThirdParties, Withheld, Problem, Answer, Goto
  <2> QED
    BY <1>1, <2>1, MarksStay DEF CountOK
<1>3. PICK v : v = Newest(scan.listed)
  OBVIOUS
<1>4. PICK content : AnswerUnlessWithheld(v, content)
  BY <1>3 DEF ReadNewest
<1>5. ASSUME ReadOf("package"), ReadablePackage
      PROVE  ReadablePackage'
  <2> SUFFICES ASSUME \A w \in Established : Public(w) /\ docs[w].fits
               PROVE  phase' = "done" /\ FromEdge'
    BY <1>1, <1>5, MarksStay DEF ReadablePackage, ReadKept, ReadOf, Public
  <2>1. DocsOK /\ scan.listed \in SUBSET Established /\ scan.listed # {}
    BY <1>1, <1>5 DEF ListInv, PackageRead, ReadOf, ReadsPackage
  <2>2. v \in Established
    BY <1>3, <2>1, NewestExists
  <2>3. docs[v] # None /\ Public(v) /\ docs[v].fits
    BY <2>2 DEF Established
  <2> QED
    BY <1>4, <2>3 DEF AnswerUnlessWithheld, Public, Answer, FromEdge
<1>6. ASSUME ReadOf("package"), RestrictedPackage
      PROVE  RestrictedPackage'
  BY <1>1, <1>6, MarksStay DEF RestrictedPackage, ReadKept, ReadOf
<1>7. ASSUME ReadOf("version"), RestrictedVersion
      PROVE  RestrictedVersion'
  BY <1>1, <1>7 DEF RestrictedVersion, ReadKept, ReadOf
<1>8. ASSUME ReadOf("version"), ReadableVersion
      PROVE  ReadableVersion'
  BY <1>1, <1>8 DEF ReadableVersion, ReadKept, ReadOf, Public
<1> QED
  BY <1>1, <1>2, <1>5, <1>6, <1>7, <1>8, Decides

(* Elsewhere a part of the invariant no longer assumes anything, or does    *)
(* not any more since a bucket call failed.                                 *)
LEMMA OtherAnswers ==
  ASSUME TypeInv, AnswerInv,
         \/ BucketFails \/ CdnRead \/ CdnBucketFails \/ CdnArtifact \/ CdnArtifactFails
         \/ ThirdParty \/ Conclude
  PROVE  AnswerInv'
<1>1. ReadKept /\ (~clean' \/ phase \in {"cdn", "tarball", "zip", "third"})
  BY ReadKeeps DEF ReadStep, BucketFails, CdnRead, CdnBucketFails, CdnArtifact, CdnArtifactFails,
                   ThirdParty, Conclude
<1>2. CountOK'
  <2>1. phase' # "list"
    BY DEF BucketFails, CdnRead, CdnBucketFails, CdnArtifact, CdnArtifactFails, ServeObject,
           NextFormat, ThirdParty, Conclude, AskThirdParties, Problem, Answer, Goto, readVars
  <2> QED
    BY <1>1, <2>1, MarksStay DEF CountOK
<1>3. ASSUME RestrictedVersion PROVE RestrictedVersion'
  BY <1>1, <1>3 DEF RestrictedVersion, ReadKept, ReadOf
<1>4. ASSUME ReadableVersion PROVE ReadableVersion'
  BY <1>1, <1>4 DEF ReadableVersion, ReadKept, ReadOf, Public
<1>5. ASSUME RestrictedPackage PROVE RestrictedPackage'
  BY <1>1, <1>5, MarksStay DEF RestrictedPackage, ReadKept, ReadOf
<1>6. ASSUME ReadablePackage PROVE ReadablePackage'
  BY <1>1, <1>6, MarksStay DEF ReadablePackage, ReadKept, ReadOf, Public
<1> QED
  BY <1>1, <1>2, <1>3, <1>4, <1>5, <1>6, Decides

LEMMA AnswerStep ==
  TypeInv /\ ListInv /\ AnswerInv /\ [Next]_vars => AnswerInv'
<1> SUFFICES ASSUME TypeInv, ListInv, AnswerInv, [Next]_vars
             PROVE  AnswerInv'
  OBVIOUS
<1>1. CASE Publishing
  BY <1>1, PublishingAnswers
<1>2. ASSUME NEW r \in Request, Receive(r)
      PROVE  AnswerInv'
  BY <1>2, ReceiveAnswers
<1>3. CASE ReadStep
  BY <1>3, OriginAnswers, DocumentAnswers, PageAnswers, NewestAnswers, OtherAnswers DEF ReadStep
<1>4. CASE UNCHANGED vars
  <2>1. /\ UNCHANGED <<request, phase, scan, clean, before, answer, docs, markedDocs>>
        /\ Established' = Established
    BY <1>4 DEF vars, readVars, bucket, Established
  <2> QED
    BY <2>1 DEF AnswerInv, MarksOK, CountOK, ReadsPackage, ReadOf, RestrictedVersion,
                RestrictedPackage, ReadableVersion, ReadablePackage, Refused, FromEdge, Public
<1> QED
  BY <1>1, <1>2, <1>3, <1>4 DEF Next

LEMMA AnswersDecided == Spec => [](TypeInv /\ ServedInv /\ ListInv /\ AnswerInv)
BY TypeInit, ServedInit, ListInit, AnswerInit, TypeStep, ServedStep, ListStep, AnswerStep, PTL
   DEF Spec

(* A restriction is terminal: a marked or withheld version, or a package    *)
(* with a marked version, is answered by the origin or as missing.          *)
THEOREM RestrictionsAreTerminal == Spec => []RestrictionIsTerminal
<1>1. AnswerInv => RestrictionIsTerminal
  BY DEF AnswerInv, RestrictedVersion, RestrictedPackage, RestrictionIsTerminal, Answered, ReadOf,
         Refused
<1> QED
  BY <1>1, AnswersDecided, PTL

(* What the bucket holds, public and readable, is never guessed at third    *)
(* parties nor told as missing.                                             *)
THEOREM PublishedIsNotGuessed == Spec => []PublishedNeverGuessed
<1>1. AnswerInv => PublishedNeverGuessed
  BY DEF AnswerInv, ReadableVersion, ReadablePackage, PublishedNeverGuessed, Answered, ReadOf
<1> QED
  BY <1>1, AnswersDecided, PTL

-----------------------------------------------------------------------------
(* How much of a read is left: the phase; the source asked in it; the pages *)
(* or tags left; the requests left for this one; the redirects left.        *)

PhaseRank == CASE phase \in {"idle", "done"} -> 0
               [] phase = "third" -> 1
               [] phase = "newest" -> 2
               [] phase \in {"list", "document", "zip", "cdn"} -> 3
               [] phase = "tarball" -> 4
               [] OTHER -> 5

SourceRank == CASE step \in {"off", "over"} -> 0
                [] step \in ByTag \cup {"tags"} -> 1
                [] step = "repo" -> 2
                [] step \in {"feed", "sidecar", "sidecar_hop"} -> 3
                [] step = "download" -> 4
                [] OTHER -> 5

TriesLeft == IF phase = "list" THEN MaxPages - scan.pages ELSE 2 * Len(Tags) - attempt
NotAsked == CASE step \in {"sidecar", "release", "mirror"} -> 2
              [] step = "release_sidecar" -> 1
              [] OTHER -> 0
Left == <<PhaseRank, IF phase = "third" THEN SourceRank ELSE 0, TriesLeft, NotAsked,
          MaxRedirects - hops>>

(* The lexicographic order of such tuples.                                  *)
Less(r, s) == \E i \in 1..5 : r[i] < s[i] /\ \A j \in 1..(i - 1) : r[j] = s[j]

WindsDown == (ReadStep => Less(Left', Left)) /\ (Publishing => Left' = Left)

LEMMA LessIf ==
  ASSUME NEW r, NEW s,
         \/ r[1] < s[1]
         \/ r[1] = s[1] /\ r[2] < s[2]
         \/ r[1] = s[1] /\ r[2] = s[2] /\ r[3] < s[3]
         \/ r[1] = s[1] /\ r[2] = s[2] /\ r[3] = s[3] /\ r[4] < s[4]
         \/ r[1] = s[1] /\ r[2] = s[2] /\ r[3] = s[3] /\ r[4] = s[4] /\ r[5] < s[5]
  PROVE  Less(r, s)
<1>1. \A i \in 1..5 : i = 1 \/ i = 2 \/ i = 3 \/ i = 4 \/ i = 5
  OBVIOUS
<1>2. CASE r[1] < s[1]
  <2>1. r[1] < s[1] /\ \A j \in 1..(1 - 1) : r[j] = s[j]
    BY <1>2
  <2> QED
    BY <2>1 DEF Less
<1>3. CASE r[1] = s[1] /\ r[2] < s[2]
  <2>1. r[2] < s[2] /\ \A j \in 1..(2 - 1) : r[j] = s[j]
    BY <1>3
  <2> QED
    BY <2>1 DEF Less
<1>4. CASE r[1] = s[1] /\ r[2] = s[2] /\ r[3] < s[3]
  <2>1. r[3] < s[3] /\ \A j \in 1..(3 - 1) : r[j] = s[j]
    BY <1>4
  <2> QED
    BY <2>1 DEF Less
<1>5. CASE r[1] = s[1] /\ r[2] = s[2] /\ r[3] = s[3] /\ r[4] < s[4]
  <2>1. r[4] < s[4] /\ \A j \in 1..(4 - 1) : r[j] = s[j]
    BY <1>5
  <2> QED
    BY <2>1 DEF Less
<1>6. CASE r[1] = s[1] /\ r[2] = s[2] /\ r[3] = s[3] /\ r[4] = s[4] /\ r[5] < s[5]
  <2>1. r[5] < s[5] /\ \A j \in 1..(5 - 1) : r[j] = s[j]
    BY <1>6
  <2> QED
    BY <2>1 DEF Less
<1> QED
  BY <1>2, <1>3, <1>4, <1>5, <1>6

(* Each step of the fallback leaves a source for a later one, tries again,  *)
(* or follows a redirect.                                                   *)
Descends == \/ SourceRank' < SourceRank
            \/ /\ SourceRank' = SourceRank
               /\ \/ attempt' = attempt + 1
                  \/ /\ attempt' = attempt
                     /\ \/ NotAsked' < NotAsked
                        \/ NotAsked' = NotAsked /\ hops' = hops + 1

LEMMA FallbackDescends == FallbackStep => Descends
<1> SUFFICES ASSUME FallbackStep PROVE Descends
  OBVIOUS
<1> USE DEF Descends, SourceRank, NotAsked, ByTag, Move, Find, FindListing, Download
<1>1. CASE NativeMetadata
  BY <1>1 DEF NativeMetadata, StartGithub
<1>2. CASE NativeBytes \/ NativeGivesUp
  BY <1>2 DEF NativeBytes, NativeGivesUp, StartGithub
<1>3. CASE Redirect
  BY <1>3 DEF Redirect, Follow
<1>4. CASE SidecarFromCdn \/ SidecarFromGithub \/ SidecarArrives
  BY <1>4 DEF SidecarFromCdn, SidecarFromGithub, SidecarArrives, FindSidecar
<1>5. CASE SidecarMissing
  BY <1>5 DEF SidecarMissing, NextSidecar
<1>6. CASE FeedFound \/ FeedMissing \/ PublicGithubRepo \/ PackageFromGithub
  BY <1>6 DEF FeedFound, FeedMissing, PublicGithubRepo, PackageFromGithub
<1>7. CASE VersionFromGithub \/ ReleaseSidecarRefused
  <2>1. \/ step = "release" /\ Download("release_sidecar", [place |-> "release", sha |-> None])
        \/ step \in {"release", "release_sidecar"} /\ (step' = "over" \/ NextRelease)
    BY <1>7 DEF VersionFromGithub, ReleaseSidecarRefused, TakeArtifact
  <2> QED
    BY <2>1 DEF NextRelease
<1>8. CASE ReleaseSidecarArrives \/ IsGithubAssetResponseThrows \/ ReleaseMissing \/ GithubGivesUp
  BY <1>8 DEF ReleaseSidecarArrives, IsGithubAssetResponseThrows, ReleaseMissing, GithubGivesUp,
              NextRelease
<1>9. CASE StartMirror \/ MirrorArrives \/ MirrorMissing
  BY <1>9 DEF StartMirror, MirrorArrives, MirrorMissing
<1> QED
  BY <1>1, <1>2, <1>3, <1>4, <1>5, <1>6, <1>7, <1>8, <1>9 DEF FallbackStep

LEMMA LeftIs ==
  /\ Left[1] = PhaseRank /\ Left[2] = IF phase = "third" THEN SourceRank ELSE 0
  /\ Left[3] = TriesLeft /\ Left[4] = NotAsked /\ Left[5] = MaxRedirects - hops
BY DEF Left

LEMMA LeftNat == TypeInv => \A i \in 1..5 : Left[i] \in Nat
<1> SUFFICES ASSUME TypeInv, NEW i \in 1..5
             PROVE  Left[i] \in Nat
  OBVIOUS
<1>1. /\ phase = "list" => scan.pages \in 0..MaxPages
      /\ attempt \in 1..(2 * Len(Tags)) /\ hops \in 0..MaxRedirects
      /\ MaxPages \in Nat /\ MaxRedirects \in Nat /\ Len(Tags) \in Nat
  BY LimitAssumption, RedirectAssumption, TagFacts DEF TypeInv, TypeOK, FallbackTypeOK
<1>2. TriesLeft \in Nat /\ MaxRedirects - hops \in Nat
  BY <1>1 DEF TriesLeft
<1>3. PhaseRank \in Nat /\ SourceRank \in Nat /\ NotAsked \in Nat
  BY DEF PhaseRank, SourceRank, NotAsked
<1>4. i = 1 \/ i = 2 \/ i = 3 \/ i = 4 \/ i = 5
  OBVIOUS
<1> QED
  BY <1>2, <1>3, <1>4, LeftIs

(* A step that does not stay in its phase goes on to a later one.           *)
LEMMA PhasesDescend ==
  ASSUME TypeInv, ReadStep, ~ThirdParty
  PROVE  \/ PhaseRank' < PhaseRank
         \/ phase = "list" /\ phase' = "list" /\ scan'.pages = scan.pages + 1
<1> USE DEF PhaseRank, Problem, Answer, Goto
<1>1. CASE TryOrigin
  BY <1>1 DEF TryOrigin, AfterOrigin
<1>2. CASE ReadDocument \/ ReadNewest \/ BucketFails
  BY <1>2 DEF ReadDocument, ReadNewest, BucketFails, AnswerUnlessWithheld, AskThirdParties, Withheld
<1>3. CASE ListPage
  BY <1>3 DEF ListPage, TakePage, AskThirdParties, Withheld
<1>4. CASE CdnRead \/ CdnBucketFails \/ CdnArtifact \/ CdnArtifactFails
  BY <1>4 DEF CdnRead, CdnBucketFails, CdnArtifact, CdnArtifactFails, ServeObject, NextFormat
<1>5. CASE Conclude
  BY <1>5 DEF Conclude
<1> QED
  BY <1>1, <1>2, <1>3, <1>4, <1>5 DEF ReadStep

LEMMA StepsWindDown == TypeInv => WindsDown
<1> SUFFICES ASSUME TypeInv PROVE WindsDown
  OBVIOUS
<1>1. ASSUME Publishing PROVE Left' = Left
  BY <1>1 DEF Publishing, fallback, Left, PhaseRank, SourceRank, TriesLeft, NotAsked
<1>2. ASSUME ReadStep PROVE Less(Left', Left)
  <2>1. /\ attempt \in Int /\ hops \in Int /\ scan.pages \in Int
        /\ MaxPages \in Int /\ MaxRedirects \in Int /\ Len(Tags) \in Int
    BY LimitAssumption, RedirectAssumption, TagFacts DEF TypeInv, TypeOK, FallbackTypeOK
  <2>2. /\ Left'[1] = PhaseRank' /\ Left'[2] = IF phase' = "third" THEN SourceRank' ELSE 0
        /\ Left'[3] = TriesLeft' /\ Left'[4] = NotAsked' /\ Left'[5] = MaxRedirects - hops'
    BY DEF Left
  <2>3. CASE ThirdParty
    <3>1. phase = "third" /\ phase' = "third" /\ Descends
      BY <2>3, FallbackDescends DEF ThirdParty, readVars
    <3>2. Left'[1] = Left[1] /\ Left[2] = SourceRank /\ Left'[2] = SourceRank'
      BY <2>2, <3>1, LeftIs DEF PhaseRank
    <3>3. Left[3] = 2 * Len(Tags) - attempt /\ Left'[3] = 2 * Len(Tags) - attempt'
      BY <2>2, <3>1, LeftIs DEF TriesLeft
    <3>4. \/ Left'[2] < Left[2]
          \/ Left'[2] = Left[2] /\ Left'[3] < Left[3]
          \/ Left'[2] = Left[2] /\ Left'[3] = Left[3] /\ Left'[4] < Left[4]
          \/ Left'[2] = Left[2] /\ Left'[3] = Left[3] /\ Left'[4] = Left[4] /\ Left'[5] < Left[5]
      BY <2>1, <2>2, <3>1, <3>2, <3>3, LeftIs DEF Descends
    <3> QED
      BY <3>2, <3>4, LessIf
  <2>4. CASE PhaseRank' < PhaseRank
    BY <2>2, <2>4, LeftIs, LessIf
  <2>5. CASE phase = "list" /\ phase' = "list" /\ scan'.pages = scan.pages + 1
    <3>1. Left'[1] = Left[1] /\ Left'[2] = Left[2]
      BY <2>2, <2>5, LeftIs DEF PhaseRank
    <3>2. Left'[3] < Left[3]
      BY <2>1, <2>2, <2>5, LeftIs DEF TriesLeft
    <3> QED
      BY <3>1, <3>2, LessIf
  <2> QED
    BY <1>2, <2>3, <2>4, <2>5, PhasesDescend
<1> QED
  BY <1>1, <1>2 DEF WindsDown

(* Every read comes to an end: each step of one takes from a lexicographic  *)
(* measure of natural numbers, and no publishing in between adds to it.     *)
THEOREM ReadsWindDown ==
  Spec => [](\A i \in 1..5 : Left[i] \in Nat) /\ [][WindsDown]_vars
<1>1. TypeInv /\ [Next]_vars => [WindsDown]_vars
  BY StepsWindDown
<1> QED
  BY <1>1, LeftNat, TypeInit, TypeStep, PTL DEF Spec
=============================================================================
