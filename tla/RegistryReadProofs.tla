------------------------- MODULE RegistryReadProofs -------------------------
(***************************************************************************)
(* That bytes the bucket holds are served and that its listings are honest, *)
(* whatever versions, digests, third parties and limits there are.          *)
(***************************************************************************)
EXTENDS RegistryRead, WellFoundedInduction, TLAPS

(* The bucket: a document's bytes were there before it and stay.            *)
BucketOK == /\ docs = [v \in Version |-> docs[v]]
            /\ objects \subseteq ArtifactKey
            /\ \A v \in Version : docs[v] # None => docs[v].url \in objects

(* The two reads the property is about.                                     *)
ReadsObject == phase # "idle" /\ request.route = "cdn_object"
ReadsArtifact == phase # "idle" /\ request.route = "artifact" /\ request.method = "GET"

(* A read of an object asks the CDN and is told what that found.            *)
ObjectRead == ReadsObject =>
  /\ phase \in {"cdn", "done"}
  /\ before.docs # {} => request.key \in objects
  /\ (phase = "done" /\ clean /\ before.docs # {} /\ request.key \notin markedObjects)
       => answer.status = 200

(* A read of bytes by digest tries one format after the other: what it has  *)
(* not found as a tarball, though it was there, is a zip.                   *)
ArtifactRead == ReadsArtifact =>
  /\ phase \in {"origin", "tarball", "zip", "done"}
  /\ before.objects \subseteq objects
  /\ \A k \in before.objects : k.sha256 = request.key.sha256
  /\ (phase = "zip" /\ clean) => \A k \in before.objects \ markedObjects : k.ext = "zip"
  /\ (phase = "done" /\ clean /\ OriginIsUnavailable(originSaid)
        /\ before.objects \ markedObjects # {})
       => answer.status = 200 /\ answer.content.sha256 = request.key.sha256

ServedInv == BucketOK /\ ObjectRead /\ ArtifactRead

LEMMA ServedInit == Init => ServedInv
BY DEF Init, ServedInv, BucketOK, ObjectRead, ArtifactRead, ReadsObject, ReadsArtifact

-----------------------------------------------------------------------------
(* The bucket only grows, in objects, documents and marks.                  *)
LEMMA PublishingStep ==
  ASSUME ServedInv, Publishing
  PROVE  ServedInv'
<1>1. /\ UNCHANGED <<request, phase, originSaid, clean, before, answer>>
      /\ objects \subseteq objects' /\ markedObjects \subseteq markedObjects'
  BY DEF Publishing, Tick, Mark, Upload, Establish
<1>2. BucketOK'
  <2>1. CASE Tick \/ Mark
    BY <2>1 DEF Tick, Mark, ServedInv, BucketOK
  <2>2. ASSUME NEW v \in Version, NEW c \in Candidate[v], Upload(c.url)
        PROVE  BucketOK'
    <3>1. c.url \in ArtifactKey
      BY CandidateAssumption DEF Content
    <3> QED
      BY <2>2, <3>1 DEF Upload, ServedInv, BucketOK
  <2>3. ASSUME NEW v \in Version, NEW c \in Candidate[v], Establish(v, c)
        PROVE  BucketOK'
    <3> DEFINE d == [url |-> c.url, private |-> c.private, fits |-> c.fits, uploaded |-> clock]
    <3>1. docs' = [docs EXCEPT ![v] = d] /\ c.url \in objects /\ objects' = objects
      BY <2>3 DEF Establish, Registry!Establish
    <3>2. d.url = c.url
      OBVIOUS
    <3> HIDE DEF d
    <3> QED
      BY <3>1, <3>2 DEF ServedInv, BucketOK
  <2> QED
    BY <2>1, <2>2, <2>3 DEF Publishing
<1>3. ObjectRead'
  BY <1>1 DEF ServedInv, ObjectRead, ReadsObject
<1>4. ArtifactRead'
  BY <1>1 DEF ServedInv, ArtifactRead, ReadsArtifact, OriginIsUnavailable
<1> QED
  BY <1>2, <1>3, <1>4 DEF ServedInv

(* A new read begins with what the bucket holds.                            *)
LEMMA ReceiveStep ==
  ASSUME ServedInv, NEW r \in Request, Receive(r)
  PROVE  ServedInv'
<1>1. /\ request' = r /\ before' = Snapshot(r) /\ clean' = TRUE
      /\ UNCHANGED <<docs, objects, markedObjects>>
  BY DEF Receive, bucket
<1>2. BucketOK'
  BY <1>1 DEF ServedInv, BucketOK
<1>3. ASSUME r.route = "cdn_object"
      PROVE  phase' = "cdn" /\ (Snapshot(r).docs # {} => r.key \in objects)
  <2>1. phase' = "cdn"
    BY <1>3 DEF Receive, CdnRoute
  <2>2. Snapshot(r).docs = {v \in Established : docs[v].url = r.key} \cap Established
    BY <1>3 DEF Snapshot
  <2> QED
    BY <2>1, <2>2 DEF ServedInv, BucketOK, Established
<1>4. ASSUME r.route = "artifact", r.method = "GET"
      PROVE  /\ phase' = "origin"
             /\ Snapshot(r).objects = {k \in objects : k.sha256 = r.key.sha256}
  <2>1. ClassifyRegistryRequest(r) = "origin_read"
    BY <1>4 DEF ClassifyRegistryRequest, Methods
  <2>2. phase' = "origin"
    BY <1>4, <2>1 DEF Receive, CdnRoute, OwnAnswer
  <2> QED
    BY <1>4, <2>2 DEF Snapshot
<1>5. ObjectRead'
  BY <1>1, <1>3 DEF ObjectRead, ReadsObject
<1>6. ArtifactRead'
  BY <1>1, <1>4 DEF ArtifactRead, ReadsArtifact
<1> QED
  BY <1>2, <1>5, <1>6 DEF ServedInv

-----------------------------------------------------------------------------
(* The origin, when it is not there, leaves the bytes to the CDN.           *)
LEMMA OriginStep ==
  ASSUME ServedInv, TryOrigin
  PROVE  ServedInv'
<1>1. /\ phase = "origin"
      /\ UNCHANGED <<request, clean, before, docs, objects, markedObjects>>
  BY DEF TryOrigin, bucket
<1>2. BucketOK'
  BY <1>1 DEF ServedInv, BucketOK
<1>3. ObjectRead'
  BY <1>1 DEF ServedInv, ObjectRead, ReadsObject
<1>4. ASSUME ReadsArtifact
      PROVE  phase' = "tarball" \/ (phase' = "done" /\ ~OriginIsUnavailable(originSaid)')
  <2>1. ClassifyRegistryRequest(request) = "origin_read"
    BY <1>4 DEF ReadsArtifact, ClassifyRegistryRequest, Methods
  <2>2. PICK o \in OriginStatus : originSaid' = o /\ AfterOrigin(o)
    BY DEF TryOrigin
  <2>3. CASE OriginIsUnavailable(o)
    BY <1>4, <2>1, <2>2, <2>3 DEF ReadsArtifact, AfterOrigin, Goto
  <2>4. CASE ~OriginIsUnavailable(o)
    BY <2>1, <2>2, <2>4 DEF AfterOrigin, Final, Answer, OriginIsUnavailable
  <2> QED
    BY <2>3, <2>4
<1>5. ArtifactRead'
  BY <1>1, <1>4 DEF ServedInv, ArtifactRead, ReadsArtifact, OriginIsUnavailable
<1> QED
  BY <1>2, <1>3, <1>5 DEF ServedInv

-----------------------------------------------------------------------------
(* The CDN: one object, or the document or release that a read asks for.    *)
LEMMA CdnStep ==
  ASSUME ServedInv, CdnRead \/ CdnBucketFails
  PROVE  ServedInv'
<1>1. /\ phase = "cdn" /\ phase' = "done"
      /\ UNCHANGED <<request, originSaid, before, docs, objects, markedObjects>>
  BY DEF CdnRead, CdnBucketFails, ServeObject, Problem, Answer, reader, bucket
<1>2. BucketOK'
  BY <1>1 DEF ServedInv, BucketOK
<1>3. ArtifactRead'
  BY <1>1 DEF ServedInv, ArtifactRead, ReadsArtifact
<1>4. ASSUME ReadsObject, clean', before.docs # {}, request.key \notin markedObjects
      PROVE  answer'.status = 200
  <2>1. CdnRead /\ request.key \in objects
    BY <1>4 DEF CdnBucketFails, ServedInv, ObjectRead
  <2> QED
    BY <1>4, <2>1 DEF CdnRead, ServeObject, GetR2, Answer, ReadsObject
<1>5. ObjectRead'
  BY <1>1, <1>4 DEF ServedInv, ObjectRead, ReadsObject
<1> QED
  BY <1>2, <1>3, <1>5 DEF ServedInv

(* Bytes by digest: what was there before the read, unmarked, is the key    *)
(* tried, or not of that format.                                            *)
LEMMA ArtifactStep ==
  ASSUME ServedInv, CdnArtifact \/ CdnArtifactFails
  PROVE  ServedInv'
<1>1. /\ phase \in {"tarball", "zip"}
      /\ UNCHANGED <<request, originSaid, before, docs, objects, markedObjects>>
      /\ (phase' = "zip" /\ phase = "tarball") \/ phase' = "done"
  BY DEF CdnArtifact, CdnArtifactFails, NextFormat, Goto, Problem, Answer, reader, bucket
<1>2. BucketOK'
  BY <1>1 DEF ServedInv, BucketOK
<1>3. ObjectRead'
  BY <1>1 DEF ServedInv, ObjectRead, ReadsObject
<1>4. KeyTried.sha256 = request.key.sha256
  BY DEF KeyTried
<1>5. ASSUME ReadsArtifact, NEW k \in before.objects \ markedObjects,
             k.ext = (IF phase = "tarball" THEN "tar.gz" ELSE "zip")
      PROVE  GetR2(KeyTried)
  <2>1. k \in objects /\ k \in ArtifactKey /\ k.sha256 = request.key.sha256
    BY <1>5 DEF ServedInv, ArtifactRead, BucketOK
  <2>2. k = KeyTried
    BY <1>5, <2>1 DEF ArtifactKey, KeyTried
  <2> QED
    BY <1>5, <2>1, <2>2 DEF GetR2
<1>6. ASSUME ReadsArtifact, phase' = "zip", clean'
      PROVE  \A k \in before.objects \ markedObjects : k.ext = "zip"
  <2>1. phase = "tarball" /\ CdnArtifact /\ ~GetR2(KeyTried)
    BY <1>1, <1>6 DEF CdnArtifactFails, CdnArtifact, Answer
  <2>2. before.objects \subseteq ArtifactKey
    BY <1>6 DEF ServedInv, ArtifactRead, BucketOK
  <2> QED
    BY <1>5, <1>6, <2>1, <2>2 DEF ArtifactKey
<1>7. ASSUME ReadsArtifact, phase' = "done", clean', before.objects \ markedObjects # {}
      PROVE  answer'.status = 200 /\ answer'.content.sha256 = request.key.sha256
  <2>1. CdnArtifact /\ clean
    BY <1>7 DEF CdnArtifactFails, CdnArtifact
  <2>2. GetR2(KeyTried)
    <3>1. CASE phase = "tarball"
      BY <1>7, <2>1, <3>1 DEF CdnArtifact, NextFormat, Goto
    <3>2. CASE phase = "zip"
      <4>1. PICK k \in before.objects \ markedObjects : k.ext = "zip"
        BY <1>7, <2>1, <3>2 DEF ServedInv, ArtifactRead
      <4> QED
        BY <1>5, <1>7, <3>2, <4>1
    <3> QED
      BY <1>1, <3>1, <3>2
  <2> QED
    BY <1>4, <2>1, <2>2 DEF CdnArtifact, Answer
<1>8. ArtifactRead'
  BY <1>1, <1>6, <1>7 DEF ServedInv, ArtifactRead, ReadsArtifact
<1> QED
  BY <1>2, <1>3, <1>8 DEF ServedInv

-----------------------------------------------------------------------------
(* Everything else is another read's.                                       *)

LEMMA FallbackKeepsRequest == FallbackStep => UNCHANGED request
<1> SUFFICES ASSUME FallbackStep
             PROVE  UNCHANGED request
  OBVIOUS
<1> USE DEF Move, Find, FindListing, Download, StartGithub, Follow
<1>1. CASE NativeMetadata \/ NativeBytes \/ NativeGivesUp \/ Redirect
  BY <1>1 DEF NativeMetadata, NativeBytes, NativeGivesUp, Redirect
<1>2. CASE SidecarFromCdn \/ SidecarFromGithub \/ SidecarArrives \/ SidecarMissing
  BY <1>2 DEF SidecarFromCdn, SidecarFromGithub, SidecarArrives, SidecarMissing, FindSidecar,
              NextSidecar
<1>3. CASE FeedFound \/ FeedMissing \/ PublicGithubRepo \/ PackageFromGithub
  BY <1>3 DEF FeedFound, FeedMissing, PublicGithubRepo, PackageFromGithub
<1>4. CASE \/ VersionFromGithub \/ ReleaseSidecarRefused \/ ReleaseSidecarArrives
          \/ IsGithubAssetResponseThrows \/ ReleaseMissing \/ GithubGivesUp
  BY <1>4 DEF VersionFromGithub, ReleaseSidecarRefused, ReleaseSidecarArrives,
              IsGithubAssetResponseThrows, ReleaseMissing, GithubGivesUp, TakeArtifact, NextRelease
<1>5. CASE StartMirror \/ MirrorArrives \/ MirrorMissing
  BY <1>5 DEF StartMirror, MirrorArrives, MirrorMissing
<1> QED
  BY <1>1, <1>2, <1>3, <1>4, <1>5 DEF FallbackStep

LEMMA OtherStep ==
  ASSUME ServedInv,
         ReadDocument \/ ListPage \/ ReadNewest \/ BucketFails \/ ThirdParty \/ Conclude
  PROVE  ServedInv'
<1>1. phase \in {"document", "list", "newest", "third"}
  BY DEF ReadDocument, ListPage, ReadNewest, BucketFails, ThirdParty, Conclude
<1>2. UNCHANGED <<request, docs, objects>>
  BY FallbackKeepsRequest
     DEF ReadDocument, ListPage, ReadNewest, BucketFails, ThirdParty, Conclude, bucket, readVars
<1>3. ~ReadsObject /\ ~ReadsArtifact
  BY <1>1 DEF ServedInv, ObjectRead, ArtifactRead
<1>4. BucketOK'
  BY <1>2 DEF ServedInv, BucketOK
<1>5. ObjectRead' /\ ArtifactRead'
  BY <1>1, <1>2, <1>3 DEF ObjectRead, ArtifactRead, ReadsObject, ReadsArtifact
<1> QED
  BY <1>4, <1>5 DEF ServedInv

LEMMA ServedStep == ServedInv /\ [Next]_vars => ServedInv'
<1> SUFFICES ASSUME ServedInv, [Next]_vars
             PROVE  ServedInv'
  OBVIOUS
<1>1. CASE Publishing
  BY <1>1, PublishingStep
<1>2. ASSUME NEW r \in Request, Receive(r)
      PROVE  ServedInv'
  BY <1>2, ReceiveStep
<1>3. CASE TryOrigin
  BY <1>3, OriginStep
<1>4. CASE CdnRead \/ CdnBucketFails
  BY <1>4, CdnStep
<1>5. CASE CdnArtifact \/ CdnArtifactFails
  BY <1>5, ArtifactStep
<1>6. CASE ReadDocument \/ ListPage \/ ReadNewest \/ BucketFails \/ ThirdParty \/ Conclude
  BY <1>6, OtherStep
<1>7. CASE UNCHANGED vars
  BY <1>7 DEF vars, readVars, bucket, ServedInv, BucketOK, ObjectRead, ArtifactRead, ReadsObject,
              ReadsArtifact, OriginIsUnavailable
<1> QED
  BY <1>1, <1>2, <1>3, <1>4, <1>5, <1>6, <1>7 DEF Next, ReadStep

(* An install goes through whatever the origin does: what a document names  *)
(* and what the bucket held by digest is served, unless it was withdrawn or *)
(* the bucket failed.                                                       *)
THEOREM BytesServed == Spec => []AdvertisedBytesServed
<1>1. ServedInv => AdvertisedBytesServed
  BY DEF ServedInv, ObjectRead, ArtifactRead, ReadsObject, ReadsArtifact, AdvertisedBytesServed,
         Answered
<1> QED
  BY <1>1, ServedInit, ServedStep, PTL DEF Spec

-----------------------------------------------------------------------------
(* Listings.  A nonempty set of naturals has a smallest one, and a largest  *)
(* one if it is bounded.                                                    *)

LEMMA HasSmallest ==
  ASSUME NEW T \in SUBSET Nat, T # {}
  PROVE  \E x \in T : \A y \in T : x <= y
<1>1. PICK x \in T : \A y \in T : ~ (<<y, x>> \in OpToRel(<, Nat))
  BY WFMin, NatLessThanWellFounded
<1>2. \A y \in T : ~(y < x)
  BY <1>1 DEF OpToRel
<1> QED
  BY <1>2

LEMMA HasLargest ==
  ASSUME NEW T \in SUBSET Nat, T # {}, NEW b \in Nat, \A y \in T : y <= b
  PROVE  \E x \in T : \A y \in T : y <= x
<1> DEFINE D == {b - y : y \in T}
<1>1. D \in SUBSET Nat /\ D # {}
  <2>1. \A y \in T : b - y \in Nat
    OBVIOUS
  <2> QED
    BY <2>1
<1>2. PICK m \in D : \A d \in D : m <= d
  BY <1>1, HasSmallest
<1>3. PICK x \in T : m = b - x
  BY <1>2
<1>4. \A y \in T : b - x <= b - y
  BY <1>2, <1>3
<1> QED
  BY <1>4

(* The newest of established versions is one of them, and there is one.     *)
DocsOK == /\ clock \in 0..MaxClock
          /\ \A v \in Version : docs[v] # None => docs[v].uploaded \in 0..MaxClock

LEMMA NewestExists ==
  ASSUME DocsOK, NEW S \in SUBSET Established, S # {}
  PROVE  /\ Newest(S) \in S
         /\ \A w \in S : docs[w].uploaded <= docs[Newest(S)].uploaded
<1> DEFINE Times == {docs[v].uploaded : v \in S}
           Newests == {v \in S : \A w \in S : docs[w].uploaded <= docs[v].uploaded}
<1>1. /\ S \subseteq Nat /\ MaxClock \in Nat
      /\ \A v \in S : docs[v].uploaded \in 0..MaxClock
  BY VersionAssumption, LimitAssumption DEF DocsOK, Established
<1>2. Times \in SUBSET Nat /\ Times # {} /\ \A t \in Times : t <= MaxClock
  BY <1>1
<1>3. PICK m \in Times : \A t \in Times : t <= m
  BY <1>1, <1>2, HasLargest
<1>4. Newests \in SUBSET Nat /\ Newests # {}
  BY <1>1, <1>3
<1>5. PICK v \in Newests : \A w \in Newests : v <= w
  BY <1>4, HasSmallest
<1>6. \A w \in S \ {v} : \/ docs[w].uploaded < docs[v].uploaded
                         \/ docs[w].uploaded = docs[v].uploaded /\ v < w
  <2> SUFFICES ASSUME NEW w \in S \ {v}, ~(docs[w].uploaded < docs[v].uploaded)
               PROVE  docs[w].uploaded = docs[v].uploaded /\ v < w
    OBVIOUS
  <2>1. docs[w].uploaded = docs[v].uploaded
    BY <1>1
  <2>2. w \in Newests
    BY <2>1
  <2> QED
    BY <1>1, <1>5, <2>1, <2>2
<1> HIDE DEF Times, Newests
<1>7. v \in S
  BY DEF Newests
<1>8. /\ Newest(S) \in S
      /\ \A w \in S \ {Newest(S)} : \/ docs[w].uploaded < docs[Newest(S)].uploaded
                                    \/ docs[w].uploaded = docs[Newest(S)].uploaded /\ Newest(S) < w
  BY <1>6, <1>7 DEF Newest
<1>9. PICK n \in S : n = Newest(S)
  BY <1>8
<1>10. \A w \in S : docs[w].uploaded <= docs[n].uploaded
  <2> SUFFICES ASSUME NEW w \in S
               PROVE  docs[w].uploaded <= docs[n].uploaded
    OBVIOUS
  <2>1. docs[w].uploaded \in Nat /\ docs[n].uploaded \in Nat
    BY <1>1
  <2>2. CASE w = n
    BY <2>1, <2>2
  <2>3. CASE w # n
    BY <1>8, <1>9, <2>1, <2>3
  <2> QED
    BY <2>2, <2>3
<1> QED
  BY <1>8, <1>9, <1>10

(* A page that is not the last ends with a key, and all keys up to that one *)
(* are on it or before it.                                                  *)
LEMMA PageEnds ==
  ASSUME NEW cursor \in Int, NEW page \in Pages(cursor), After(cursor) # page
  PROVE  /\ NextCursor(page) \in page
         /\ \A v \in After(cursor) : v <= NextCursor(page) => v \in page
<1>1. /\ page \in SUBSET After(cursor) /\ After(cursor) \subseteq Nat
      /\ page # {}
      /\ \A v \in page, w \in After(cursor) \ page : v < w
  BY VersionAssumption DEF Pages, After, Established
<1>2. PICK w \in After(cursor) \ page : TRUE
  BY <1>1
<1>3. \E x \in page : \A y \in page : y <= x
  <2>1. page \in SUBSET Nat /\ w \in Nat /\ \A y \in page : y <= w
    BY <1>1, <1>2
  <2> QED
    BY <1>1, <2>1, HasLargest
<1>4. NextCursor(page) \in page
  BY <1>3 DEF NextCursor
<1> QED
  BY <1>1, <1>4

-----------------------------------------------------------------------------
(* The read of a package.                                                   *)

FoundOK == found # None => found.source \in {"native", "github"}

ReadsPackage == phase # "idle" /\ request.route = "package"

Honest == /\ before.docs \subseteq answer.content.versions
          /\ answer.content.versions \subseteq Established
          /\ answer.content.latest \in answer.content.versions
          /\ \A v \in before.docs : docs[v].uploaded <= docs[answer.content.latest].uploaded

(* The scan has listed what it has passed.                                  *)
PackageRead == ReadsPackage =>
  /\ phase \in {"origin", "list", "newest", "third", "done"}
  /\ before.docs \subseteq Established
  /\ phase = "origin" => scan = NoScan
  /\ phase \in {"list", "newest"} => scan.listed \subseteq Established
  /\ phase = "list" => /\ scan.cursor \in Int
                       /\ \A v \in before.docs : v <= scan.cursor => v \in scan.listed
  /\ phase = "newest" => scan.listed # {} /\ before.docs \subseteq scan.listed
  /\ (phase = "done" /\ answer.source = "edge-r2") => Honest

ListInv == BucketOK /\ DocsOK /\ FoundOK /\ PackageRead

LEMMA ListInit == Init => ListInv
BY ServedInit, LimitAssumption
   DEF Init, InitFallback, ListInv, ServedInv, DocsOK, FoundOK, PackageRead, ReadsPackage

(* A document, once established, is what it was.                            *)
LEMMA DocsStay ==
  ASSUME ListInv, Publishing
  PROVE  /\ DocsOK' /\ Established \subseteq Established'
         /\ \A v \in Established : docs'[v] = docs[v]
<1>1. CASE Tick \/ Mark
  BY <1>1, LimitAssumption DEF Tick, Mark, ListInv, DocsOK, Established
<1>2. ASSUME NEW k, Upload(k)
      PROVE  DocsOK' /\ UNCHANGED docs
  BY <1>2 DEF Upload, ListInv, DocsOK
<1>3. ASSUME NEW v \in Version, NEW c \in Candidate[v], Establish(v, c)
      PROVE  /\ DocsOK' /\ Established \subseteq Established'
             /\ \A w \in Established : docs'[w] = docs[w]
  <2> DEFINE d == [url |-> c.url, private |-> c.private, fits |-> c.fits, uploaded |-> clock]
  <2>1. docs[v] = None /\ docs' = [docs EXCEPT ![v] = d] /\ clock' = clock
    BY <1>3 DEF Establish, Registry!Establish
  <2>2. d.uploaded = clock
    OBVIOUS
  <2> HIDE DEF d
  <2>3. \A w \in Version : docs'[w] = IF w = v THEN d ELSE docs[w]
    BY <2>1 DEF ListInv, BucketOK
  <2> QED
    BY <2>1, <2>2, <2>3 DEF ListInv, DocsOK, Established
<1> QED
  BY <1>1, <1>2, <1>3 DEF Publishing, Established

LEMMA PublishingKeepsListing ==
  ASSUME ListInv, Publishing, BucketOK'
  PROVE  ListInv'
<1>1. /\ UNCHANGED <<request, phase, scan, before, answer, found>>
  BY DEF Publishing, fallback
<1>2. /\ DocsOK' /\ Established \subseteq Established'
      /\ \A v \in Established : docs'[v] = docs[v]
  BY DocsStay
<1>3. FoundOK'
  BY <1>1 DEF ListInv, FoundOK
<1>4. ASSUME ReadsPackage, phase = "done", answer.source = "edge-r2"
      PROVE  Honest'
  <2>1. Honest /\ before.docs \subseteq Established
    BY <1>4 DEF ListInv, PackageRead
  <2>2. answer.content.latest \in Established
    BY <2>1 DEF Honest
  <2> QED
    BY <1>1, <1>2, <2>1, <2>2 DEF Honest
<1>5. PackageRead'
  BY <1>1, <1>2, <1>4 DEF ListInv, PackageRead, ReadsPackage
<1> QED
  BY <1>2, <1>3, <1>5 DEF ListInv

LEMMA ReceiveListing ==
  ASSUME ListInv, NEW r \in Request, Receive(r)
  PROVE  ListInv'
<1>1. /\ request' = r /\ before' = Snapshot(r) /\ scan' = NoScan /\ found' = None
      /\ UNCHANGED <<clock, docs, objects>>
  BY DEF Receive, bucket
<1>2. BucketOK' /\ DocsOK' /\ FoundOK'
  BY <1>1 DEF ListInv, BucketOK, DocsOK, FoundOK
<1>3. ASSUME r.route = "package"
      PROVE  /\ phase' = "origin" \/ (phase' = "done" /\ answer'.source = "edge")
             /\ Snapshot(r).docs \subseteq Established
  <2>1. phase' = "origin" \/ (phase' = "done" /\ answer'.source = "edge")
    BY <1>3 DEF Receive, CdnRoute, Problem, Answer
  <2> QED
    BY <2>1 DEF Snapshot
<1>4. PackageRead'
  BY <1>1, <1>3 DEF PackageRead, ReadsPackage, Established
<1> QED
  BY <1>2, <1>4 DEF ListInv

(* A listing begins with nothing listed.                                    *)
LEMMA OriginListing ==
  ASSUME ListInv, TryOrigin
  PROVE  ListInv'
<1>1. /\ phase = "origin"
      /\ UNCHANGED <<request, found, before, scan, clock, docs, objects>>
  BY DEF TryOrigin, bucket, fallback
<1>2. BucketOK' /\ DocsOK' /\ FoundOK'
  BY <1>1 DEF ListInv, BucketOK, DocsOK, FoundOK
<1>3. ASSUME ReadsPackage
      PROVE  phase' = "list" \/ (phase' = "done" /\ answer'.source # "edge-r2")
  BY <1>3 DEF TryOrigin, AfterOrigin, Goto, Problem, Answer, ReadsPackage
<1>4. \A v \in before.docs : ReadsPackage => v \in Nat
  BY VersionAssumption DEF ListInv, PackageRead, Established
<1>5. ReadsPackage => scan.listed = {} /\ scan.cursor = -1 /\ before.docs \subseteq Established
  BY <1>1 DEF ListInv, PackageRead, NoScan
<1>6. PackageRead'
  BY <1>1, <1>3, <1>4, <1>5 DEF PackageRead, ReadsPackage, Established
<1> QED
  BY <1>2, <1>6 DEF ListInv

LEMMA PageListing ==
  ASSUME ListInv, ListPage
  PROVE  ListInv'
<1>1. /\ phase = "list"
      /\ UNCHANGED <<request, found, before, clock, docs, objects>>
  BY DEF ListPage, bucket
<1>2. BucketOK' /\ DocsOK' /\ FoundOK'
  BY <1>1 DEF ListInv, BucketOK, DocsOK, FoundOK
<1>3. PICK page \in Pages(scan.cursor) : TakePage(page)
  BY DEF ListPage
<1> DEFINE truncated == After(scan.cursor) # page
           listed == scan.listed \cup page
           taken == /\ scan' = [pages |-> scan.pages + 1, listed |-> listed,
                                cursor |-> IF page = {} THEN scan.cursor ELSE NextCursor(page)]
                    /\ phase' = IF truncated THEN "list" ELSE "newest"
<1>4. \/ phase' = "done" /\ answer'.source = "edge"
      \/ phase' = "third"
      \/ taken /\ (truncated \/ listed # {})
  BY <1>3 DEF TakePage, Withheld, Problem, Answer, AskThirdParties, Goto
<1>5. CASE ~ReadsPackage
  BY <1>1, <1>2, <1>5 DEF ListInv, PackageRead, ReadsPackage
<1>6. CASE ReadsPackage /\ phase' # "list" /\ phase' # "newest"
  <2>1. phase' = "third" \/ (phase' = "done" /\ answer'.source = "edge")
    BY <1>4, <1>6
  <2>2. before.docs \subseteq Established
    BY <1>6 DEF ListInv, PackageRead
  <2> QED
    BY <1>1, <1>2, <2>1, <2>2 DEF ListInv, PackageRead, ReadsPackage, Established
<1>7. CASE ReadsPackage /\ phase' \in {"list", "newest"}
  <2>1. taken /\ (truncated \/ listed # {})
    BY <1>4, <1>7
  <2>2. /\ before.docs \subseteq Established /\ scan.listed \subseteq Established
        /\ scan.cursor \in Int
        /\ \A v \in before.docs : v <= scan.cursor => v \in scan.listed
    BY <1>1, <1>7 DEF ListInv, PackageRead
  <2>3. page \subseteq After(scan.cursor) /\ After(scan.cursor) \subseteq Established
    BY DEF Pages, After
  <2>4. Established \subseteq Nat
    BY VersionAssumption DEF Established
  <2>5. \A v \in before.docs : v \in scan.listed \/ v \in After(scan.cursor)
    <3> SUFFICES ASSUME NEW v \in before.docs, v \notin scan.listed
                 PROVE  v \in After(scan.cursor)
      OBVIOUS
    <3>1. v \in Established /\ v \in Nat /\ ~(v <= scan.cursor)
      BY <2>2, <2>4
    <3>2. v > scan.cursor
      BY <2>2, <3>1
    <3> QED
      BY <3>1, <3>2 DEF After
  <2>6. scan'.listed = listed /\ listed \subseteq Established
        /\ scan'.cursor = IF page = {} THEN scan.cursor ELSE NextCursor(page)
    BY <2>1, <2>2, <2>3
  <2>7. CASE truncated
    <3>1. /\ NextCursor(page) \in page
          /\ \A v \in After(scan.cursor) : v <= NextCursor(page) => v \in page
      BY <2>2, <2>7, PageEnds
    <3>2. scan'.cursor = NextCursor(page) /\ scan'.cursor \in Int /\ phase' = "list"
      <4>1. page # {} /\ NextCursor(page) \in Nat
        BY <2>3, <2>4, <3>1
      <4>2. scan'.cursor = NextCursor(page)
        BY <2>6, <4>1
      <4>3. phase' = "list"
        BY <2>1, <2>7
      <4> QED
        BY <4>1, <4>2, <4>3
    <3>3. \A v \in before.docs : v <= scan'.cursor => v \in scan'.listed
      BY <2>5, <2>6, <3>1, <3>2
    <3> QED
      BY <1>1, <1>2, <2>2, <2>6, <3>2, <3>3 DEF ListInv, PackageRead, ReadsPackage, Established
  <2>8. CASE ~truncated
    <3>1. phase' = "newest" /\ scan'.listed # {} /\ before.docs \subseteq scan'.listed
      BY <2>1, <2>5, <2>6, <2>8
    <3> QED
      BY <1>1, <1>2, <2>2, <2>6, <3>1 DEF ListInv, PackageRead, ReadsPackage, Established
  <2> QED
    BY <2>7, <2>8
<1> QED
  BY <1>4, <1>5, <1>6, <1>7

(* The newest document read last may be newer than those that were there    *)
(* when the read began, never older.                                        *)
LEMMA NewestListing ==
  ASSUME ListInv, ReadNewest
  PROVE  ListInv'
<1>1. /\ phase = "newest"
      /\ UNCHANGED <<request, found, before, clock, docs, objects>>
  BY DEF ReadNewest, bucket
<1>2. BucketOK' /\ DocsOK' /\ FoundOK'
  BY <1>1 DEF ListInv, BucketOK, DocsOK, FoundOK
<1>3. PICK v : v = Newest(scan.listed)
  OBVIOUS
<1>4. \/ phase' = "third"
      \/ phase' = "done" /\ answer'.source = "edge"
      \/ /\ phase' = "done"
         /\ answer'.content = [latest |-> v, versions |-> scan.listed]
  BY <1>3 DEF ReadNewest, AnswerUnlessWithheld, AskThirdParties, Withheld, Problem, Answer, Goto
<1>5. ASSUME ReadsPackage
      PROVE  /\ before.docs \subseteq scan.listed /\ scan.listed \subseteq Established
             /\ v \in scan.listed
             /\ \A w \in scan.listed : docs[w].uploaded <= docs[v].uploaded
  <2>1. /\ scan.listed # {} /\ scan.listed \in SUBSET Established
        /\ before.docs \subseteq scan.listed
    BY <1>1, <1>5 DEF ListInv, PackageRead
  <2>2. DocsOK
    BY DEF ListInv
  <2> QED
    BY <1>3, <2>1, <2>2, NewestExists
<1>6. PackageRead'
  <2> SUFFICES ASSUME ReadsPackage'
               PROVE  /\ phase' \in {"third", "done"}
                      /\ before.docs \subseteq Established
                      /\ (phase' = "done" /\ answer'.source = "edge-r2") => Honest'
    BY <1>1 DEF PackageRead, Established
  <2>1. ReadsPackage
    BY <1>1 DEF ReadsPackage
  <2>2. CASE phase' = "third" \/ (phase' = "done" /\ answer'.source = "edge")
    BY <1>5, <2>1, <2>2
  <2>3. CASE phase' = "done" /\ answer'.content = [latest |-> v, versions |-> scan.listed]
    <3>1. answer'.content.latest = v /\ answer'.content.versions = scan.listed
      BY <2>3
    <3>2. Honest'
      BY <1>1, <1>5, <2>1, <3>1 DEF Honest, Established
    <3> QED
      BY <1>5, <2>1, <2>3, <3>2
  <2> QED
    BY <1>4, <2>2, <2>3
<1> QED
  BY <1>2, <1>6 DEF ListInv

(* What third parties say is never taken for the bucket's word.             *)
LEMMA FallbackSources ==
  ASSUME FoundOK, FallbackStep
  PROVE  FoundOK'
<1> USE DEF Move, Find, FindListing, Download, StartGithub, Follow, FoundOK
<1>1. CASE NativeMetadata
  BY <1>1 DEF NativeMetadata
<1>2. CASE NativeBytes \/ NativeGivesUp \/ Redirect
  BY <1>2 DEF NativeBytes, NativeGivesUp, Redirect
<1>3. CASE SidecarFromCdn \/ SidecarFromGithub \/ SidecarArrives \/ SidecarMissing
  BY <1>3 DEF SidecarFromCdn, SidecarFromGithub, SidecarArrives, SidecarMissing, FindSidecar,
              NextSidecar
<1>4. CASE FeedFound \/ FeedMissing \/ PublicGithubRepo \/ PackageFromGithub
  BY <1>4 DEF FeedFound, FeedMissing, PublicGithubRepo, PackageFromGithub
<1>5. CASE \/ VersionFromGithub \/ ReleaseSidecarRefused \/ ReleaseSidecarArrives
          \/ IsGithubAssetResponseThrows \/ ReleaseMissing \/ GithubGivesUp
  BY <1>5 DEF VersionFromGithub, ReleaseSidecarRefused, ReleaseSidecarArrives,
              IsGithubAssetResponseThrows, ReleaseMissing, GithubGivesUp, TakeArtifact, NextRelease
<1>6. CASE StartMirror \/ MirrorMissing
  BY <1>6 DEF StartMirror, MirrorMissing
<1>7. CASE MirrorArrives
  <2>1. found'.source = IF world.native # None THEN "native" ELSE "github"
    BY <1>7 DEF MirrorArrives
  <2> QED
    BY <2>1
<1> QED
  BY <1>1, <1>2, <1>3, <1>4, <1>5, <1>6, <1>7 DEF FallbackStep

LEMMA ThirdListing ==
  ASSUME ListInv, ThirdParty \/ Conclude
  PROVE  ListInv'
<1>1. /\ phase = "third"
      /\ UNCHANGED <<request, before, clock, docs, objects>>
  BY FallbackKeepsRequest DEF ThirdParty, Conclude, readVars, bucket, reader
<1>2. BucketOK' /\ DocsOK'
  BY <1>1 DEF ListInv, BucketOK, DocsOK
<1>3. FoundOK'
  BY FallbackSources DEF ThirdParty, Conclude, ListInv, FoundOK
<1>4. phase' = "third" \/ (phase' = "done" /\ answer'.source # "edge-r2")
  <2>1. CASE ThirdParty
    BY <1>1, <2>1 DEF ThirdParty, readVars
  <2>2. CASE Conclude
    BY <2>2 DEF Conclude, Problem, Answer, ListInv, FoundOK
  <2> QED
    BY <2>1, <2>2
<1>5. PackageRead'
  BY <1>1, <1>4 DEF ListInv, PackageRead, ReadsPackage, Established
<1> QED
  BY <1>2, <1>3, <1>5 DEF ListInv

LEMMA BucketFailsListing ==
  ASSUME ListInv, BucketFails
  PROVE  ListInv'
<1>1. /\ phase # "idle" /\ phase' = "third"
      /\ UNCHANGED <<request, found, before, clock, docs, objects>>
  BY DEF BucketFails, AskThirdParties, Goto, bucket
<1>2. BucketOK' /\ DocsOK' /\ FoundOK'
  BY <1>1 DEF ListInv, BucketOK, DocsOK, FoundOK
<1>3. PackageRead'
  BY <1>1 DEF ListInv, PackageRead, ReadsPackage, Established
<1> QED
  BY <1>2, <1>3 DEF ListInv

(* The other steps are those of other reads.                                *)
LEMMA OtherListing ==
  ASSUME ListInv,
         ReadDocument \/ CdnRead \/ CdnBucketFails \/ CdnArtifact \/ CdnArtifactFails
  PROVE  ListInv'
<1>1. /\ phase \in {"document", "cdn", "tarball", "zip"}
      /\ UNCHANGED <<request, found, clock, docs, objects>>
  BY DEF ReadDocument, CdnRead, CdnBucketFails, CdnArtifact, CdnArtifactFails, bucket, fallback
<1>2. BucketOK' /\ DocsOK' /\ FoundOK'
  BY <1>1 DEF ListInv, BucketOK, DocsOK, FoundOK
<1>3. ~ReadsPackage
  BY <1>1 DEF ListInv, PackageRead
<1>4. PackageRead'
  BY <1>1, <1>3 DEF PackageRead, ReadsPackage
<1> QED
  BY <1>2, <1>4 DEF ListInv

LEMMA ListStep == ServedInv /\ ListInv /\ [Next]_vars => ListInv'
<1> SUFFICES ASSUME ServedInv, ListInv, [Next]_vars
             PROVE  ListInv'
  OBVIOUS
<1>1. CASE Publishing
  BY <1>1, PublishingStep, PublishingKeepsListing DEF ServedInv
<1>2. ASSUME NEW r \in Request, Receive(r)
      PROVE  ListInv'
  BY <1>2, ReceiveListing
<1>3. CASE TryOrigin
  BY <1>3, OriginListing
<1>4. CASE ListPage
  BY <1>4, PageListing
<1>5. CASE ReadNewest
  BY <1>5, NewestListing
<1>6. CASE ThirdParty \/ Conclude
  BY <1>6, ThirdListing
<1>7. CASE BucketFails
  BY <1>7, BucketFailsListing
<1>8. CASE ReadDocument \/ CdnRead \/ CdnBucketFails \/ CdnArtifact \/ CdnArtifactFails
  BY <1>8, OtherListing
<1>9. CASE UNCHANGED vars
  BY <1>9 DEF vars, readVars, fallback, bucket, reader, ListInv, BucketOK, DocsOK, FoundOK,
              PackageRead, ReadsPackage, Honest, Established
<1> QED
  BY <1>1, <1>2, <1>3, <1>4, <1>5, <1>6, <1>7, <1>8, <1>9 DEF Next, ReadStep

(* A listing read while publishes go on names all that was there before,    *)
(* nothing that is not, and a latest that is not older than any of it.      *)
THEOREM ListingIsHonest == Spec => []ListingHonest
<1>1. ListInv => ListingHonest
  BY DEF ListInv, PackageRead, ReadsPackage, Honest, ListingHonest, Answered
<1> QED
  BY <1>1, ServedInit, ListInit, ServedStep, ListStep, PTL DEF Spec
=============================================================================
