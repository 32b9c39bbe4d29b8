---------------------------- MODULE RegistryRead ----------------------------
(***************************************************************************)
(* Reading the registry and the CDN (workers/registry-proxy/src/index.js,  *)
(* workers/cdn-proxy/src/index.js, workers/shared/edge-publish.js) while   *)
(* publishing goes on.  A registry read asks the origin, then the bucket's *)
(* version documents, then third parties (PublicFallback); bytes come from *)
(* the CDN, which reads the same bucket.  Publishing is the write-once     *)
(* registry that EdgePublish implements: a document appears once, after    *)
(* the object it names.  Readers share nothing, so one stands for all.     *)
(***************************************************************************)
EXTENDS PublicFallback, FiniteSets

CONSTANTS Candidate,     \* the documents that may be published, by version
          Request,       \* the requests a client may send (see RequestType)
          PageSize,      \* objects per page of a listing, at most
          MaxPages,      \* MAX_METADATA_LIST_PAGES
          MaxObjects,    \* MAX_METADATA_LIST_OBJECTS
          MaxClock,      \* bound on the upload clock
          MaxMarks       \* bound on restrictions put on objects

ArtifactKey == [sha256: Digest, ext: {"tar.gz", "zip"}]

(* A version document: where its bytes are, whether its body withholds      *)
(* public visibility, whether it is within the reader's size limit.         *)
Content == [url: ArtifactKey, private: BOOLEAN, fits: BOOLEAN]
Document == [url: ArtifactKey, private: BOOLEAN, fits: BOOLEAN, uploaded: 0..MaxClock]

Route == {"unknown", "healthz", "search", "artifact", "package", "version", "yank",
          "cdn_object", "cdn_document", "cdn_release"}
Method == {"GET", "OPTIONS", "PUT", "POST"}

(* odd: a name the router takes and parseRegistryPath does not.             *)
RequestType == [route: Route, method: Method, odd: BOOLEAN,
                version: Version, key: ArtifactKey]

ASSUME VersionAssumption == Version \subseteq Nat
ASSUME CandidateAssumption == \A v \in Version : Candidate[v] \subseteq Content
ASSUME RequestAssumption == Request \subseteq RequestType /\ None \notin RequestType
ASSUME LimitAssumption == /\ {PageSize, MaxPages, MaxObjects} \subseteq Nat \ {0}
                          /\ {MaxClock, MaxMarks} \subseteq Nat
                          /\ MaxPages <= MaxObjects

VARIABLES clock,          \* upload time
          docs,           \* metadata/<org>/<name>/versions/<version>.json
          objects,        \* artifacts/<sha256>.<ext>
          markedDocs,     \* documents marked non-public in customMetadata
          markedObjects,  \* artifacts marked so
          phase,          \* where the read stands
          originSaid,     \* the origin's status for this read, 0 for none
          scan,           \* the listing in progress
          clean,          \* no bucket call of this read has failed
          before,         \* what the bucket held when the read began
          answer          \* status, source and content, None before that

bucket == <<clock, docs, objects, markedDocs, markedObjects>>
reader == <<originSaid, scan, before>>
readVars == <<bucket, phase, originSaid, scan, clean, before, answer>>
vars == <<world, request, fallback, readVars>>

Phase == {"idle", "origin", "document", "list", "newest", "tarball", "zip", "cdn",
          "third", "done"}
NoScan == [pages |-> 0, cursor |-> -1, listed |-> {}]

-----------------------------------------------------------------------------
(* Publishing, by the origin or the edge: each document appears once.       *)

Registry == INSTANCE WriteOnceRegistry
              WITH Publisher <- {}, Coord <- Version, Record <- Document,
                   published <- docs, outcome <- <<>>

Upload(k) == /\ k \notin objects
             /\ objects' = objects \cup {k}
             /\ UNCHANGED <<clock, docs, markedDocs, markedObjects>>

Establish(v, c) ==
  /\ c.url \in objects
  /\ Registry!Establish(v, [url |-> c.url, private |-> c.private, fits |-> c.fits,
                            uploaded |-> clock])
  /\ UNCHANGED <<clock, objects, markedDocs, markedObjects>>

Tick == /\ clock < MaxClock
        /\ clock' = clock + 1
        /\ UNCHANGED <<docs, objects, markedDocs, markedObjects>>

(* An operator withdraws an object from the public edge.                    *)
Mark == /\ Cardinality(markedDocs) + Cardinality(markedObjects) < MaxMarks
        /\ \/ \E v \in Version \ markedDocs :
                /\ docs[v] # None
                /\ markedDocs' = markedDocs \cup {v}
                /\ UNCHANGED markedObjects
           \/ \E k \in objects \ markedObjects :
                /\ markedObjects' = markedObjects \cup {k}
                /\ UNCHANGED markedDocs
        /\ UNCHANGED <<clock, docs, objects>>

Publishing == /\ \/ Tick \/ Mark
                 \/ \E v \in Version : \E c \in Candidate[v] : Upload(c.url) \/ Establish(v, c)
              /\ UNCHANGED <<world, request, fallback, phase, originSaid, scan, clean,
                             before, answer>>

Established == {v \in Version : docs[v] # None}

-----------------------------------------------------------------------------
(* The router decides before any network call.                              *)

Methods == [unknown |-> {}, healthz |-> {"GET"}, search |-> {"GET"}, artifact |-> {"GET"},
            package |-> {"GET"}, version |-> {"GET", "PUT"}, yank |-> {"POST"}]

ClassifyRegistryRequest(r) ==
  IF r.route = "unknown" THEN "deny_route"
  ELSE IF r.method = "OPTIONS" THEN "preflight"
  ELSE IF r.method \notin Methods[r.route] THEN "deny_method"
  ELSE IF r.route = "healthz" THEN "health"
  ELSE IF r.method # "GET" THEN "origin_write"
  ELSE IF r.route \in {"package", "version"} THEN "fallback_read"
  ELSE "origin_read"

Answer(status, source, content) ==
  /\ phase' = "done"
  /\ answer' = [status |-> status, source |-> source, content |-> content]

Problem(status) == Answer(status, "edge", None)
Goto(ph) == phase' = ph /\ UNCHANGED answer

OwnAnswer == [deny_route |-> 404, deny_method |-> 405, preflight |-> 204]
CdnRoute == {"cdn_object", "cdn_document", "cdn_release"}

(* What the bucket held of what r asks for, when it was asked.              *)
Snapshot(r) ==
  LET asked == CASE r.route = "package" -> Version
                 [] r.route = "version" -> {r.version}
                 [] r.route = "cdn_object" -> {v \in Established : docs[v].url = r.key}
                 [] OTHER -> {}
  IN [docs |-> asked \cap Established, markedDocs |-> asked \cap markedDocs,
      objects |-> IF r.route = "artifact" THEN {k \in objects : k.sha256 = r.key.sha256} ELSE {}]

Receive(r) ==
  /\ phase \in {"idle", "done"}
  /\ request' = r
  /\ before' = Snapshot(r)
  /\ originSaid' = 0 /\ scan' = NoScan /\ clean' = TRUE
  /\ found' = None /\ attempt' = 1 /\ at' = Nowhere /\ hops' = 0
  /\ step' = IF r.route = "cdn_release" THEN "mirror" ELSE "off"
  /\ IF r.route \in CdnRoute
     THEN phase' = (IF r.route = "cdn_release" THEN "third" ELSE "cdn") /\ answer' = None
     ELSE IF ClassifyRegistryRequest(r) \in DOMAIN OwnAnswer
     THEN Problem(OwnAnswer[ClassifyRegistryRequest(r)])
     ELSE phase' = "origin" /\ answer' = None
  /\ UNCHANGED <<world, bucket>>

-----------------------------------------------------------------------------
(* The origin: it answers within the timeout or not at all (0).             *)

OriginStatus == {0, 200, 404, 500, 503}
OriginIsUnavailable(s) == s \in {0, 503}

FinalAlways(s, action) == TRUE   \* variant: an available origin's 404 is final
Final(s, action) == s # 404 \/ action # "fallback_read"

AfterOrigin(s) ==
  LET action == ClassifyRegistryRequest(request)
      available == ~OriginIsUnavailable(s)
  IN IF action = "health" /\ s # 200 THEN Answer(200, "edge-fallback", None)
     ELSE IF available /\ Final(s, action) THEN Answer(s, "origin", None)
     ELSE IF action = "fallback_read" /\ request.odd THEN Problem(500)
     ELSE IF request.route = "version" /\ action = "fallback_read" THEN Goto("document")
     ELSE IF request.route = "package" THEN Goto("list")
     ELSE IF request.route = "artifact" THEN Goto("tarball")
     ELSE Problem(503)

TryOrigin == /\ phase = "origin"
             /\ \E s \in OriginStatus : originSaid' = s /\ AfterOrigin(s)
             /\ UNCHANGED <<world, request, fallback, bucket, scan, clean, before>>

-----------------------------------------------------------------------------
(* The bucket: one version document, or the listing derived from all.       *)

AskThirdParties == /\ Goto("third")
                   /\ step' = "native"

Withheld == /\ Problem(404)
            /\ UNCHANGED step

Public(v) == v \notin markedDocs /\ ~docs[v].private

(* readJsonObject: a document that withholds public visibility is terminal, *)
(* one that cannot be read counts as absent.                                *)
AnswerUnlessWithheldMarkOnly(v, content) ==   \* variant: the body's visibility is not looked at
  IF docs[v] = None THEN AskThirdParties
  ELSE IF v \in markedDocs THEN Withheld
  ELSE IF ~docs[v].fits THEN AskThirdParties
  ELSE /\ Answer(200, "edge-r2", content)
       /\ UNCHANGED step
AnswerUnlessWithheld(v, content) ==
  IF docs[v] = None THEN AskThirdParties
  ELSE IF v \in markedDocs \/ (docs[v].fits /\ docs[v].private) THEN Withheld
  ELSE IF ~docs[v].fits THEN AskThirdParties
  ELSE /\ Answer(200, "edge-r2", content)
       /\ UNCHANGED step

ReadDocument ==
  /\ phase = "document"
  /\ AnswerUnlessWithheld(request.version, docs[request.version])
  /\ UNCHANGED <<world, request, chase, found, bucket, originSaid, scan, clean, before>>

(* One page of the listing: some of the keys after the cursor, in order.    *)
(* A page may be shorter than the limit.                                    *)
After(cursor) == {v \in Established : v > cursor}
Pages(cursor) == {P \in SUBSET After(cursor) :
                    /\ Cardinality(P) <= PageSize
                    /\ P # {} \/ After(cursor) = {}
                    /\ \A v \in P, w \in After(cursor) \ P : v < w}

ScanGivesUpBySize(page, truncated) ==   \* variant: the pages are not counted
  Cardinality(scan.listed \cup page) > MaxObjects
ScanGivesUp(page, truncated) ==
  \/ Cardinality(scan.listed \cup page) > MaxObjects
  \/ truncated /\ scan.pages + 1 >= MaxPages

NextCursor(page) == CHOOSE v \in page : \A w \in page : w <= v

TakePageStopping(page) ==   \* variant: a page at the limit ends the listing
  LET truncated == After(scan.cursor) # page
      listed == scan.listed \cup page
  IN IF page \cap markedDocs # {} THEN Withheld /\ scan' = NoScan
     ELSE IF ~truncated /\ listed = {} THEN AskThirdParties /\ scan' = NoScan
     ELSE /\ scan' = [pages |-> scan.pages + 1, listed |-> listed,
                      cursor |-> IF page = {} THEN scan.cursor ELSE NextCursor(page)]
          /\ Goto(IF truncated /\ scan.pages + 1 < MaxPages THEN "list" ELSE "newest")
          /\ UNCHANGED step
TakePage(page) ==
  LET truncated == After(scan.cursor) # page
      listed == scan.listed \cup page
  IN IF page \cap markedDocs # {} THEN Withheld /\ scan' = NoScan
     ELSE IF ScanGivesUp(page, truncated) \/ (~truncated /\ listed = {})
     THEN AskThirdParties /\ scan' = NoScan
     ELSE /\ scan' = [pages |-> scan.pages + 1, listed |-> listed,
                      cursor |-> IF page = {} THEN scan.cursor ELSE NextCursor(page)]
          /\ Goto(IF truncated THEN "list" ELSE "newest")
          /\ UNCHANGED step

ListPage ==
  /\ phase = "list"
  /\ \E page \in Pages(scan.cursor) : TakePage(page)
  /\ UNCHANGED <<world, request, chase, found, bucket, originSaid, clean, before>>

(* Newest upload first; the sort is stable, so ties keep key order.         *)
Newest(S) == CHOOSE v \in S : \A w \in S \ {v} :
               \/ docs[w].uploaded < docs[v].uploaded
               \/ docs[w].uploaded = docs[v].uploaded /\ v < w

ReadNewest ==
  /\ phase = "newest"
  /\ LET v == Newest(scan.listed) IN
       AnswerUnlessWithheld(v, [latest |-> v, versions |-> scan.listed])
  /\ scan' = NoScan
  /\ UNCHANGED <<world, request, chase, found, bucket, originSaid, clean, before>>

(* A bucket call that throws, or answers malformed, counts as an absence.   *)
BucketFails ==
  /\ phase \in {"document", "list", "newest"}
  /\ clean' = FALSE
  /\ AskThirdParties
  /\ scan' = NoScan
  /\ UNCHANGED <<world, request, chase, found, bucket, originSaid, before>>

-----------------------------------------------------------------------------
(* The CDN: one object by its key, withheld like an absent one if marked.   *)

GetR2(k) == k \in objects /\ k \notin markedObjects

ServeObject(k) == IF GetR2(k) THEN Answer(200, "cdn", k) ELSE Problem(404)

CdnRead ==
  /\ phase = "cdn"
  /\ IF request.route = "cdn_object" THEN ServeObject(request.key)
     ELSE LET v == request.version IN
          IF docs[v] # None /\ v \notin markedDocs
          THEN Answer(200, "cdn", docs[v]) ELSE Problem(404)
  /\ UNCHANGED <<world, request, fallback, bucket, reader, clean>>

(* A bucket that throws is told to the client as an absent object.          *)
CdnBucketFails ==
  /\ phase = "cdn"
  /\ clean' = FALSE
  /\ Problem(404)
  /\ UNCHANGED <<world, request, fallback, bucket, reader>>

(* cdnArtifact: with the origin down, bytes are asked of the CDN by digest, *)
(* in the one format and then in the other.                                 *)
KeyTried == [sha256 |-> request.key.sha256,
             ext |-> IF phase = "tarball" THEN "tar.gz" ELSE "zip"]

NoOtherFormat == Problem(503)   \* variant: only tar.gz is asked for
NextFormat == IF phase = "tarball" THEN Goto("zip") ELSE Problem(503)

CdnArtifact ==
  /\ phase \in {"tarball", "zip"}
  /\ IF GetR2(KeyTried) THEN Answer(200, "cdn", KeyTried) ELSE NextFormat
  /\ UNCHANGED <<world, request, fallback, bucket, reader, clean>>

(* The bucket throws in the CDN (a 404), or the CDN's binding does.         *)
CdnArtifactFails ==
  /\ phase \in {"tarball", "zip"}
  /\ clean' = FALSE
  /\ NextFormat \/ Problem(503)
  /\ UNCHANGED <<world, request, fallback, bucket, reader>>

-----------------------------------------------------------------------------
(* Third parties: PublicFallback's steps, then its answer, or the origin's. *)

ThirdParty == /\ phase = "third"
              /\ FallbackStep
              /\ UNCHANGED readVars

Conclude ==
  /\ phase = "third" /\ step = "over"
  /\ IF found # None THEN Answer(200, found.source, found.url)
     ELSE IF request.route = "cdn_release" THEN Problem(404)
     ELSE IF OriginIsUnavailable(originSaid) THEN Problem(503)
     ELSE Answer(originSaid, "origin", None)
  /\ step' = "off" /\ found' = None
  /\ UNCHANGED <<world, request, chase, bucket, reader, clean>>

-----------------------------------------------------------------------------
Init == /\ InitFallback
        /\ request = None
        /\ clock = 0
        /\ docs = [v \in Version |-> None]
        /\ objects = {} /\ markedDocs = {} /\ markedObjects = {}
        /\ phase = "idle"
        /\ originSaid = 0
        /\ scan = NoScan
        /\ clean = TRUE
        /\ before = [docs |-> {}, markedDocs |-> {}, objects |-> {}]
        /\ answer = None

(* Every call of a read settles: fetches carry timeouts, the bucket's       *)
(* promises resolve or reject.                                              *)
ReadStep == \/ TryOrigin \/ ReadDocument \/ ListPage \/ ReadNewest
            \/ BucketFails \/ CdnRead \/ CdnBucketFails \/ CdnArtifact \/ CdnArtifactFails
            \/ ThirdParty \/ Conclude

Next == Publishing \/ ReadStep \/ \E r \in Request : Receive(r)

Spec == Init /\ [][Next]_vars
FairSpec == Spec /\ WF_vars(ReadStep)

-----------------------------------------------------------------------------
TypeOK ==
  /\ FallbackTypeOK
  /\ request \in Request \cup {None}
  /\ clock \in 0..MaxClock
  /\ docs \in [Version -> Document \cup {None}]
  /\ objects \subseteq ArtifactKey /\ markedObjects \subseteq objects
  /\ markedDocs \subseteq Established
  /\ phase \in Phase
  /\ originSaid \in OriginStatus
  /\ scan.pages \in 0..MaxPages /\ scan.listed \subseteq Established
  /\ clean \in BOOLEAN
  /\ before.docs \subseteq Established /\ before.objects \subseteq objects

Answered(route) == phase = "done" /\ request.route = route /\ request.method = "GET" /\ ~request.odd
FromEdge == answer.source \in {"origin", "edge-r2"} /\ ~(answer.source = "origin" /\ answer.status = 404)

(* registry-proxy: "so they are consulted before third-party registries and *)
(* before guessing at GitHub".  A version that was readable in the bucket   *)
(* when the read began, and still is, is never answered by a third party,   *)
(* nor as missing, unless a bucket call failed; nor is a package, if no     *)
(* limit of the scan can have been met.                                     *)
PublishedNeverGuessed ==
  /\ (Answered("version") /\ clean /\ request.version \in before.docs
        /\ Public(request.version) /\ docs[request.version].fits) => FromEdge
  /\ (Answered("package") /\ clean /\ before.docs # {}
        /\ Cardinality(Established) <= MaxPages
        /\ \A v \in Established : Public(v) /\ docs[v].fits) => FromEdge

(* "A restriction is terminal, not an invitation to guess a public mirror": *)
(* a version, or a package with a version, that was marked when the read    *)
(* began, or whose document withholds visibility, is answered by the origin *)
(* or as missing, unless a bucket call failed.                              *)
RestrictionIsTerminal ==
  /\ (Answered("version") /\ clean /\ request.version \in before.docs
        /\ \/ request.version \in before.markedDocs
           \/ docs[request.version].private /\ docs[request.version].fits)
       => answer.source = "origin" \/ answer.status = 404
  /\ (Answered("package") /\ clean /\ before.markedDocs # {}
        /\ Cardinality(Established) <= MaxPages)
       => answer.source = "origin" \/ answer.status = 404

(* A listing made while publishes go on names every version established     *)
(* before the read began and no other than established ones; latest is none *)
(* that was older than another of those.  A package too large to scan is    *)
(* never listed in part.                                                    *)
ListingHonest ==
  (Answered("package") /\ answer.source = "edge-r2") =>
    /\ before.docs \subseteq answer.content.versions
    /\ answer.content.versions \subseteq Established
    /\ answer.content.latest \in answer.content.versions
    /\ \A v \in before.docs : docs[v].uploaded <= docs[answer.content.latest].uploaded

(* An install goes through whatever the origin does: the URL of any version *)
(* document is served by the CDN from then on, and bytes stored before the  *)
(* read are found by their digest with the origin down, in whichever        *)
(* format, unless they were marked or a bucket call failed.                 *)
AdvertisedBytesServed ==
  /\ (Answered("cdn_object") /\ clean /\ before.docs # {} /\ request.key \notin markedObjects)
       => answer.status = 200
  /\ (Answered("artifact") /\ clean /\ OriginIsUnavailable(originSaid)
        /\ before.objects \ markedObjects # {})
       => answer.status = 200 /\ answer.content.sha256 = request.key.sha256

(* Whatever upstreams do, redirect loops included, every read is answered.  *)
ReadAnswered == phase \notin {"idle", "done"} ~> phase = "done"
=============================================================================
