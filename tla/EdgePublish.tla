---------------------------- MODULE EdgePublish ----------------------------
(***************************************************************************)
(* Publishing a package version through the registry edge                  *)
(* (workers/registry-proxy/src/index.js, workers/shared/edge-publish.js,   *)
(* workers/shared/ghcr.js).  Each PUT is an invocation of the Worker: it   *)
(* asks the origin whether it is up, and either forwards the body to it or *)
(* publishes at the edge: admission checks, then the artifact object, then *)
(* the version document with If-None-Match: *, then a best-effort mirror   *)
(* to GitHub Packages.  Invocations interleave at every await; any of them *)
(* may be cut off there.  A client's retry is one more invocation with the *)
(* same payload, possibly while the first still runs.                      *)
(***************************************************************************)
EXTENDS Naturals

CONSTANTS Invocation,     \* PUT requests handled by the Worker
          Coord,          \* coordinates: org/name@version
          Taggable,       \* coordinates whose version is a legal OCI tag
          Digest,         \* byte strings, each named by its SHA-256
          Payload,        \* the requests clients can send (see PayloadType)
          EdgeEnabled,    \* edgePublishEnabled(env)
          MirrorEnabled,  \* env.GITHUB_PACKAGES_TOKEN is set
          None            \* an absent object, record, tag or payload

Format == {"", "tgz", "zip", "rar"}

BodyDefect == {"no_length", "declared_too_long", "not_multipart", "overrun",
               "unparsable", "short", "parts", "big_meta", "not_json"}
MetaDefect == {"meta_fields"}
FileDefect == {"empty", "too_large", "size_mismatch", "unroutable"}

(* A request: the URL's coordinate, whether the bearer matches the operator *)
(* token, what the meta part declares, the artifact bytes, and at most one  *)
(* further defect of the body ("not_json" covers a meta part that is no     *)
(* object or names no package).  sha256 is the declared digest; public says *)
(* that nothing in the meta part withholds public visibility.               *)
PayloadType == [coord: Coord, token: BOOLEAN, metaCoord: Coord, public: BOOLEAN,
                sha256: Digest, format: Format, bytes: Digest,
                defect: {"none"} \cup BodyDefect \cup MetaDefect \cup FileDefect]

ASSUME PayloadAssumption == Payload \subseteq PayloadType
ASSUME TaggableAssumption == Taggable \subseteq Coord
ASSUME SwitchAssumption == EdgeEnabled \in BOOLEAN /\ MirrorEnabled \in BOOLEAN

VARIABLES originUp,   \* is the zed-api-server origin answering?
          originDb,   \* the versions the origin has recorded
          objects,    \* R2: artifacts/<sha256>.<ext> -> bytes
          docs,       \* R2: metadata/<org>/<name>/versions/<version>.json
          blobs,      \* GHCR: uploaded layers
          tags,       \* GHCR: version tag -> layer digest
          payload,    \* what each invocation was sent
          phase,      \* where each invocation stands
          home,       \* who got its body: the origin or the edge
          reply       \* the HTTP status it answered with, 0 before that

bucket == <<objects, docs>>
ghcr == <<blobs, tags>>
origin == <<originUp, originDb>>
vars == <<originUp, originDb, objects, docs, blobs, tags, payload, phase, home, reply>>

Running == {"probe", "forward", "admit", "store", "claim", "mirror", "layer", "tag"}
Phase == {"idle", "done", "aborted"} \cup Running

ExtensionVerbatim(f) == IF f = "rar" THEN "none" ELSE f   \* variant: no ".tar.gz"
Extension(f) == IF f = "zip" THEN "zip" ELSE IF f = "rar" THEN "none" ELSE "tar.gz"
ArtifactKey == [sha256: Digest, ext: {"tar.gz", "zip", "none"}]
KeyOf(p) == [sha256 |-> p.bytes, ext |-> Extension(p.format)]

(* The version document: digest, download URL (its extension) and, standing *)
(* for the fields only this upload has, the invocation that put it.         *)
Document == [sha256: Digest, url: ArtifactKey, by: Invocation]
ASSUME NoneAssumption == /\ None \notin Digest \cup {"origin", "edge"}
                         /\ None \notin PayloadType
                         /\ None \notin Document

BuildVersionMetadataWithTarGz(i) ==   \* variant: the URL ignores the format
  LET p == payload[i] IN [sha256 |-> p.bytes, by |-> i,
                          url |-> [sha256 |-> p.bytes, ext |-> "tar.gz"]]
BuildVersionMetadata(i) ==
  LET p == payload[i] IN [sha256 |-> p.bytes, url |-> KeyOf(p), by |-> i]

Admitted == 0

(* handleEdgePublish's checks in their order: the status of the first one   *)
(* that fails, or Admitted.                                                 *)
BodyStatus(defect) == IF defect = "no_length" THEN 411
                      ELSE IF defect \in {"declared_too_long", "overrun", "big_meta"} THEN 413
                      ELSE 400

(* validatePublishMeta: the URL is the authority, only public packages.     *)
MetaRefusedAnyVisibility(p) ==   \* variant: visibility is not looked at
  p.metaCoord # p.coord \/ p.defect \in MetaDefect \/ Extension(p.format) = "none"
MetaRefused(p) == \/ p.metaCoord # p.coord
                  \/ ~p.public
                  \/ p.defect \in MetaDefect
                  \/ Extension(p.format) = "none"

RefusalTrustingDigest(p) ==   \* variant: the declared digest is not recomputed
  IF ~EdgeEnabled THEN 503
  ELSE IF ~p.token THEN 401
  ELSE IF p.defect \in BodyDefect THEN BodyStatus(p.defect)
  ELSE IF MetaRefused(p) \/ p.defect = "empty" THEN 422
  ELSE IF p.defect = "too_large" THEN 413
  ELSE IF p.defect = "size_mismatch" THEN 422
  ELSE Admitted
Refusal(p) ==
  IF ~EdgeEnabled THEN 503
  ELSE IF ~p.token THEN 401
  ELSE IF p.defect \in BodyDefect THEN BodyStatus(p.defect)
  ELSE IF MetaRefused(p) \/ p.defect = "empty" THEN 422
  ELSE IF p.defect = "too_large" THEN 413
  ELSE IF p.bytes # p.sha256 \/ p.defect = "size_mismatch" THEN 422
  ELSE IF p.defect = "unroutable" THEN 400
  ELSE Admitted

Init == /\ originUp \in BOOLEAN
        /\ originDb = [c \in Coord |-> None]
        /\ objects = [k \in ArtifactKey |-> None]
        /\ docs = [c \in Coord |-> None]
        /\ blobs = {}
        /\ tags = [c \in Coord |-> None]
        /\ payload = [i \in Invocation |-> None]
        /\ phase = [i \in Invocation |-> "idle"]
        /\ home = [i \in Invocation |-> None]
        /\ reply = [i \in Invocation |-> 0]

Goto(i, ph) == phase' = [phase EXCEPT ![i] = ph]

Answer(i, status) == /\ Goto(i, "done")
                     /\ reply' = [reply EXCEPT ![i] = status]

-----------------------------------------------------------------------------
(* Routing: who gets the body.                                              *)

Receive(i) ==
  /\ phase[i] = "idle"
  /\ payload' \in {[payload EXCEPT ![i] = p] : p \in Payload}
  /\ IF EdgeEnabled
     THEN Goto(i, "probe") /\ UNCHANGED home
     ELSE Goto(i, "forward") /\ home' = [home EXCEPT ![i] = "origin"]
  /\ UNCHANGED <<origin, bucket, ghcr, reply>>

(* The bodiless GET /healthz.  An origin that is down never answers it in   *)
(* time; one that is up may still miss the 4 s timeout.                     *)
Probe(i) ==
  /\ phase[i] = "probe"
  /\ \/ /\ originUp
        /\ Goto(i, "forward")
        /\ home' = [home EXCEPT ![i] = "origin"]
     \/ /\ Goto(i, "admit")
        /\ home' = [home EXCEPT ![i] = "edge"]
  /\ UNCHANGED <<origin, bucket, ghcr, payload, reply>>

(* The origin is external: it validates, records a version once, answers    *)
(* 201, 409 or 422, and the answer may come too late for the Worker.        *)
OriginAdmits(p) == p.metaCoord = p.coord /\ p.bytes = p.sha256 /\ p.defect = "none"

OriginFresh(p) == OriginAdmits(p) /\ originDb[p.coord] = None
OriginStatus(p) == IF OriginFresh(p) THEN 201 ELSE IF OriginAdmits(p) THEN 409 ELSE 422

OriginHandles(i) ==
  /\ phase[i] = "forward"
  /\ originUp
  /\ originDb' = IF OriginFresh(payload[i])
                 THEN [originDb EXCEPT ![payload[i].coord] = payload[i].sha256]
                 ELSE originDb
  /\ \E s \in {OriginStatus(payload[i]), 503} : Answer(i, s)
  /\ UNCHANGED <<originUp, bucket, ghcr, payload, home>>

(* The body is spent: a publish the origin did not take is a 503, never an  *)
(* edge publish.                                                            *)
OriginUnavailable(i) ==
  /\ phase[i] = "forward"
  /\ Answer(i, 503)
  /\ UNCHANGED <<origin, bucket, ghcr, payload, home>>

OriginFails == /\ originUp
               /\ originUp' = FALSE
               /\ UNCHANGED <<originDb, bucket, ghcr, payload, phase, home, reply>>

OriginRecovers == /\ ~originUp
                  /\ originUp' = TRUE
                  /\ UNCHANGED <<originDb, bucket, ghcr, payload, phase, home, reply>>

-----------------------------------------------------------------------------
(* handleEdgePublish: one step per await that touches the bucket.           *)

Admit(i) ==
  /\ phase[i] = "admit"
  /\ IF Refusal(payload[i]) = Admitted
     THEN Goto(i, "store") /\ UNCHANGED reply
     ELSE Answer(i, Refusal(payload[i]))
  /\ UNCHANGED <<origin, bucket, ghcr, payload, home>>

PutArtifactAsTarGz(i) ==   \* variant: the key ignores the format
  objects' = [objects EXCEPT ![[KeyOf(payload[i]) EXCEPT !.ext = "tar.gz"]] = payload[i].bytes]
PutArtifact(i) == objects' = [objects EXCEPT ![KeyOf(payload[i])] = payload[i].bytes]

StoreArtifact(i) ==
  /\ phase[i] = "store"
  /\ PutArtifact(i)
  /\ Goto(i, "claim")
  /\ UNCHANGED <<origin, docs, ghcr, payload, home, reply>>

(* A put that throws leaves it open whether the object was written.         *)
StoreThrows(i) ==
  /\ phase[i] = "store"
  /\ PutArtifact(i) \/ UNCHANGED objects
  /\ Answer(i, 500)
  /\ UNCHANGED <<origin, docs, ghcr, payload, home>>

PutVersionUnconditionally(i) ==   \* variant: no If-None-Match
  docs' = [docs EXCEPT ![payload[i].coord] = BuildVersionMetadata(i)]
PutVersion(i) ==
  /\ docs[payload[i].coord] = None
  /\ docs' = [docs EXCEPT ![payload[i].coord] = BuildVersionMetadata(i)]

ClaimVersion(i) ==
  /\ phase[i] = "claim"
  /\ PutVersion(i)
  /\ Goto(i, "mirror")
  /\ UNCHANGED <<origin, objects, ghcr, payload, home, reply>>

VersionTakenAfterMirror(i) ==   \* variant: the loser's bytes are mirrored too
  /\ phase[i] = "claim"
  /\ docs[payload[i].coord] # None
  /\ Goto(i, "mirror")
  /\ UNCHANGED <<origin, bucket, ghcr, payload, home, reply>>

VersionTakenTriesAgain(i) ==   \* variant: a failed claim is repeated
  /\ phase[i] = "claim"
  /\ docs[payload[i].coord] # None
  /\ UNCHANGED vars

VersionTaken(i) ==
  /\ phase[i] = "claim"
  /\ docs[payload[i].coord] # None
  /\ Answer(i, 409)
  /\ UNCHANGED <<origin, bucket, ghcr, payload, home>>

ClaimThrows(i) ==
  /\ phase[i] = "claim"
  /\ PutVersion(i) \/ UNCHANGED docs
  /\ Answer(i, 500)
  /\ UNCHANGED <<origin, objects, ghcr, payload, home>>

-----------------------------------------------------------------------------
(* mirrorToGhcr: token and config blob, layer blob, manifest under the      *)
(* version tag.  Whatever fails, the publish is answered 201.               *)

StartMirror(i) ==
  /\ phase[i] = "mirror"
  /\ MirrorEnabled
  /\ payload[i].coord \in Taggable
  /\ Goto(i, "layer")
  /\ UNCHANGED <<origin, bucket, ghcr, payload, home, reply>>

UploadLayer(i) ==
  /\ phase[i] = "layer"
  /\ blobs' = blobs \cup {payload[i].bytes}
  /\ Goto(i, "tag")
  /\ UNCHANGED <<origin, bucket, tags, payload, home, reply>>

PutManifest(i) ==
  /\ phase[i] = "tag"
  /\ tags' = [tags EXCEPT ![payload[i].coord] = payload[i].bytes]
  /\ Answer(i, 201)
  /\ UNCHANGED <<origin, bucket, blobs, payload, home>>

MirrorGivesUp(i) ==
  /\ phase[i] \in {"mirror", "layer", "tag"}
  /\ Answer(i, 201)
  /\ UNCHANGED <<origin, bucket, ghcr, payload, home>>

(* The isolate is evicted, or the client goes away: no answer.              *)
Abort(i) ==
  /\ phase[i] \in Running
  /\ Goto(i, "aborted")
  /\ UNCHANGED <<origin, bucket, ghcr, payload, home, reply>>

-----------------------------------------------------------------------------
(* Steps that resolve by themselves: the origin fetches carry a timeout,    *)
(* the bucket's promises settle.  Those to GHCR carry no timeout.           *)
Progress(i) == \/ Probe(i) \/ OriginHandles(i) \/ OriginUnavailable(i)
               \/ Admit(i) \/ StoreArtifact(i) \/ ClaimVersion(i) \/ VersionTaken(i)

Next == \/ OriginFails \/ OriginRecovers
        \/ \E i \in Invocation :
             \/ Receive(i) \/ Probe(i) \/ OriginHandles(i) \/ OriginUnavailable(i)
             \/ Admit(i) \/ StoreArtifact(i) \/ StoreThrows(i)
             \/ ClaimVersion(i) \/ VersionTaken(i) \/ ClaimThrows(i)
             \/ StartMirror(i) \/ UploadLayer(i) \/ PutManifest(i) \/ MirrorGivesUp(i)
             \/ Abort(i)

Spec == Init /\ [][Next]_vars
FairSpec == Spec /\ \A i \in Invocation : WF_vars(Progress(i))

-----------------------------------------------------------------------------
TypeOK ==
  /\ originUp \in BOOLEAN
  /\ originDb \in [Coord -> Digest \cup {None}]
  /\ objects \in [ArtifactKey -> Digest \cup {None}]
  /\ docs \in [Coord -> Document \cup {None}]
  /\ blobs \subseteq Digest
  /\ tags \in [Coord -> Digest \cup {None}]
  /\ payload \in [Invocation -> Payload \cup {None}]
  /\ phase \in [Invocation -> Phase]
  /\ home \in [Invocation -> {"origin", "edge", None}]
  /\ reply \in [Invocation -> {0, 201, 400, 401, 409, 411, 413, 422, 500, 503}]

ToldByEdge(i, status) == home[i] = "edge" /\ phase[i] = "done" /\ reply[i] = status

(* Whatever was cut off or failed in between, a version document never      *)
(* advertises bytes the bucket does not hold: the object its download URL   *)
(* names exists and hashes to the document's digest.                        *)
AdvertisedBytesExist ==
  \A c \in Coord : docs[c] # None =>
    /\ objects[docs[c].url] = docs[c].sha256
    /\ docs[c].url.sha256 = docs[c].sha256

(* A publisher that was told 201 by the edge still finds its own document   *)
(* at its coordinate, so no two of them were told 201 for one coordinate.   *)
CreatedIsServed ==
  \A i \in Invocation : ToldByEdge(i, 201) =>
    /\ docs[payload[i].coord] = BuildVersionMetadata(i)
    /\ payload[i].sha256 = docs[payload[i].coord].sha256

(* Everything the edge made public was vouched for: by a request with the   *)
(* operator token, declared public, for exactly that coordinate, whose      *)
(* declared digest is the digest of the stored bytes.                       *)
Vouches(i, c, d) == /\ payload[i] # None
                    /\ payload[i].token /\ payload[i].public
                    /\ payload[i].coord = c /\ payload[i].metaCoord = c
                    /\ payload[i].sha256 = d /\ payload[i].bytes = d
PublicationVouched ==
  /\ \A c \in Coord : docs[c] # None => Vouches(docs[c].by, c, docs[c].sha256)
  /\ \A k \in ArtifactKey : objects[k] # None =>
       \E i \in Invocation : Vouches(i, payload[i].coord, objects[k])

(* The copy on GitHub Packages never contradicts the bucket: a tag's layer  *)
(* was uploaded, and it is the artifact of the version document, even when  *)
(* several publishers raced for the coordinate.                             *)
MirrorAgreesWithBucket ==
  \A c \in Coord : tags[c] # None =>
    /\ tags[c] \in blobs
    /\ docs[c] # None
    /\ docs[c].sha256 = tags[c]

(* Versions are immutable: once there, neither a version document nor an    *)
(* artifact object ever changes or disappears.                              *)
VersionsImmutable ==
  [][/\ \A c \in Coord : docs[c] # None => docs'[c] = docs[c]
     /\ \A k \in ArtifactKey : objects[k] # None => objects'[k] = objects[k]]_vars

(* The bucket's documents and the edge's answers implement the write-once   *)
(* registry.                                                                *)
Outcome(i) ==
  IF ToldByEdge(i, 201) THEN [status |-> "created", coord |-> payload[i].coord]
  ELSE IF ToldByEdge(i, 409) THEN [status |-> "conflict", coord |-> payload[i].coord]
  ELSE None
Registry == INSTANCE WriteOnceRegistry
              WITH Publisher <- Invocation, Record <- Document, published <- docs,
                   outcome <- [i \in Invocation |-> Outcome(i)]
WriteOnce == Registry!Spec

(* A publish is answered, or cut off, or waits on GitHub Packages: the      *)
(* origin's and the bucket's part never leaves a client hanging.            *)
AnsweredUnlessMirroring ==
  \A i \in Invocation :
    phase[i] \in Running ~> phase[i] \in {"done", "aborted", "mirror", "layer", "tag"}

(* edge-publish.js: "of any number of concurrent publishes of one           *)
(* coordinate exactly one establishes it and the rest get 409".             *)
OneCreatedPerCoordinate ==
  \A i, j \in Invocation :
    (/\ i # j
     /\ phase[i] = "done" /\ reply[i] = 201
     /\ phase[j] = "done" /\ reply[j] = 201) => payload[i].coord # payload[j].coord
=============================================================================
