------------------------- MODULE EdgePublishProofs -------------------------
(***************************************************************************)
(* What EdgePublish guarantees for every set of invocations, coordinates,  *)
(* contents and requests.                                                  *)
(***************************************************************************)
EXTENDS EdgePublish, TLAPS

(* An admitted request carried the operator token, was public, named its    *)
(* own coordinate and declared the digest of its bytes.                     *)
LEMMA AdmittedRequest ==
  ASSUME NEW p, Refusal(p) = Admitted
  PROVE  /\ EdgeEnabled /\ p.token /\ p.public
         /\ p.metaCoord = p.coord /\ p.bytes = p.sha256
BY DEF Refusal, Admitted, BodyStatus, MetaRefused

(* The statuses the admission checks answer with.                           *)
LEMMA RefusalStatus ==
  ASSUME NEW p
  PROVE  Refusal(p) \in {0, 400, 401, 411, 413, 422, 503}
BY DEF Refusal, Admitted, BodyStatus

(* Every request has typed fields, a typed object key, and is not None.     *)
LEMMA PayloadTyped ==
  ASSUME NEW p \in Payload
  PROVE  /\ p # None
         /\ p.coord \in Coord /\ p.bytes \in Digest /\ p.sha256 \in Digest
         /\ KeyOf(p) \in ArtifactKey
         /\ KeyOf(p).sha256 = p.bytes
<1>1. p \in PayloadType
  BY PayloadAssumption
<1>2. Extension(p.format) \in {"tar.gz", "zip", "none"}
  BY DEF Extension
<1> QED
  BY <1>1, <1>2, NoneAssumption DEF PayloadType, KeyOf, ArtifactKey

(* An invocation that left "idle" holds a request.                          *)
Started == \A i \in Invocation : phase[i] # "idle" => payload[i] \in Payload

TypeInv == TypeOK /\ Started

LEMMA TypeInit == Init => TypeInv
BY DEF Init, TypeInv, TypeOK, Started, Phase

LEMMA TypeStep == TypeInv /\ [Next]_vars => TypeInv'
<1> SUFFICES ASSUME TypeInv, [Next]_vars
             PROVE  TypeInv'
  OBVIOUS
<1> USE DEF TypeInv, TypeOK, Started, Phase, Running
<1>1. ASSUME NEW i \in Invocation, Receive(i)
      PROVE  TypeInv'
  <2>1. PICK p \in Payload : payload' = [payload EXCEPT ![i] = p]
    BY <1>1 DEF Receive
  <2> QED
    BY <1>1, <2>1 DEF Receive, Goto, origin, bucket, ghcr
<1>2. ASSUME NEW i \in Invocation, Probe(i)
      PROVE  TypeInv'
  BY <1>2 DEF Probe, Goto, origin, bucket, ghcr
<1>3. ASSUME NEW i \in Invocation, OriginHandles(i)
      PROVE  TypeInv'
  <2>1. payload[i] \in Payload
    BY <1>3 DEF OriginHandles
  <2>2. payload[i].sha256 \in Digest
    BY <2>1, PayloadTyped
  <2>3. PICK s \in {201, 409, 422, 503} : Answer(i, s)
    BY <1>3 DEF OriginHandles, OriginStatus
  <2>4. originDb' \in [Coord -> Digest \cup {None}]
    BY <1>3, <2>2 DEF OriginHandles
  <2>5. UNCHANGED <<objects, docs, blobs, tags, payload, home>>
    BY <1>3 DEF OriginHandles, bucket, ghcr
  <2>6. /\ phase' = [phase EXCEPT ![i] = "done"]
        /\ reply' = [reply EXCEPT ![i] = s]
    BY <2>3 DEF Answer, Goto
  <2>7. phase' \in [Invocation -> Phase]
    BY <2>6
  <2>8. reply' \in [Invocation -> {0, 201, 400, 401, 409, 411, 413, 422, 500, 503}]
    BY <2>6
  <2>9. Started'
    BY <2>1, <2>5, <2>6
  <2>10. originUp' \in BOOLEAN
    BY <1>3, Zenon DEF OriginHandles
  <2> QED
    BY <2>4, <2>5, <2>7, <2>8, <2>9, <2>10
<1>4. ASSUME NEW i \in Invocation, OriginUnavailable(i)
      PROVE  TypeInv'
  BY <1>4 DEF OriginUnavailable, Answer, Goto, origin, bucket, ghcr
<1>5. ASSUME OriginFails \/ OriginRecovers
      PROVE  TypeInv'
  <2>1. originUp' \in BOOLEAN
    BY <1>5, Zenon DEF OriginFails, OriginRecovers
  <2>2. UNCHANGED <<originDb, objects, docs, blobs, tags, payload, phase, home, reply>>
    BY <1>5 DEF OriginFails, OriginRecovers, bucket, ghcr
  <2> QED
    BY <2>1, <2>2
<1>6. ASSUME NEW i \in Invocation, Admit(i)
      PROVE  TypeInv'
  BY <1>6, RefusalStatus DEF Admit, Answer, Goto, origin, bucket, ghcr
<1>7. ASSUME NEW i \in Invocation, StoreArtifact(i) \/ StoreThrows(i)
      PROVE  TypeInv'
  <2>1. payload[i] \in Payload
    BY <1>7 DEF StoreArtifact, StoreThrows
  <2>2. payload[i].bytes \in Digest /\ KeyOf(payload[i]) \in ArtifactKey
    BY <2>1, PayloadTyped
  <2> QED
    BY <1>7, <2>1, <2>2
    DEF StoreArtifact, StoreThrows, PutArtifact, Answer, Goto, origin, ghcr
<1>8. ASSUME NEW i \in Invocation, ClaimVersion(i) \/ ClaimThrows(i)
      PROVE  TypeInv'
  <2>1. payload[i] \in Payload
    BY <1>8 DEF ClaimVersion, ClaimThrows
  <2>2. BuildVersionMetadata(i) \in Document
    BY <2>1, PayloadTyped DEF BuildVersionMetadata, Document
  <2> QED
    BY <1>8, <2>1, <2>2
    DEF ClaimVersion, ClaimThrows, PutVersion, Answer, Goto, origin, ghcr
<1>9. ASSUME NEW i \in Invocation, VersionTaken(i)
      PROVE  TypeInv'
  BY <1>9 DEF VersionTaken, Answer, Goto, origin, bucket, ghcr
<1>10. ASSUME NEW i \in Invocation, StartMirror(i)
       PROVE  TypeInv'
  BY <1>10 DEF StartMirror, Goto, origin, bucket, ghcr
<1>11. ASSUME NEW i \in Invocation, UploadLayer(i)
       PROVE  TypeInv'
  BY <1>11, PayloadTyped DEF UploadLayer, Goto, origin, bucket
<1>12. ASSUME NEW i \in Invocation, PutManifest(i)
       PROVE  TypeInv'
  BY <1>12, PayloadTyped DEF PutManifest, Answer, Goto, origin, bucket
<1>13. ASSUME NEW i \in Invocation, MirrorGivesUp(i)
       PROVE  TypeInv'
  BY <1>13 DEF MirrorGivesUp, Answer, Goto, origin, bucket, ghcr
<1>14. ASSUME NEW i \in Invocation, Abort(i)
       PROVE  TypeInv'
  BY <1>14 DEF Abort, Goto, origin, bucket, ghcr
<1>15. CASE UNCHANGED vars
  BY <1>15 DEF vars
<1> QED
  BY <1>1, <1>2, <1>3, <1>4, <1>5, <1>6, <1>7, <1>8, <1>9, <1>10, <1>11,
     <1>12, <1>13, <1>14, <1>15 DEF Next

(* Every reachable state is well typed.                                     *)
THEOREM TypeCorrect == Spec => []TypeOK
<1>1. TypeInv => TypeOK
  BY DEF TypeInv
<1> QED
  BY <1>1, TypeInit, TypeStep, PTL DEF Spec

-----------------------------------------------------------------------------
(* The inductive invariant.  An invocation that passed the checks keeps an  *)
(* admitted request; one that stored its artifact finds it; one that        *)
(* claimed its version still owns the document; a document belongs to an    *)
(* invocation that got that far.                                            *)
OnEdge == {"admit", "store", "claim", "mirror", "layer", "tag"}
Owners == {"mirror", "layer", "tag"}

HomeInv == \A i \in Invocation :
             /\ phase[i] \in OnEdge => home[i] = "edge"
             /\ phase[i] = "forward" => home[i] = "origin"

AdmittedInv == \A i \in Invocation :
                 (phase[i] \in OnEdge \ {"admit"} \/ ToldByEdge(i, 201))
                   => Refusal(payload[i]) = Admitted

StoredInv == \A i \in Invocation :
               phase[i] \in {"claim", "mirror", "layer", "tag"}
                 => objects[KeyOf(payload[i])] = payload[i].bytes

ObjectInv == \A k \in ArtifactKey : objects[k] # None =>
               /\ objects[k] = k.sha256
               /\ \E i \in Invocation : /\ phase[i] # "idle"
                                        /\ Refusal(payload[i]) = Admitted
                                        /\ payload[i].bytes = objects[k]

DocInv == \A c \in Coord : docs[c] # None =>
            \E i \in Invocation :
              /\ phase[i] \in Owners \cup {"done", "aborted"}
              /\ ~ToldByEdge(i, 409)
              /\ docs[c] = BuildVersionMetadata(i)
              /\ payload[i].coord = c
              /\ Refusal(payload[i]) = Admitted
              /\ objects[KeyOf(payload[i])] = payload[i].bytes

ClaimInv == \A i \in Invocation :
              (phase[i] \in Owners \/ ToldByEdge(i, 201))
                => docs[payload[i].coord] = BuildVersionMetadata(i)

TakenInv == \A i \in Invocation :
              ToldByEdge(i, 409) => docs[payload[i].coord] # None

MirrorInv == /\ \A i \in Invocation : phase[i] = "tag" => payload[i].bytes \in blobs
             /\ MirrorAgreesWithBucket

IndInv == /\ TypeInv /\ HomeInv /\ AdmittedInv /\ StoredInv /\ ObjectInv
          /\ DocInv /\ ClaimInv /\ TakenInv /\ MirrorInv

LEMMA IndInit == Init => IndInv
BY TypeInit DEF Init, IndInv, HomeInv, AdmittedInv, StoredInv, ObjectInv, DocInv,
   ClaimInv,
   TakenInv, MirrorInv, MirrorAgreesWithBucket, OnEdge, Owners, ToldByEdge

LEMMA IndStep == IndInv /\ [Next]_vars => IndInv'
<1> SUFFICES ASSUME IndInv, [Next]_vars
             PROVE  IndInv'
  OBVIOUS
<1>0. TypeInv'
  BY TypeStep DEF IndInv
<1> USE DEF IndInv, TypeInv, TypeOK, Started
<1>1. ASSUME NEW i \in Invocation, Receive(i)
      PROVE  IndInv'
  <2>1. HomeInv' /\ AdmittedInv' /\ StoredInv' /\ TakenInv'
    BY <1>0, <1>1, PayloadTyped DEF Receive, Goto, origin, bucket, ghcr,
       HomeInv, AdmittedInv, StoredInv, TakenInv, OnEdge, ToldByEdge
  <2>2. ObjectInv' /\ MirrorInv'
    BY <1>0, <1>1, PayloadTyped DEF Receive, Goto, origin, bucket, ghcr,
       HomeInv, ObjectInv, MirrorInv, MirrorAgreesWithBucket
  <2>3. DocInv'
    BY <1>0, <1>1, PayloadTyped DEF Receive, Goto, origin, bucket, ghcr,
       HomeInv, DocInv, Owners, ToldByEdge, BuildVersionMetadata
  <2>4. ClaimInv'
    BY <1>0, <1>1, PayloadTyped DEF Receive, Goto, origin, bucket, ghcr,
       HomeInv, ClaimInv, Owners, ToldByEdge, BuildVersionMetadata
  <2> QED
    BY <1>0, <2>1, <2>2, <2>3, <2>4
<1>2. ASSUME NEW i \in Invocation, Probe(i)
      PROVE  IndInv'
  <2>1. HomeInv' /\ AdmittedInv' /\ StoredInv' /\ TakenInv'
    BY <1>0, <1>2, PayloadTyped DEF Probe, Goto, origin, bucket, ghcr,
       HomeInv, AdmittedInv, StoredInv, TakenInv, OnEdge, ToldByEdge
  <2>2. ObjectInv' /\ DocInv' /\ ClaimInv' /\ MirrorInv'
    BY <1>0, <1>2, PayloadTyped DEF Probe, Goto, origin, bucket, ghcr,
       HomeInv, ObjectInv, DocInv, ClaimInv, MirrorInv, Owners, ToldByEdge,
       BuildVersionMetadata, MirrorAgreesWithBucket
  <2> QED
    BY <1>0, <2>1, <2>2
<1>3. ASSUME NEW i \in Invocation, OriginHandles(i)
      PROVE  IndInv'
  <2>1. HomeInv' /\ AdmittedInv' /\ StoredInv' /\ TakenInv'
    BY <1>0, <1>3, PayloadTyped DEF OriginHandles, Answer, Goto, bucket,
       ghcr, HomeInv, AdmittedInv, StoredInv, TakenInv, OnEdge, ToldByEdge
  <2>2. ObjectInv' /\ DocInv' /\ ClaimInv' /\ MirrorInv'
    BY <1>0, <1>3, PayloadTyped DEF OriginHandles, Answer, Goto, bucket,
       ghcr, HomeInv, ObjectInv, DocInv, ClaimInv, MirrorInv, Owners,
       ToldByEdge, BuildVersionMetadata, MirrorAgreesWithBucket
  <2> QED
    BY <1>0, <2>1, <2>2
<1>4. ASSUME NEW i \in Invocation, OriginUnavailable(i)
      PROVE  IndInv'
  <2>1. HomeInv' /\ AdmittedInv' /\ StoredInv' /\ TakenInv'
    BY <1>0, <1>4, PayloadTyped DEF OriginUnavailable, Answer, Goto, origin,
       bucket, ghcr, HomeInv, AdmittedInv, StoredInv, TakenInv, OnEdge,
       ToldByEdge
  <2>2. ObjectInv' /\ DocInv' /\ ClaimInv' /\ MirrorInv'
    BY <1>0, <1>4, PayloadTyped DEF OriginUnavailable, Answer, Goto, origin,
       bucket, ghcr, HomeInv, ObjectInv, DocInv, ClaimInv, MirrorInv,
       Owners, ToldByEdge, BuildVersionMetadata, MirrorAgreesWithBucket
  <2> QED
    BY <1>0, <2>1, <2>2
<1>5. ASSUME NEW i \in Invocation, Admit(i)
      PROVE  IndInv'
  <2>1. HomeInv' /\ AdmittedInv' /\ StoredInv' /\ TakenInv'
    BY <1>0, <1>5, PayloadTyped, RefusalStatus DEF Admit, Answer, Goto,
       origin, bucket, ghcr, HomeInv, AdmittedInv, StoredInv, TakenInv,
       OnEdge, ToldByEdge
  <2>2. ObjectInv' /\ DocInv' /\ ClaimInv' /\ MirrorInv'
    BY <1>0, <1>5, PayloadTyped, RefusalStatus DEF Admit, Answer, Goto,
       origin, bucket, ghcr, HomeInv, ObjectInv, DocInv, ClaimInv,
       MirrorInv, Owners, ToldByEdge, BuildVersionMetadata,
       MirrorAgreesWithBucket
  <2> QED
    BY <1>0, <2>1, <2>2
<1>6. ASSUME NEW i \in Invocation, StoreArtifact(i) \/ StoreThrows(i)
      PROVE  IndInv'
  <2>1. HomeInv' /\ AdmittedInv' /\ StoredInv' /\ TakenInv'
    BY <1>0, <1>6, PayloadTyped DEF StoreArtifact, StoreThrows, PutArtifact,
       Answer, Goto, origin, ghcr, HomeInv, AdmittedInv, StoredInv,
       TakenInv, OnEdge, ToldByEdge
  <2>2. DocInv' /\ ClaimInv' /\ MirrorInv'
    BY <1>0, <1>6, PayloadTyped DEF StoreArtifact, StoreThrows, PutArtifact,
       Answer, Goto, origin, ghcr, HomeInv, DocInv, ClaimInv, MirrorInv,
       Owners, ToldByEdge, BuildVersionMetadata, MirrorAgreesWithBucket
  <2>3. ObjectInv'
    <3> SUFFICES ASSUME NEW k \in ArtifactKey, objects'[k] # None
                 PROVE  /\ objects'[k] = k.sha256
                        /\ \E j \in Invocation :
                             /\ phase'[j] # "idle"
                             /\ Refusal(payload'[j]) = Admitted
                             /\ payload'[j].bytes = objects'[k]
      BY DEF ObjectInv
    <3>1. /\ payload' = payload
          /\ \A j \in Invocation : phase[j] # "idle" => phase'[j] # "idle"
          /\ phase[i] = "store" /\ Refusal(payload[i]) = Admitted
      BY <1>6 DEF StoreArtifact, StoreThrows, PutArtifact, Answer, Goto,
         origin, ghcr, AdmittedInv, OnEdge
    <3>2. CASE objects'[k] = objects[k]
      BY <3>1, <3>2 DEF ObjectInv
    <3>3. CASE k = KeyOf(payload[i]) /\ objects'[k] = payload[i].bytes
      BY <3>1, <3>3, PayloadTyped
    <3> QED
      BY <1>6, <3>2, <3>3 DEF StoreArtifact, StoreThrows, PutArtifact, Answer,
         Goto, origin, ghcr
  <2> QED
    BY <1>0, <2>1, <2>2, <2>3
<1>7. ASSUME NEW i \in Invocation, ClaimVersion(i) \/ ClaimThrows(i)
      PROVE  IndInv'
  <2>1. HomeInv' /\ AdmittedInv' /\ StoredInv' /\ TakenInv'
    BY <1>0, <1>7, PayloadTyped DEF ClaimVersion, ClaimThrows, PutVersion,
       Answer, Goto, origin, ghcr, HomeInv, AdmittedInv, StoredInv,
       TakenInv, OnEdge, ToldByEdge
  <2>2. ObjectInv' /\ MirrorInv'
    BY <1>0, <1>7, PayloadTyped DEF ClaimVersion, ClaimThrows, PutVersion,
       Answer, Goto, origin, ghcr, HomeInv, ObjectInv, MirrorInv,
       MirrorAgreesWithBucket
  <2>3. DocInv'
    <3>1. /\ payload' = payload /\ objects' = objects /\ home' = home
          /\ payload[i] \in Payload /\ Refusal(payload[i]) = Admitted
          /\ objects[KeyOf(payload[i])] = payload[i].bytes
          /\ phase'[i] \in Owners \cup {"done"} /\ ~ToldByEdge(i, 409)'
          /\ \A j \in Invocation \ {i} : phase'[j] = phase[j] /\ reply'[j] = reply[j]
      BY <1>7 DEF ClaimVersion, ClaimThrows, PutVersion, Answer, Goto, origin,
         ghcr, AdmittedInv, StoredInv, OnEdge, Owners, ToldByEdge
    <3> SUFFICES ASSUME NEW c \in Coord, docs'[c] # None
                 PROVE  \E j \in Invocation :
                          /\ phase'[j] \in Owners \cup {"done", "aborted"}
                          /\ ~ToldByEdge(j, 409)'
                          /\ docs'[c] = BuildVersionMetadata(j)'
                          /\ payload'[j].coord = c
                          /\ Refusal(payload'[j]) = Admitted
                          /\ objects'[KeyOf(payload'[j])] = payload'[j].bytes
      BY <3>1 DEF DocInv
    <3>2. CASE docs'[c] = docs[c]
      <4>1. PICK j \in Invocation :
              /\ phase[j] \in Owners \cup {"done", "aborted"}
              /\ ~ToldByEdge(j, 409)
              /\ docs[c] = BuildVersionMetadata(j)
              /\ payload[j].coord = c
              /\ Refusal(payload[j]) = Admitted
              /\ objects[KeyOf(payload[j])] = payload[j].bytes
        BY <3>2 DEF DocInv
      <4>2. j # i
        BY <1>7, <4>1 DEF ClaimVersion, ClaimThrows, PutVersion, Answer,
           Goto, origin, ghcr, Owners
      <4>3. BuildVersionMetadata(j)' = BuildVersionMetadata(j)
        BY <3>1 DEF BuildVersionMetadata
      <4>4. ~ToldByEdge(j, 409)'
        BY <3>1, <4>1, <4>2 DEF ToldByEdge
      <4>5. phase'[j] \in Owners \cup {"done", "aborted"}
        BY <3>1, <4>1, <4>2
      <4> QED
        BY <3>1, <3>2, <4>1, <4>3, <4>4, <4>5
    <3>3. CASE c = payload[i].coord /\ docs'[c] = BuildVersionMetadata(i)
      BY <3>1, <3>3 DEF BuildVersionMetadata
    <3> QED
      BY <1>7, <3>2, <3>3 DEF ClaimVersion, ClaimThrows, PutVersion, Answer,
         Goto, origin, ghcr
  <2>4. ClaimInv'
    <3>1. docs[payload[i].coord] = None \/ docs' = docs
      BY <1>7 DEF ClaimVersion, ClaimThrows, PutVersion, Answer, Goto, origin, ghcr
    <3>2. \A j \in Invocation : phase[j] # "idle" =>
            BuildVersionMetadata(j) # None
      BY PayloadTyped, NoneAssumption DEF BuildVersionMetadata, Document
    <3>3. \A j \in Invocation \ {i} :
            /\ payload'[j] = payload[j] /\ phase'[j] = phase[j]
            /\ ToldByEdge(j, 201)' = ToldByEdge(j, 201)
            /\ BuildVersionMetadata(j)' = BuildVersionMetadata(j)
      BY <1>7 DEF ClaimVersion, ClaimThrows, PutVersion, Answer, Goto, origin,
         ghcr, ToldByEdge, BuildVersionMetadata
    <3>4. ASSUME NEW j \in Invocation \ {i},
                 phase'[j] \in Owners \/ ToldByEdge(j, 201)'
          PROVE  docs'[payload'[j].coord] = BuildVersionMetadata(j)'
      <4>1. docs[payload[j].coord] = BuildVersionMetadata(j) /\ phase[j] # "idle"
        BY <3>3, <3>4 DEF ClaimInv, Owners, ToldByEdge
      <4>2. docs[payload[j].coord] # None
        BY <3>2, <4>1
      <4> QED
        BY <1>7, <3>3, <4>1, <4>2, PayloadTyped DEF ClaimVersion,
           ClaimThrows, PutVersion, Answer, Goto, origin, ghcr
    <3>5. (phase'[i] \in Owners \/ ToldByEdge(i, 201)')
            => docs'[payload'[i].coord] = BuildVersionMetadata(i)'
      BY <1>7, PayloadTyped DEF ClaimVersion, ClaimThrows, PutVersion, Answer,
         Goto, origin, ghcr, Owners, ToldByEdge, BuildVersionMetadata
    <3> QED
      BY <3>4, <3>5 DEF ClaimInv
  <2> QED
    BY <1>0, <2>1, <2>2, <2>3, <2>4
<1>8. ASSUME NEW i \in Invocation, VersionTaken(i)
      PROVE  IndInv'
  <2>1. HomeInv' /\ AdmittedInv' /\ StoredInv' /\ TakenInv'
    BY <1>0, <1>8, PayloadTyped DEF VersionTaken, Answer, Goto, origin,
       bucket, ghcr, HomeInv, AdmittedInv, StoredInv, TakenInv, OnEdge,
       ToldByEdge
  <2>2. ObjectInv' /\ DocInv' /\ ClaimInv' /\ MirrorInv'
    BY <1>0, <1>8, PayloadTyped DEF VersionTaken, Answer, Goto, origin,
       bucket, ghcr, HomeInv, ObjectInv, DocInv, ClaimInv, MirrorInv,
       Owners, ToldByEdge, BuildVersionMetadata, MirrorAgreesWithBucket
  <2> QED
    BY <1>0, <2>1, <2>2
<1>9. ASSUME NEW i \in Invocation, StartMirror(i)
      PROVE  IndInv'
  <2>1. HomeInv' /\ AdmittedInv' /\ StoredInv' /\ TakenInv'
    BY <1>0, <1>9, PayloadTyped DEF StartMirror, Goto, origin, bucket, ghcr,
       HomeInv, AdmittedInv, StoredInv, TakenInv, OnEdge, ToldByEdge
  <2>2. ObjectInv' /\ DocInv' /\ ClaimInv' /\ MirrorInv'
    BY <1>0, <1>9, PayloadTyped DEF StartMirror, Goto, origin, bucket, ghcr,
       HomeInv, ObjectInv, DocInv, ClaimInv, MirrorInv, Owners, ToldByEdge,
       BuildVersionMetadata, MirrorAgreesWithBucket
  <2> QED
    BY <1>0, <2>1, <2>2
<1>10. ASSUME NEW i \in Invocation, UploadLayer(i)
      PROVE  IndInv'
  <2>1. HomeInv' /\ AdmittedInv' /\ StoredInv' /\ TakenInv'
    BY <1>0, <1>10, PayloadTyped DEF UploadLayer, Goto, origin, bucket,
       HomeInv, AdmittedInv, StoredInv, TakenInv, OnEdge, ToldByEdge
  <2>2. ObjectInv' /\ DocInv' /\ ClaimInv' /\ MirrorInv'
    BY <1>0, <1>10, PayloadTyped DEF UploadLayer, Goto, origin, bucket,
       HomeInv, ObjectInv, DocInv, ClaimInv, MirrorInv, Owners, ToldByEdge,
       BuildVersionMetadata, MirrorAgreesWithBucket
  <2> QED
    BY <1>0, <2>1, <2>2
<1>11. ASSUME NEW i \in Invocation, PutManifest(i)
      PROVE  IndInv'
  <2>1. HomeInv' /\ AdmittedInv' /\ StoredInv' /\ TakenInv'
    BY <1>0, <1>11, PayloadTyped DEF PutManifest, Answer, Goto, origin,
       bucket, HomeInv, AdmittedInv, StoredInv, TakenInv, OnEdge, ToldByEdge
  <2>2. ObjectInv' /\ DocInv' /\ ClaimInv'
    BY <1>0, <1>11, PayloadTyped DEF PutManifest, Answer, Goto, origin,
       bucket, HomeInv, ObjectInv, DocInv, ClaimInv, Owners, ToldByEdge,
       BuildVersionMetadata
  <2>3. MirrorInv'
    <3>1. /\ docs[payload[i].coord] = BuildVersionMetadata(i)
          /\ BuildVersionMetadata(i) # None
          /\ payload[i].bytes \in blobs
      BY <1>11, PayloadTyped, NoneAssumption
      DEF PutManifest, Answer, Goto, origin, bucket, ClaimInv, Owners,
         MirrorInv, BuildVersionMetadata, Document
    <3>2. docs[payload[i].coord].sha256 = payload[i].bytes
      BY <3>1 DEF BuildVersionMetadata
    <3> QED
      BY <1>11, <3>1, <3>2 DEF PutManifest, Answer, Goto, origin, bucket,
         MirrorInv, MirrorAgreesWithBucket
  <2> QED
    BY <1>0, <2>1, <2>2, <2>3
<1>12. ASSUME NEW i \in Invocation, MirrorGivesUp(i)
      PROVE  IndInv'
  <2>1. HomeInv' /\ AdmittedInv' /\ StoredInv' /\ TakenInv'
    BY <1>0, <1>12, PayloadTyped DEF MirrorGivesUp, Answer, Goto, origin,
       bucket, ghcr, HomeInv, AdmittedInv, StoredInv, TakenInv, OnEdge,
       ToldByEdge
  <2>2. ObjectInv' /\ DocInv' /\ ClaimInv' /\ MirrorInv'
    BY <1>0, <1>12, PayloadTyped DEF MirrorGivesUp, Answer, Goto, origin,
       bucket, ghcr, HomeInv, ObjectInv, DocInv, ClaimInv, MirrorInv,
       Owners, ToldByEdge, BuildVersionMetadata, MirrorAgreesWithBucket
  <2> QED
    BY <1>0, <2>1, <2>2
<1>13. ASSUME NEW i \in Invocation, Abort(i)
      PROVE  IndInv'
  <2>1. HomeInv' /\ AdmittedInv' /\ StoredInv' /\ TakenInv'
    BY <1>0, <1>13, PayloadTyped DEF Abort, Goto, origin, bucket, ghcr,
       HomeInv, AdmittedInv, StoredInv, TakenInv, OnEdge, ToldByEdge
  <2>2. ObjectInv' /\ DocInv' /\ ClaimInv' /\ MirrorInv'
    BY <1>0, <1>13, PayloadTyped DEF Abort, Goto, origin, bucket, ghcr,
       HomeInv, ObjectInv, DocInv, ClaimInv, MirrorInv, Owners, ToldByEdge,
       BuildVersionMetadata, MirrorAgreesWithBucket
  <2> QED
    BY <1>0, <2>1, <2>2
<1>14. CASE OriginFails \/ OriginRecovers \/ UNCHANGED vars
  BY <1>0, <1>14 DEF OriginFails, OriginRecovers, vars, bucket, ghcr, HomeInv,
     AdmittedInv, StoredInv, ObjectInv, DocInv, ClaimInv,
     TakenInv, MirrorInv, MirrorAgreesWithBucket, ToldByEdge, BuildVersionMetadata
<1> QED
  BY <1>1, <1>2, <1>3, <1>4, <1>5, <1>6, <1>7, <1>8, <1>9, <1>10, <1>11, <1>12,
     <1>13, <1>14 DEF Next

-----------------------------------------------------------------------------
LEMMA Invariant == Spec => []IndInv
BY IndInit, IndStep, PTL DEF Spec

(* A version document never advertises bytes the bucket does not hold.      *)
THEOREM AdvertisedBytes == Spec => []AdvertisedBytesExist
<1>1. IndInv => AdvertisedBytesExist
  <2> SUFFICES ASSUME IndInv, NEW c \in Coord, docs[c] # None
               PROVE  /\ objects[docs[c].url] = docs[c].sha256
                      /\ docs[c].url.sha256 = docs[c].sha256
    BY DEF AdvertisedBytesExist
  <2>1. PICK i \in Invocation : /\ docs[c] = BuildVersionMetadata(i)
                                /\ objects[KeyOf(payload[i])] = payload[i].bytes
    BY DEF IndInv, DocInv
  <2> QED
    BY <2>1 DEF BuildVersionMetadata, KeyOf
<1> QED
  BY <1>1, Invariant, PTL

(* A publisher that was told 201 by the edge owns its coordinate for good.  *)
THEOREM CreatedServed == Spec => []CreatedIsServed
<1>1. IndInv => CreatedIsServed
  <2> SUFFICES ASSUME IndInv, NEW i \in Invocation, ToldByEdge(i, 201)
               PROVE  /\ docs[payload[i].coord] = BuildVersionMetadata(i)
                      /\ payload[i].sha256 = docs[payload[i].coord].sha256
    BY DEF CreatedIsServed
  <2>1. docs[payload[i].coord] = BuildVersionMetadata(i)
    BY DEF IndInv, ClaimInv
  <2>2. payload[i].bytes = payload[i].sha256
    BY AdmittedRequest DEF IndInv, AdmittedInv
  <2> QED
    BY <2>1, <2>2 DEF BuildVersionMetadata
<1> QED
  BY <1>1, Invariant, PTL

(* Nothing reaches the bucket that an authorized, public, consistent        *)
(* request did not declare.                                                 *)
THEOREM Vouched == Spec => []PublicationVouched
<1>1. IndInv => PublicationVouched
  <2> SUFFICES ASSUME IndInv PROVE PublicationVouched
    OBVIOUS
  <2>1. ASSUME NEW i \in Invocation, phase[i] # "idle", Refusal(payload[i]) = Admitted
        PROVE  Vouches(i, payload[i].coord, payload[i].bytes)
    BY <2>1, AdmittedRequest, PayloadTyped DEF IndInv, TypeInv, Started, Vouches
  <2>2. ASSUME NEW c \in Coord, docs[c] # None
        PROVE  Vouches(docs[c].by, c, docs[c].sha256)
    <3>1. PICK i \in Invocation : /\ phase[i] # "idle"
                                  /\ docs[c] = BuildVersionMetadata(i)
                                  /\ payload[i].coord = c
                                  /\ Refusal(payload[i]) = Admitted
      BY <2>2 DEF IndInv, DocInv, Owners
    <3>2. docs[c].by = i /\ docs[c].sha256 = payload[i].bytes
      BY <3>1 DEF BuildVersionMetadata
    <3> QED
      BY <2>1, <3>1, <3>2
  <2>3. ASSUME NEW k \in ArtifactKey, objects[k] # None
        PROVE  \E i \in Invocation : Vouches(i, payload[i].coord, objects[k])
    BY <2>1, <2>3 DEF IndInv, ObjectInv
  <2> QED
    BY <2>2, <2>3 DEF PublicationVouched
<1> QED
  BY <1>1, Invariant, PTL

(* The mirror never contradicts the bucket.                                 *)
THEOREM MirrorAgrees == Spec => []MirrorAgreesWithBucket
<1>1. IndInv => MirrorAgreesWithBucket
  BY DEF IndInv, MirrorInv
<1> QED
  BY <1>1, Invariant, PTL

(* What one step does to the documents: nothing, or one claim of a free     *)
(* coordinate.                                                              *)
LEMMA DocStep ==
  ASSUME IndInv, [Next]_vars
  PROVE  \/ docs' = docs
         \/ \E i \in Invocation : (ClaimVersion(i) \/ ClaimThrows(i)) /\ PutVersion(i)
BY DEF Next, vars, origin, bucket, ghcr, Receive, Probe, OriginHandles, OriginUnavailable,
   OriginFails, OriginRecovers, Admit, StoreArtifact, StoreThrows, ClaimVersion,
   VersionTaken, ClaimThrows, StartMirror, UploadLayer, PutManifest, MirrorGivesUp, Abort

(* What one step does to the artifacts: nothing, or one put.                *)
LEMMA ObjectStep ==
  ASSUME IndInv, [Next]_vars
  PROVE  \/ objects' = objects
         \/ \E i \in Invocation : phase[i] = "store" /\ PutArtifact(i)
BY DEF Next, vars, origin, bucket, ghcr, Receive, Probe, OriginHandles, OriginUnavailable,
   OriginFails, OriginRecovers, Admit, StoreArtifact, StoreThrows, ClaimVersion,
   VersionTaken, ClaimThrows, StartMirror, UploadLayer, PutManifest, MirrorGivesUp, Abort

(* Documents and artifact objects are immutable.                            *)
THEOREM Immutable == Spec => VersionsImmutable
<1>1. IndInv /\ [Next]_vars =>
        [/\ \A c \in Coord : docs[c] # None => docs'[c] = docs[c]
         /\ \A k \in ArtifactKey : objects[k] # None => objects'[k] = objects[k]]_vars
  <2> SUFFICES ASSUME IndInv, [Next]_vars
               PROVE  /\ \A c \in Coord : docs[c] # None => docs'[c] = docs[c]
                      /\ \A k \in ArtifactKey : objects[k] # None => objects'[k] = objects[k]
    OBVIOUS
  <2>1. ASSUME NEW c \in Coord, docs[c] # None PROVE docs'[c] = docs[c]
    BY <2>1, DocStep DEF PutVersion, IndInv, TypeInv, TypeOK
  <2>2. ASSUME NEW k \in ArtifactKey, objects[k] # None PROVE objects'[k] = objects[k]
    <3>1. objects[k] = k.sha256
      BY <2>2 DEF IndInv, ObjectInv
    <3>2. CASE objects' = objects
      BY <3>2
    <3>3. ASSUME NEW i \in Invocation, phase[i] = "store", PutArtifact(i)
          PROVE  objects'[k] = objects[k]
      <4>1. payload[i] \in Payload
        BY <3>3 DEF IndInv, TypeInv, Started
      <4>2. KeyOf(payload[i]).sha256 = payload[i].bytes
        BY <4>1, PayloadTyped
      <4> QED
        BY <3>1, <3>3, <4>2 DEF PutArtifact, IndInv, TypeInv, TypeOK
    <3> QED
      BY <3>2, <3>3, ObjectStep
  <2> QED
    BY <2>1, <2>2
<1> QED
  BY <1>1, Invariant, PTL DEF Spec, VersionsImmutable

-----------------------------------------------------------------------------
(* The refinement: outcomes change only with the answers.                   *)

(* A step of one invocation leaves what the others were told alone.         *)
LEMMA OthersKeepOutcome ==
  ASSUME TypeOK, NEW i \in Invocation,
         \/ Receive(i) \/ Probe(i) \/ OriginHandles(i) \/ OriginUnavailable(i)
         \/ Admit(i) \/ StoreArtifact(i) \/ StoreThrows(i)
         \/ ClaimVersion(i) \/ VersionTaken(i) \/ ClaimThrows(i)
         \/ StartMirror(i) \/ UploadLayer(i) \/ PutManifest(i) \/ MirrorGivesUp(i)
         \/ Abort(i)
  PROVE  \A j \in Invocation \ {i} : Outcome(j)' = Outcome(j)
<1>1. \A j \in Invocation \ {i} : /\ payload'[j] = payload[j] /\ phase'[j] = phase[j]
                                  /\ home'[j] = home[j] /\ reply'[j] = reply[j]
  BY DEF TypeOK, Receive, Probe, OriginHandles, OriginUnavailable, Admit, StoreArtifact,
     StoreThrows, ClaimVersion, VersionTaken, ClaimThrows, StartMirror, UploadLayer,
     PutManifest, MirrorGivesUp, Abort, Answer, Goto
<1> QED
  BY <1>1 DEF Outcome, ToldByEdge

(* A running invocation has been told nothing.                              *)
LEMMA RunningUntold ==
  ASSUME NEW i \in Invocation, phase[i] # "done"
  PROVE  Outcome(i) = None
BY DEF Outcome, ToldByEdge

(* The edge's documents and answers implement the write-once registry.      *)
THEOREM ImplementsWriteOnce == Spec => WriteOnce
<1>1. Init => Registry!Init
  BY DEF Init, Registry!Init, Outcome, ToldByEdge
<1>2. ASSUME IndInv, [Next]_vars
      PROVE  [Registry!Next]_(Registry!vars)
  <2>0. TypeOK /\ Started /\ HomeInv /\ ClaimInv /\ DocInv
    BY <1>2 DEF IndInv, TypeInv
  <2>1. ASSUME docs' = docs, \A j \in Invocation : Outcome(j)' = Outcome(j)
        PROVE  UNCHANGED Registry!vars
    BY <2>1 DEF Registry!vars
  <2>2. ASSUME NEW i \in Invocation, Outcome(i)' = Outcome(i), docs' = docs,
               \A j \in Invocation \ {i} : Outcome(j)' = Outcome(j)
        PROVE  UNCHANGED Registry!vars
    BY <2>1, <2>2
  <2>3. ASSUME NEW i \in Invocation,
               \/ Receive(i) \/ Probe(i) \/ StoreArtifact(i) \/ StoreThrows(i)
               \/ StartMirror(i) \/ UploadLayer(i) \/ Abort(i)
               \/ OriginHandles(i) \/ OriginUnavailable(i) \/ Admit(i)
        PROVE  UNCHANGED Registry!vars
    <3>1. docs' = docs
      BY <2>0, <2>3 DEF Receive, Probe, StoreArtifact, StoreThrows, StartMirror, UploadLayer,
         Abort, OriginHandles, OriginUnavailable, Admit, bucket
    <3>2. Outcome(i) = None
      BY <2>0, <2>3, RunningUntold
      DEF Receive, Probe, StoreArtifact, StoreThrows, StartMirror, UploadLayer, Abort,
          OriginHandles, OriginUnavailable, Admit, Running
    <3>3. ~ToldByEdge(i, 201)' /\ ~ToldByEdge(i, 409)'
      BY <2>0, <2>3, RefusalStatus
      DEF Receive, Probe, StoreArtifact, StoreThrows, StartMirror, UploadLayer, Abort,
          OriginHandles, OriginUnavailable, Admit, Answer, Goto, ToldByEdge, HomeInv, OnEdge,
          TypeOK
    <3>4. Outcome(i)' = None
      BY <3>3 DEF Outcome
    <3> QED
      BY <2>0, <2>2, <2>3, <3>1, <3>2, <3>4, OthersKeepOutcome
  <2>4. ASSUME NEW i \in Invocation, ClaimVersion(i) \/ ClaimThrows(i)
        PROVE  [Registry!Next]_(Registry!vars)
    <3>1. \A j \in Invocation : Outcome(j)' = Outcome(j)
      <4>1. Outcome(i) = None
        BY <2>0, <2>4, RunningUntold DEF ClaimVersion, ClaimThrows
      <4>2. ~ToldByEdge(i, 201)' /\ ~ToldByEdge(i, 409)'
        BY <2>0, <2>4 DEF ClaimVersion, ClaimThrows, Answer, Goto, ToldByEdge, TypeOK
      <4>3. Outcome(i)' = None
        BY <4>2 DEF Outcome
      <4> QED
        BY <2>0, <2>4, <4>1, <4>3, OthersKeepOutcome
    <3>2. CASE docs' = docs
      BY <2>1, <3>1, <3>2
    <3>3. CASE PutVersion(i)
      <4>1. payload[i].coord \in Coord /\ BuildVersionMetadata(i) \in Document
        BY <2>0, <2>4, PayloadTyped
        DEF ClaimVersion, ClaimThrows, Started, BuildVersionMetadata, Document
      <4>2. Registry!Establish(payload[i].coord, BuildVersionMetadata(i))
        BY <3>1, <3>3 DEF Registry!Establish, PutVersion
      <4> QED
        BY <4>1, <4>2 DEF Registry!Next
    <3> QED
      BY <2>0, <2>4, <3>2, <3>3 DEF ClaimVersion, ClaimThrows
  <2>5. ASSUME NEW i \in Invocation, VersionTaken(i)
        PROVE  Registry!Next
    <3> DEFINE c == payload[i].coord
    <3>1. phase[i] = "claim" /\ c \in Coord /\ docs' = docs /\ docs[c] # None
      BY <2>0, <2>5, PayloadTyped DEF VersionTaken, bucket, Started
    <3>2. docs[c].by # i
      <4>1. PICK j \in Invocation : /\ phase[j] \in Owners \cup {"done", "aborted"}
                                    /\ docs[c] = BuildVersionMetadata(j)
        BY <2>0, <3>1 DEF DocInv
      <4> QED
        BY <3>1, <4>1 DEF Owners, BuildVersionMetadata
    <3>3. Outcome(i) = None
      BY <3>1, RunningUntold
    <3>4. Outcome(i)' = [status |-> "conflict", coord |-> c]
      BY <2>0, <2>5 DEF VersionTaken, Answer, Goto, Outcome, ToldByEdge, HomeInv, OnEdge, TypeOK
    <3>5. Registry!Refuse(i, c)
      BY <2>0, <2>5, <3>1, <3>2, <3>3, <3>4, OthersKeepOutcome DEF Registry!Refuse
    <3> QED
      BY <3>1, <3>5 DEF Registry!Next
  <2>6. ASSUME NEW i \in Invocation, PutManifest(i) \/ MirrorGivesUp(i)
        PROVE  Registry!Next
    <3> DEFINE c == payload[i].coord
    <3>1. phase[i] \in Owners /\ docs' = docs /\ payload[i] \in Payload
      BY <2>0, <2>6 DEF PutManifest, MirrorGivesUp, bucket, Started, Owners
    <3>2. c \in Coord /\ docs[c] = BuildVersionMetadata(i)
      BY <2>0, <3>1, PayloadTyped DEF ClaimInv
    <3>3. docs[c] # None /\ docs[c].by = i
      BY <3>1, <3>2, PayloadTyped, NoneAssumption DEF BuildVersionMetadata, Document
    <3>4. Outcome(i) = None
      BY <3>1, RunningUntold DEF Owners
    <3>5. Outcome(i)' = [status |-> "created", coord |-> c]
      BY <2>0, <2>6, <3>1
      DEF PutManifest, MirrorGivesUp, Answer, Goto, Outcome, ToldByEdge, HomeInv, OnEdge,
          Owners, TypeOK
    <3>6. Registry!Acknowledge(i, c)
      BY <2>0, <2>6, <3>1, <3>3, <3>4, <3>5, OthersKeepOutcome DEF Registry!Acknowledge
    <3> QED
      BY <3>2, <3>6 DEF Registry!Next
  <2>7. CASE OriginFails \/ OriginRecovers \/ UNCHANGED vars
    BY <2>1, <2>7 DEF OriginFails, OriginRecovers, vars, bucket, Outcome, ToldByEdge
  <2> QED
    BY <1>2, <2>3, <2>4, <2>5, <2>6, <2>7 DEF Next
<1> QED
  BY <1>1, <1>2, Invariant, PTL DEF Spec, WriteOnce, Registry!Spec

-----------------------------------------------------------------------------
(* What edge-publish.js says of concurrent publishes, of the edge's own     *)
(* answers: one of a coordinate's publishers establishes it, and who is     *)
(* refused with 409 finds somebody else's document there.                   *)
OneWinner == \A i, j \in Invocation :
  ToldByEdge(i, 201) /\ ToldByEdge(j, 201) /\ i # j => payload[i].coord # payload[j].coord
LoserFindsAnother == \A i \in Invocation :
  ToldByEdge(i, 409) => docs[payload[i].coord] # None /\ docs[payload[i].coord].by # i

(* At the edge a coordinate is established by one publisher, and every      *)
(* other learns so; with the origin's answers this is not so                *)
(* (OneCreatedPerCoordinate).                                               *)
THEOREM EstablishedOnce == Spec => [](OneWinner /\ LoserFindsAnother)
<1>1. IndInv => OneWinner
  <2> SUFFICES ASSUME IndInv, NEW i \in Invocation, NEW j \in Invocation,
                      ToldByEdge(i, 201), ToldByEdge(j, 201), payload[i].coord = payload[j].coord
               PROVE  i = j
    BY DEF OneWinner
  <2>1. BuildVersionMetadata(i) = BuildVersionMetadata(j)
    BY DEF IndInv, ClaimInv
  <2> QED
    BY <2>1 DEF BuildVersionMetadata
<1>2. IndInv => LoserFindsAnother
  <2> SUFFICES ASSUME IndInv, NEW i \in Invocation, ToldByEdge(i, 409)
               PROVE  docs[payload[i].coord] # None /\ docs[payload[i].coord].by # i
    BY DEF LoserFindsAnother
  <2>1. docs[payload[i].coord] # None
    BY DEF IndInv, TakenInv
  <2>2. payload[i].coord \in Coord
    BY PayloadTyped DEF IndInv, TypeInv, Started, ToldByEdge
  <2>3. PICK k \in Invocation : ~ToldByEdge(k, 409) /\ docs[payload[i].coord] = BuildVersionMetadata(k)
    BY <2>1, <2>2 DEF IndInv, DocInv
  <2> QED
    BY <2>1, <2>3 DEF BuildVersionMetadata
<1> QED
  BY <1>1, <1>2, Invariant, PTL

-----------------------------------------------------------------------------
(* How far an invocation is from its end.                                   *)
Distance(ph) == CASE ph = "idle" -> 8 [] ph = "probe" -> 7
                  [] ph = "forward" -> 6 [] ph = "admit" -> 6
                  [] ph = "store" -> 5 [] ph = "claim" -> 4
                  [] ph = "mirror" -> 3 [] ph = "layer" -> 2 [] ph = "tag" -> 1
                  [] OTHER -> 0

(* A step brings an invocation nearer to its end, or leaves all that it is  *)
(* as it was; so one that has ended stays as it is, with what it was told.  *)
(* The steps that resolve by themselves do bring it nearer.                 *)
Nearer(i) == Distance(phase'[i]) < Distance(phase[i])
Same(i) == /\ phase'[i] = phase[i] /\ payload'[i] = payload[i]
           /\ home'[i] = home[i] /\ reply'[i] = reply[i]
MovesOn(i) == (Nearer(i) \/ Same(i)) /\ (Progress(i) => Nearer(i))

Step(i) == \/ Receive(i) \/ Probe(i) \/ OriginHandles(i) \/ OriginUnavailable(i)
           \/ Admit(i) \/ StoreArtifact(i) \/ StoreThrows(i)
           \/ ClaimVersion(i) \/ VersionTaken(i) \/ ClaimThrows(i)
           \/ StartMirror(i) \/ UploadLayer(i) \/ PutManifest(i) \/ MirrorGivesUp(i)
           \/ Abort(i)

LEMMA StepsAreNearer ==
  ASSUME TypeOK, NEW i \in Invocation, Step(i)
  PROVE  Nearer(i) /\ \A j \in Invocation \ {i} : Same(j)
<1>1. \A j \in Invocation \ {i} : Same(j)
  BY DEF Step, Same, TypeOK, Receive, Probe, OriginHandles, OriginUnavailable, Admit, StoreArtifact,
     StoreThrows, ClaimVersion, VersionTaken, ClaimThrows, StartMirror, UploadLayer,
     PutManifest, MirrorGivesUp, Abort, Answer, Goto
<1>2. ASSUME NEW ph, Goto(i, ph)
      PROVE  phase'[i] = ph
  BY <1>2 DEF Goto, TypeOK
<1>3. ASSUME NEW status, Answer(i, status)
      PROVE  phase'[i] = "done"
  BY <1>2, <1>3 DEF Answer
<1>4. CASE Receive(i) \/ Probe(i)
  <2>1. \/ phase[i] = "idle" /\ phase'[i] \in {"probe", "forward"}
        \/ phase[i] = "probe" /\ phase'[i] \in {"forward", "admit"}
    BY <1>2, <1>4 DEF Receive, Probe
  <2> QED
    BY <1>1, <2>1 DEF Nearer, Distance
<1>5. CASE OriginHandles(i) \/ OriginUnavailable(i) \/ Admit(i)
  <2>1. phase[i] \in {"forward", "admit"} /\ phase'[i] \in {"store", "done"}
    BY <1>2, <1>3, <1>5 DEF OriginHandles, OriginUnavailable, Admit
  <2> QED
    BY <1>1, <2>1 DEF Nearer, Distance
<1>6. CASE StoreArtifact(i) \/ StoreThrows(i)
  <2>1. phase[i] = "store" /\ phase'[i] \in {"claim", "done"}
    BY <1>2, <1>3, <1>6 DEF StoreArtifact, StoreThrows
  <2> QED
    BY <1>1, <2>1 DEF Nearer, Distance
<1>7. CASE ClaimVersion(i) \/ VersionTaken(i) \/ ClaimThrows(i)
  <2>1. phase[i] = "claim" /\ phase'[i] \in {"mirror", "done"}
    BY <1>2, <1>3, <1>7 DEF ClaimVersion, VersionTaken, ClaimThrows
  <2> QED
    BY <1>1, <2>1 DEF Nearer, Distance
<1>8. CASE StartMirror(i) \/ UploadLayer(i)
  <2>1. CASE StartMirror(i)
    <3>1. phase[i] = "mirror" /\ phase'[i] = "layer"
      BY <1>2, <2>1 DEF StartMirror
    <3> QED
      BY <1>1, <3>1 DEF Nearer, Distance
  <2>2. CASE UploadLayer(i)
    <3>1. phase[i] = "layer" /\ phase'[i] = "tag"
      BY <1>2, <2>2 DEF UploadLayer
    <3> QED
      BY <1>1, <3>1 DEF Nearer, Distance
  <2> QED
    BY <1>8, <2>1, <2>2
<1>9. CASE PutManifest(i) \/ MirrorGivesUp(i)
  <2>1. phase[i] \in {"mirror", "layer", "tag"} /\ phase'[i] = "done"
    BY <1>3, <1>9 DEF PutManifest, MirrorGivesUp
  <2> QED
    BY <1>1, <2>1 DEF Nearer, Distance
<1>10. CASE Abort(i)
  <2>1. phase[i] \in Running /\ phase'[i] = "aborted"
    BY <1>2, <1>10 DEF Abort
  <2> QED
    BY <1>1, <2>1 DEF Nearer, Distance, Running
<1> QED
  BY <1>1, <1>4, <1>5, <1>6, <1>7, <1>8, <1>9, <1>10 DEF Step

(* Under whatever interleaving and with whatever failures, a publish takes  *)
(* at most eight steps, never repeats one by itself, and its answer is      *)
(* final.  What is left to AnsweredUnlessMirroring is that a next step is   *)
(* taken at all.                                                            *)
THEOREM InvocationsMoveOn == Spec => [][\A i \in Invocation : MovesOn(i)]_vars
<1>1. ASSUME TypeOK, Next
      PROVE  \A i \in Invocation : MovesOn(i)
  <2>1. \A i \in Invocation : Progress(i) => Nearer(i)
    BY <1>1, StepsAreNearer DEF Progress, Step
  <2>2. ASSUME NEW i \in Invocation, Step(i)
        PROVE  \A j \in Invocation : Nearer(j) \/ Same(j)
    BY <1>1, <2>2, StepsAreNearer
  <2>3. CASE OriginFails \/ OriginRecovers
    BY <2>1, <2>3 DEF OriginFails, OriginRecovers, Same, MovesOn
  <2> QED
    BY <1>1, <2>1, <2>2, <2>3 DEF Next, Step, MovesOn
<1> QED
  BY <1>1, TypeCorrect, PTL DEF Spec
=============================================================================
