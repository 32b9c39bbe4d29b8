# A verification of zed-infra

TLA+ models of the stateful parts of `zed-infra`: the Cloudflare Workers in front of the zed
registry, the deploy tooling around them, and the Durable Object that coordinates package work.
Each model is translated from the source lines listed for it in `PROJECT.json` (`map`), checked by
TLC on small instances, and, where section 4 says so, proved with TLAPS for every value of the
constants.

## 1. Inventory

| component | state it keeps | operations | who it talks to | hard behaviour |
|---|---|---|---|---|
| edge publish (`workers/registry-proxy/src/index.js`, `workers/shared/edge-publish.js`) | R2 objects `artifacts/<sha256>.<ext>` and `metadata/<org>/<name>/versions/<v>.json` | `PUT` of a version: probe, admission, artifact put, create-if-absent claim, mirror | origin (zed-api-server), R2, GHCR | concurrent publishers, cut-off invocations, puts with unknown outcome, origin outages, retries |
| GHCR mirror (`workers/shared/ghcr.js`) | blobs and tags at GitHub Packages | `pushArtifactToGhcr` | called inside a publish | partial push, no timeout |
| registry reads (`registry-proxy/src/index.js`, `edge-publish.js`) | none of its own; reads R2 | package and version documents, listing, artifact bytes | origin, R2, CDN, npm/crates/..., GitHub | source order, terminal privacy answer, paginated listing against concurrent publishes |
| CDN Worker (`workers/cdn-proxy`) | none; reads R2 | `GET`/`HEAD` of artifacts, metadata, package and GitHub objects | R2, native registries, GitHub | which kind may read what, redirects |
| origin proxies (`workers/shared/origin-proxy.js`, `origin-transition.js`) | a timer per handshake | forward, hand over a WebSocket, typed 503 | origin | deadline against late handshake |
| deploy lease (`workers/scripts/cf-lease.mjs`, deploy workflow, `justfile`) | KV `lease:worker:<name>`; the live script's `modified_on` | snapshot, acquire, release around `wrangler deploy` | Cloudflare API | no compare-and-swap, three separate processes, kills, expiry, shared holder names |
| coordinator (`modules/cloudflare/durable-coordinator`) | `kv:<key>`, `lease:<r>`, `lease-counter:<r>` | `getState`, `compareAndSet`, `acquireLease`, `releaseLease` | its callers | lost answers, stale tokens, expiry under a holder |
| edge capability (`workers/shared/edge-capability.js`) | none; a pinned JWKS snapshot and outage facts come with the deployment | verify, plan, broker context | an issuer that may be out of reach | revocation and rotation unseen during an outage, clock skew, local policy |
| credential and private-source brokers (`provider-credential-broker.js`, `private-source-broker.js`) | none | request a credential, use it upstream | internal brokers, providers | expiry between check and use, brokers without deadline |
| public intake (`workers/public-intake`) | none; proof and idempotency key live elsewhere | submit | Turnstile, api | accepted but timed out, single-use proof on retry |
| secret sync (`workers/scripts/sync-worker-secrets.mjs`) | the Worker's secrets | plan, apply | Cloudflare API | one step of several failing |
| OCI scripts (`scripts/oci`, `promote-oci-image.sh`, `resolve-zed-images.sh`) | tags, R2 archive and checksum | build, archive, promote, resolve | registries, R2 | check-then-write, tag moved under verification |
| intake policy, isolation contract (`policy`, `infra-isolation`) | none | pure checks | - | - |
| native adapters, GitHub helpers (`workers/shared/native-*.js`, `github-fallback.js`) | none | pure conversions | - | - |
| Terraform, Crossplane, k8s, env, docker, SQL | declarative | - | - | - |

What makes each of the stateful ones correct:

* **Edge publish.** A version document never points at bytes that are not there; a coordinate is
  established once, by one publisher, for ever; a publisher told 201 owns it; nothing is stored that
  no admitted request vouched for; the mirror never contradicts the bucket; a publish is answered.
* **Deploy lease.** At most one deploy writes a Worker at a time; no deploy overwrites a version it has
  not seen; an abandoned lease does not block for ever.
* **Coordinator.** No lost update; a token names one holder for ever; a stale token harms nobody; at
  most one caller believes it holds a resource.
* **Reads, CDN.** What the edge published is never answered by a guess while the bucket answers; a
  restriction ends a read; a listing names what was there, all of it; advertised bytes are served; what
  is passed on from third parties is true of the file; a read ends.
* **Capability, brokers.** Revocation of a session and retirement of a key bound everything that follows
  from a capability, credentials included, however slow a broker is; the verdict does not depend on order.
* **Intake.** A receipt is true; a page is stored at most once; a proof is spent once; a final refusal left nothing behind; every attempt is answered.
* **Origin proxies.** The deadline bounds the setup and never an established socket; a socket comes from
  the origin only; failures come out typed.
* **Secret sync, OCI archive** (not modelled). A failed run is seen; what it left is repaired or refused.

The hazards, each at its line with the properties that cover it, are in `PROJECT.json` (`hazards`).

## 2. Modules

| module | models | EXTENDS / INSTANCE |
|---|---|---|
| `WriteOnceRegistry` | abstract: a coordinate is established once, "created" and "conflict" are told truthfully | |
| `EdgePublish` | the publish path with origin, R2 and GHCR | INSTANCE `WriteOnceRegistry` (`WriteOnce`) |
| `MCEdgePublish` | request sets and symmetry for TLC | `EdgePublish` |
| `EdgePublishProofs` | theorems about `EdgePublish` | `EdgePublish`, TLAPS |
| `DeployLease` | snapshot / acquire / upload / release of one Worker | |
| `MCDeployLease` | holder assignments; `InstantSpec`, the behaviours in which no time passes | `DeployLease` |
| `DeployLeaseProofs` | theorems about `DeployLease` | `DeployLease`, TLAPS |
| `FencedLock` | abstract: tokens 1, 2, 3, ..., one owner, who gives up harms nobody | |
| `Coordinator` | the Durable Object and its callers | INSTANCE `FencedLock` (`Fenced`) |
| `MCCoordinator` | symmetry | `Coordinator` |
| `CoordinatorProofs` | theorems about `Coordinator` | `Coordinator`, TLAPS |
| `PublicFallback` | third-party sources of a read: native registry, GitHub, redirects | |
| `RegistryRead` | registry and CDN reads composed with publishing | `PublicFallback`, INSTANCE `WriteOnceRegistry` (`Registry`) |
| `MCRegistryRead` | documents, requests and third-party worlds for TLC | `RegistryRead` |
| `RegistryReadProofs` | theorems about `RegistryRead`: bytes and listings | `RegistryRead`, WellFoundedInduction, TLAPS |
| `RegistryAnswerProofs` | theorems about `RegistryRead` and `PublicFallback`: types, sources of answers, termination | `RegistryReadProofs`, FiniteSetTheorems |
| `EdgeCapability` | issuer, deployment, verification, plan, context | |
| `CredentialBroker` | the two broker clients after it | `EdgeCapability` |
| `MCCredentialBroker` | offers, snapshots, settings and requests for TLC | `CredentialBroker` |
| `CredentialBrokerProofs` | theorems about `CredentialBroker` and `EdgeCapability` | `CredentialBroker`, TLAPS |
| `PublicIntake` | the two forms, the verifier and the API | |
| `MCPublicIntake` | three deployments for TLC | `PublicIntake` |
| `PublicIntakeProofs` | theorems about `PublicIntake` | `PublicIntake`, TLAPS |
| `OriginProxy` | one pass-through request with time | |
| `MCOriginProxy` | requests and answers for TLC | `OriginProxy` |
| `OriginProxyProofs` | theorems about `OriginProxy` | `OriginProxy`, TLAPS |

Operators commented "variant:" are plausible wrong versions of the definition that follows them; no
specification uses them. `PROJECT.json` (`mutants`) pairs each property with the variant that breaks it.

### EdgePublish

Each invocation of the registry Worker has a `phase`; one action is what happens between two awaits
that matter.

| action | code |
|---|---|
| `Receive` | routing decision, `edgePublishEnabled` |
| `Probe` | the bodiless `GET /healthz` deciding who gets the body; a live origin may miss the timeout |
| `OriginHandles`, `OriginUnavailable` | the forwarded body: applied or not, answered or answered 503 too late |
| `Admit` | all checks of `handleEdgePublish` in their order (`Refusal`), `validatePublishMeta` among them |
| `StoreArtifact`, `StoreThrows` | the artifact `put`; a throwing put may have written |
| `ClaimVersion`, `VersionTaken`, `ClaimThrows` | the `If-None-Match: *` put |
| `StartMirror`, `UploadLayer`, `PutManifest`, `MirrorGivesUp` | `mirrorToGhcr` / `pushArtifactToGhcr`, always answered 201 |
| `Abort` | isolate evicted or client gone, at any await |
| `OriginFails`, `OriginRecovers` | the outage this path exists for |

Abstractions: bytes are named by their digest; a request carries at most one syntactic defect, one per
check of the code; versions that are no OCI tag are the complement of `Taggable`. The origin is
external and records a version once. A put takes effect, if at all, no later than the step that ends
its invocation's wait for it.

### DeployLease

One action per request to Cloudflare. `seen` is the snapshot's `modified_on` (`None` is
`--create-missing`), `read` the one `cmdAcquire` reads again, `left` the ticks to the record's
`expires_at_ms`, `lease` the KV record. `Snapshot` of a workflow deploy waits for the concurrency group;
operators start when they like. `RequestFails` stops a deploy at any request, with a PUT or DELETE
applied or not; `Kill` anywhere, `JobTimeout` for the workflow. `Tick` moves the clocks together and
does not pass a workflow job's timeout. `found` is a history variable: who held the lease when an
acquire began. KV's own eventual consistency is not modelled; the races below need none.

### Coordinator

Every method is one storage transaction, so one step. What the model adds is the callers: each keeps
what it last read (`known`), what it was told (`belief`, `added`), and may use any token it was ever
granted (`grants`). Every answer may be lost. The clock is one `Date.now()`.

### PublicFallback and RegistryRead

One reader stands for all, since readers share nothing. It keeps its place (`phase`), what the origin
said, the listing in progress (`scan`) and, as history, what the bucket held when it began (`before`) and
whether a bucket call of it failed (`clean`). Between any two of its steps versions are established,
objects uploaded and restricted.

| action | code |
|---|---|
| `Receive` | `classifyRegistryRequest` and the answers it needs no network for; the CDN's own routes |
| `TryOrigin` | `tryOrigin` and the branches after it (`AfterOrigin`) |
| `ReadDocument` | `r2VersionMetadata`, `readJsonObject` |
| `ListPage`, `ReadNewest` | the loop of `r2PackageMetadata`, one page per step, then its read of the newest document |
| `CdnRead`, `CdnArtifact` | the CDN's `getR2`; `cdnArtifact`'s two formats |
| `BucketFails`, `CdnBucketFails`, `CdnArtifactFails` | a throwing or malformed answer, told as an absence |
| `ThirdParty` | one fetch of `PublicFallback`: native metadata and bytes, sidecars by tag, feed, REST API, the CDN's own mirror |
| `Conclude` | the fallback's answer, or the origin's, or 503 |

Publishing is not modelled twice: `Establish` is the abstract step of `WriteOnceRegistry`, which
`EdgePublish` is shown (and proved) to implement, and which the read model instantiates over the same
documents; that an established document's object is there is `AdvertisedBytesExist` of that module. A
URL is one of the places the allow lists tell apart; a page of the listing may be shorter than its limit,
as R2 says of its lists; documents over the reader's size limit are a choice (`fits`). HEAD is answered
as GET without body and is left out. Third parties hold one fixed `world` per behaviour, but each fetch
may fail on its own.

A redirect is an error (`redirect: "error"`) or is checked before it is followed (`Redirect`, `MayFetch`),
with one exception, which the model has as the code has it. `versionFromGithub` fetches the sidecar that a
release lists with `redirect: "follow"`: the runtime goes wherever it is sent (`ReleaseSidecarArrives`,
the location that answered is open). A refused fetch leaves the release's artifact
(`ReleaseSidecarRefused`, `TakeArtifact`), a throwing one ends the search (`GithubGivesUp`), and so does one
that is answered, because the function that should judge where the answer came from does not exist
(`IsGithubAssetResponseThrows`). `found.readAt` keeps where an answer was read, so that `AnswerMatchesFile` also
says that nothing read on an unchecked hop is passed on. On that path it holds because the
code gives up, not because it checks.

### EdgeCapability and CredentialBroker

The issuer's time is `clock`; the edge reads `EdgeNow`, off by a fixed `drift`. An issuer looks at
revocations some time (`lag`) before it issues, revokes the session once, rotates its keys once; the
deployment takes key snapshots (`Refresh`) only while the issuer can be reached. `VerifyEdgeCapability`
is the function with its checks in order; what follows is `PlanProviderRequest`,
`BrokerContextFromCapability`, then in `CredentialBroker` `RequestProviderCredential`, the broker's
answer at any later time (`BrokerAnswers`, `BrokerRefuses`), `GithubCredentialHeaders`; beside it the
private-source client with its own four steps. A capability is a record; that its segments, header and
identifiers are in order is one flag (`formal`), signatures are equality of keys. Of the two epochs a v3
capability carries, the session's follows the revocation; the policy's is a number the issuer puts in and the
deployment has a minimum for.

### PublicIntake

A page is its number, which is its `requestId`. One action per call out: `Submit` (everything up to the
verifier, `Refusal` in the order of the code: a body's defects come before the consent revisions are
looked at (`invalid`) or after, with the age of the consent (`unfit`)), `TurnstileAnswers` / `TurnstileFails`, `ForwardToApi`,
`HandleReply`, `ApiTimeout`. Attempts overlap. The API is external: it stores a request unless it knows its
Idempotency-Key, at any time, the Worker's deadline or not; what answers may be another party.
`Deploy` changes the bindings under an open page; an attempt keeps those it began with.

### OriginProxy

`Receive` starts the deadline, `OriginAnswers` decides by `ResponseDecision` and disarms by `AfterFetch`,
`OriginFails` and `Abort` are the two ways a fetch throws, `Cancelled` ends the unread body. After the
answer the stream goes on: `Abort` may still strike, which is what the code's comment at
`origin-proxy.js:54` is about. Whether an abort cuts a body under way is left open.

## 3. Runs

| run | instance | shows |
|---|---|---|
| `edge_publish_race` | 3 invocations, 2 coordinates (one taggable), 2 contents, 2 formats, retries and outages | `TypeOK`, `AdvertisedBytesExist`, `CreatedIsServed`, `MirrorAgreesWithBucket`, `VersionsImmutable`, refinement `WriteOnce` |
| `edge_publish_admission` | 2 invocations over one request per admission check, `FairSpec` | `PublicationVouched`, `AnsweredUnlessMirroring` |
| `edge_publish_split` | violation | `OneCreatedPerCoordinate`: 201 from the origin and 201 from the edge |
| `lease_pair` | one workflow deploy, one operator, TTL 2 ticks, job limit 1, `FairSpec` | `TypeOK`, `LatecomersKeptOut`, `AbandonedLeaseLapses` |
| `lease_short_race` | violation, a third deploy | `LatecomersKeptOut` |
| `lease_stale` | violation, two deploys | `OverwritesOnlySeenVersion` |
| `coordinator` | 2 callers, 1 resource, lifetimes 1 and 2, 3 ticks, 3 tokens, 1 key, 2 writes | `TypeOK`, `TokenNamesOneHolder`, `NewestGrantOnFile`, `AtMostOneBeliever`, `AcknowledgedEntriesSurvive`, refinement `Fenced` |
| `registry_read` | 3 versions of 2 contents appearing while one reader works, 15 requests, 2 third-party worlds, 2 tags, 2 redirects, pages of 2, 1 restriction; `FairSpec` | `TypeOK`, `PublishedNeverGuessed`, `RestrictionIsTerminal`, `ListingHonest`, `AdvertisedBytesServed`, `AnswerMatchesFile`, `ReadAnswered` |
| `registry_release_sidecar` | violation, one release in order whose sidecar the REST API lists | `SidecarSettlesOnlyItself`: GitHub answers with the sidecar and the search at GitHub ends with nothing |
| `edge_capability` | 8 kinds of capability, 2 settings (one widened), rotation in two ways, clock off by one either way, 4 ticks, lifetimes of 2 | `TypeOK`, `RevokedSessionDies`, `RetiredKeyDies`, `VerdictIgnoresOrder`, `CredentialDiesWithSession` |
| `public_intake` | 2 routes, 2 pages, 2 proofs, 2 attempts, 3 deployments, `FairSpec` | `TypeOK`, `AcceptedIsStored`, `OneRecordPerPage`, `ProofPerForward`, `FinalLeavesNothing`, `EveryAttemptAnswered` |
| `origin_proxy` | 12 requests, 24 answers, timeouts of 1 to 3 ticks, settings beyond both ends, 5 ticks; `FairSpec` | `TypeOK`, `SocketOutlivesSetup`, `AnswerIsTheOrigins`, `SetupIsBounded`, `EveryRequestAnswered` |

Why the bounds are enough. Three publishers give a winner, a loser and a retry (or an origin publish);
two contents and two formats are what a wrong document can confuse; a second coordinate with the same
bytes shares an artifact object. Two deploys are the exclusive lease's parties, the third is the one
that undoes it. Two callers are an expired holder and its successor, or two writers; `MaxNow`,
`MaxToken`, `MaxVersion` cap the clock, the tokens and the writes. The proofs remove these bounds for
the components they cover: there the bounds are arbitrary naturals and every set is arbitrary.
Three versions over pages of two make a listing of two pages, one that meets the page limit, and versions
that appear before, at and after the cursor; the two worlds hold a native file that is redirected, a
release whose listed sidecar and asset lie, and one in order. In `edge_capability` one behaviour has one
capability (`token = None` in `Issue`), one revocation and one rotation: each property is about one
capability and the first event that should end it; the private-source client runs only before a
capability is out, since the two share nothing. Two attempts over two pages and two proofs are a retry, a
double submit, a proof taken to another page; the third deployment is one whose bindings are missing.
The proxy's five ticks go two beyond the longest timeout.
Deploys and submissions end and the state's version bound is reached, so those runs do not ask for
deadlock freedom.

Fairness. `EdgePublish!FairSpec` is weak fairness of the steps whose promise settles by itself: the
origin fetches carry `AbortSignal.timeout`, the bucket's promises settle, admission is computation.
Requests to GHCR carry no timeout and get none, which is why `AnsweredUnlessMirroring` ends where it
does. `DeployLease!FairSpec` is that time passes and that GitHub enforces the job's timeout; no deploy
is assumed to make progress. `RegistryRead!FairSpec`: every call of a read settles, since each fetch
carries a timeout; whichever way it settles is not chosen. `PublicIntake!FairSpec`: the Worker's own steps,
its `API_TIMEOUT_MS` among them, and that the verifier, for which the code sets no deadline, answers
or fails; nothing of the API. `OriginProxy!FairSpec`: time, the deadline and that a cancelled body settles;
nothing of the origin.

### Where documents and code disagree

Four runs find a stated intention violated by what the code does; `PROJECT.json` (`findings`) quotes
the lines. In short:

- immutability is atomic among edge publishes, not between edge and origin (`edge_publish_split`);
- the lease's race is not short once a third deploy is there, since the loser of the PUT releases the
  winner's lease (`lease_short_race`);
- `--if-match` is compared before the lease is held (`lease_stale`);
- `isGithubAssetResponse`, called at `registry-proxy/src/index.js:649`, is neither defined nor imported. A
  release whose sidecar the REST API lists is therefore never answered from: once GitHub answers with the
  sidecar, the call throws, and neither the sidecar nor the artifact nor the next tag is looked at
  (`registry_release_sidecar`). Had the function existed, it would have judged the last URL of a chain of
  redirects that nobody checked (line 646), where `docs/native-registry-fallback.md:139` promises
  "redirects manually revalidated at every hop".

Three more are plain from the lines and need no run: a publish that is refused has already put its artifact
(`edge-publish.js:568` against its comment at 382); deploys of one operator on one host share a
holder name, so that neither is kept out (`cf-lease.mjs:234` against `justfile:119`); and the "total"
state machine of the registry (`workers/README.md:11`) has a last, invalid state that a name with two
hyphens reaches when the origin is down or answers 404: the route table takes it
(`github-fallback.js:151-165`), `parseRegistryPath` does not, and the client is told 500
(`registry-proxy/src/index.js:161`; `odd` in `AfterOrigin`).

## 4. Proofs

All by TLAPS, for every value of the constants that satisfies the modules' assumptions.

`EdgePublishProofs` proves `TypeCorrect`, `AdvertisedBytes`, `CreatedServed`, `Vouched`, `MirrorAgrees`,
`Immutable` and `ImplementsWriteOnce`. The invariants are not inductive as they stand: that a claimed
document finds its bytes needs that an invocation at `claim` has stored its artifact under the key its
document will name, and that the bytes of an artifact key are always the key's digest; that the
mirror agrees needs that whoever is in the mirror's phases still owns the document of its coordinate.
The inductive invariant is the conjunction of those per-phase facts; every action is one step of the
proof. The refinement maps each bucket claim to `Establish`, each 201 and 409 of the edge to
`Acknowledge` and `Refuse`, everything else to a stutter. `EstablishedOnce` is the sentence of
`edge-publish.js` about concurrent publishes, for the answers of the edge itself: one 201, and every 409
finds another's document (with the origin's answers it is false, see `OneCreatedPerCoordinate`).
`InvocationsMoveOn`: no step repeats or goes back, at most eight make a publish, and its answer is final.

`CoordinatorProofs` proves `TypeCorrect`, `NoLostUpdate`, `TokensUnique`, `StaleReleaseHarmless`,
`MutualExclusion` and `ImplementsFencedLock`. Uniqueness of tokens rests on the counter never being
below the token on file; exclusion on every believer being on file with its token and an expiry at
least as late as it believes. A renewal with an earlier expiry whose answer is lost ends the lease while
its holder counts on the longer one, so the property leaves out resources whose lease was shortened.

`DeployLeaseProofs` proves `TypeCorrect` for any deploys, and `LatecomersAreKeptOut` under `Two`: at
most two deploys, each with a holder name of its own. A third deploy or a shared name breaks the
property (`lease_short_race`; `cf-lease.mjs:234`). `LeaseInv` adds that nobody has touched
the lease of a holder whom the other deploy found or can still find, and that this other one has not
decided to acquire: what a read before the decision saw is still true at the PUT, because with two deploys
nobody else writes. Time runs for a holder as for the record on file, so an expiry ends both.
`AbandonedOnlyLapses`, for any number of deploys under `Names` (a holder name of their own): the lease of
a killed or failed one is never prolonged, by whoever acts, and every tick takes from it.

`RegistryReadProofs` proves `BytesServed` and `ListingIsHonest`, for all versions, page sizes and limits.
`ServedInv` says that a document's bytes are in the bucket and stay, and, per phase, which format is
left when the first was not there. `ListInv` says that the scan has listed everything it has passed:
all versions of `before` up to the cursor. That a page short of the end stops at a key, with nothing
skipped before it, is the lemma on `Pages`; a greatest listed version exists by well-founded induction on
the naturals. The last read may find a newer version than those listed first, never an older one.

`RegistryAnswerProofs` builds on them.

- `TypeCorrect` and `AnswersAreTrue` rest on `FallbackInv`, which follows a fetch through `PublicFallback`:
  the location asked next carries no digest, since those that do are answered and not followed; a
  download is one of a native registry's package; a source that goes tag by tag has a tag left; a release
  whose listed sidecar is fetched is there. Every step of the fallback keeps that and the truth of its result
  (one lemma per step), so `AnswerMatchesFile` holds for all worlds of third parties, wherever unchecked
  redirects of a listed sidecar lead.
- `RestrictionsAreTerminal` and `PublishedIsNotGuessed` rest on `AnswerInv`: marks only grow; what was marked
  before the read has not been listed by a scan that goes on; a read of what is restricted or readable is
  still at the edge, or has the answer it ought to have. The two clauses on packages need that
  the scan meets no limit: `ScanGoesOn` proves it from `CountOK` (each page so far listed a version no
  earlier one did, so a package of at most `MaxPages` versions is listed whole) and `MaxPages <= MaxObjects`
  (10 pages and 10000 objects in the code, `LimitAssumption`).
- `ReadsWindDown`: every step of a read takes from `Left`, a lexicographic measure of five naturals (phase,
  source, pages or tags left, requests left for this one, redirects left), and publishing in between adds nothing to it,
  so no read goes round in circles between sources, tags and redirects.

`CredentialBrokerProofs` proves `TypeCorrect`, `SessionsDie`, `KeysDie`, `CredentialsDie` and `OrderIsIgnored`, about
`EdgeCapability` and `CredentialBroker` together. `BrokerInv` carries, for whatever capability is held,
that the issuer's look at revocations precedes issue, which precedes now, and that both precede a
revocation of its session; for a snapshot without the new keys, that it was taken before the rotation; for
an admission, the windows it went through at the time it did; for a credential, that it expires with
its capability at the latest. `OrderIsIgnored` rests on valid grants having different coordinates and
usable keys different kids, so that the first match is the only one; `ListsInv` says that keys and grants
are sequences at all. `TypeInv` adds to the types that no grant is missing, and, for each phase of a
read, which of claims, plan and request it has.

`PublicIntakeProofs` proves `TypeCorrect`, `ReceiptIsTrue`, `StoredOnce`, `ProofSpentOnce` and
`RefusedLeavesNothing`. `IntakeInv` follows a request from attempt to store: what is sent or stored
belongs to an attempt that forwarded it, carries that page's key and a proof spent for it; an attempt has
sent at most one; a proof that is verified and not yet forwarded is in no request and in no other
attempt; a reply says what was stored. `ProofSpentOnce` needs the third, `RefusedLeavesNothing` the others.
`AttemptsMoveOn`: an attempt takes at most four steps, and a late reply changes nothing of its answer.

`OriginProxyProofs` proves `TypeCorrect`, `SocketKept`, `SetupBounded` and `ToldTruly`. `ProxyInv` adds
that time runs with the deadline while the handler waits, so that it never passes it, and that a
socket is handed over with the timer off, so that a late deadline has none to close.

Assumptions are the named `ASSUME`s of the modules: sets have the types given, bounds are naturals, `None`
is none of the values it stands beside, minima are below maxima. TLC evaluates each of them.

Every invariant, action property and refinement of the passing runs is proved. Only model-checked:
liveness (`AnsweredUnlessMirroring`, `AbandonedLeaseLapses`, `ReadAnswered`, `EveryAttemptAnswered`,
`EveryRequestAnswered`), since fairness and ENABLED are out of the prover's reach. `InvocationsMoveOn`,
`AbandonedOnlyLapses`, `ReadsWindDown` and `AttemptsMoveOn` prove the half of the first four that is safety:
steps only lead to the end. That a step is possible and taken until then, TLC checks. `EveryRequestAnswered`
has no such measure, since its clock stops at `MaxTime`. Induction over data and recursive operators are avoided in every module.

## 5. Plan

Done: all components that act on state shared with others, in the order of what would hurt most: publish,
lease, coordinator, reads, capabilities and brokers, intake, origin proxies.

Left, in this order:

1. Worker secret sync with the switch that turns publishing on: a run cut off between two secrets.
2. OCI promotion, once what the code relies on of its registries is written down.

## 6. Not modelled

The parsing of native registries' metadata (`native-*.js`) is stateless conversion of strings; only the
download locations and the decision to download are in `PublicFallback`. The organisation proxy is a table
of redirects. The secret sync is one pass over a short list in one process. The OCI scripts drive
registries whose promises are not in this repository. The intake policy and the isolation contract
are documents and checks of their shape. Terraform, Crossplane, Kubernetes, SQL and env files have no
behaviour of their own. Workflows other than the deploy are glue around the scripts listed.
Verification and preflight scripts read and compare once. `formal/` is a specification already.
