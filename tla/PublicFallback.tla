--------------------------- MODULE PublicFallback ---------------------------
(***************************************************************************)
(* The third-party sources of a registry read                              *)
(* (workers/registry-proxy/src/index.js: nativePublicFallback,             *)
(* completeNativeDownload, githubPublicFallback): first the ecosystem's    *)
(* native registry, then GitHub, each fetch anonymous, each with its own   *)
(* timeout.  A redirect is an error or is checked before it is followed,   *)
(* but for one fetch: where the REST API lists a release's sidecar, the    *)
(* runtime follows redirects by itself (ReleaseSidecarArrives).            *)
(* Registries and GitHub are external: what they hold is fixed in world;   *)
(* whether a fetch is answered, and a repository is public when it is, is  *)
(* open every time.                                                        *)
(***************************************************************************)
EXTENDS Naturals, Sequences, SequencesExt

CONSTANTS Version,        \* versions, ordered like their object keys
          Digest,         \* SHA-256 names of byte strings
          Tags,           \* gitTagsForVersion: the tags tried, in order
          MaxRedirects,   \* redirects followed per download
          World,          \* what the third parties may hold (see WorldOK)
          None            \* "nothing there"

ASSUME RedirectAssumption == MaxRedirects \in Nat
ASSUME TagsAssumption == Tags \in Seq(ToSet(Tags)) /\ Tags # <<>>

(* URLs, by what the allow lists tell apart: the package's own file at its  *)
(* native registry, a release download at github.com, GitHub's asset store, *)
(* the CDN's object of a digest, anything else.  A SHA-256 is part of the   *)
(* name of CDN objects and of some release assets only.                     *)
Place == {"native_file", "release", "asset_store", "cdn", "elsewhere", "nowhere"}
Location == {u \in [place: Place, sha: Digest \cup {None}] :
               u.sha # None => u.place \in {"release", "cdn"}}
Nowhere == [place |-> "nowhere", sha |-> None]

(* The native registry's word on a package: is it public, does it list the  *)
(* version unyanked, where is its file, with what digest and size declared. *)
NativePackage == [public: BOOLEAN, listed: BOOLEAN, url: Location,
                  sha: Digest \cup {None}, sized: BOOLEAN, bytes: Digest]

(* A JSON sidecar of a release: do its org, name and version match, and     *)
(* where does it say the bytes are.                                         *)
Sidecar == [matches: BOOLEAN, sha: Digest, url: Location]

(* A release asset: named by convention or after a digest; the digest that  *)
(* GitHub reports, if any, which is then that of the bytes; whether its URL *)
(* is the one expected for its name.                                        *)
Asset == [named: {"convention", "digest", "other"}, digest: Digest \cup {None},
          bytes: Digest, reported: Digest \cup {None}, expected: BOOLEAN]

(* listed: the REST API lists the sidecar, at the URL expected for it.      *)
ReleaseOK(r) == /\ {r.draft, r.listed} \subseteq BOOLEAN
                /\ r.sidecar \in Sidecar \cup {None}
                /\ r.assets \in Seq(Asset)
                /\ \A a \in ToSet(r.assets) : /\ a.reported \in {None, a.bytes}
                                              /\ a.digest # None <=> a.named = "digest"
WorldOK(w) == /\ w.native \in NativePackage \cup {None}
              /\ DOMAIN w.releases = ToSet(Tags)
              /\ \A t \in ToSet(Tags) : w.releases[t] # None => ReleaseOK(w.releases[t])
ASSUME WorldAssumption == \A w \in World : WorldOK(w)

VARIABLES world,       \* what the third parties hold
          request,     \* the read in progress
          step,        \* where the fallback stands
          attempt,     \* index of the sidecar or tag tried next
          at,          \* URL of the download in progress
          hops,        \* redirects followed so far
          found        \* the fallback's answer

chase == <<attempt, at, hops>>
fallback == <<step, attempt, at, hops, found>>

Step == {"off", "native", "download", "sidecar", "sidecar_hop", "feed", "repo",
         "tags", "release", "release_sidecar", "release_read", "mirror", "mirror_hop", "over"}

InitFallback == /\ world \in World
                /\ step = "off"
                /\ attempt = 1 /\ at = Nowhere /\ hops = 0
                /\ found = None

Move(s, i) == /\ step' = s
              /\ attempt' = i
              /\ at' = Nowhere
              /\ hops' = 0
              /\ UNCHANGED <<found, world, request>>

Download(s, u) == /\ step' = s
                  /\ at' = u
                  /\ hops' = 0
                  /\ UNCHANGED <<attempt, found, world, request>>

(* An answer: the digest and the URL it gives, the asset or the location    *)
(* where it was read, if the answer rests on one.                           *)
Find(source, sha, url, asset, readAt) ==
  /\ found' = [source |-> source, sha |-> sha, url |-> url, asset |-> asset, readAt |-> readAt]
  /\ step' = "over"
  /\ attempt' = 1 /\ at' = Nowhere /\ hops' = 0
  /\ UNCHANGED <<world, request>>

FindListing(source) == Find(source, None, Nowhere, None, Nowhere)

IsVersion == request.route = "version"
StartGithub == Move(IF IsVersion THEN "sidecar" ELSE "feed", 1)

-----------------------------------------------------------------------------
(* Downloads: a location is checked before each fetch, and at most          *)
(* MaxRedirects redirects are followed.                                     *)

IsAllowedNativeDownloadUrl(u) == u.place = "native_file"
IsAllowedGithubReleaseRedirect(u) == u.place \in {"release", "asset_store"}

FromNative == step = "download" \/ (step = "mirror_hop" /\ world.native # None)
MayFetchAfterFirst ==   \* variant: only the first URL is checked
  hops > 0 \/ at.place \in {"native_file", "release"}
MayFetch == IF FromNative THEN IsAllowedNativeDownloadUrl(at)
                          ELSE IsAllowedGithubReleaseRedirect(at)

FollowForever(u) ==   \* variant: redirects are not counted
  /\ at' = u
  /\ UNCHANGED <<hops, step, attempt, found, world, request>>
Follow(u) == /\ hops < MaxRedirects
             /\ hops' = hops + 1
             /\ at' = u
             /\ UNCHANGED <<step, attempt, found, world, request>>

Redirect == /\ step \in {"download", "sidecar_hop", "mirror_hop"}
            /\ MayFetch
            /\ \E p \in IF FromNative THEN {"native_file", "elsewhere"}
                                    ELSE {"release", "asset_store", "elsewhere"} :
                 Follow([place |-> p, sha |-> None])

-----------------------------------------------------------------------------
(* The native registry.                                                     *)

(* downloadFromNativeVersion: the version must be there and its URL allowed *)
HasCandidate(p) == p.listed /\ IsAllowedNativeDownloadUrl(p.url)

NativeMetadata ==
  /\ step = "native"
  /\ LET p == world.native IN
       IF p = None \/ ~p.public THEN StartGithub
       ELSE IF ~IsVersion THEN FindListing("native")
       ELSE IF ~HasCandidate(p) THEN StartGithub
       ELSE IF p.sha # None /\ p.sized THEN Find("native", p.sha, p.url, None, Nowhere)
       ELSE Download("download", p.url)

(* completeNativeDownload: digest or size is missing, so the bytes are      *)
(* fetched, bounded and hashed; the answer names where they were found.     *)
NativeBytes == /\ step = "download"
               /\ MayFetch
               /\ \E d \in IF at.place = "native_file" THEN {world.native.bytes} ELSE Digest :
                    Find("native", d, at, None, at)

(* Anything else, a timeout included, leaves the native registry.           *)
NativeGivesUp == /\ step \in {"native", "download"}
                 /\ StartGithub

-----------------------------------------------------------------------------
(* GitHub: release sidecars, through the CDN and directly, for each tag ... *)

SidecarTag == Tags[(attempt + 1) \div 2]
NextSidecar == IF attempt < 2 * Len(Tags) THEN Move("sidecar", attempt + 1)
                                         ELSE Move("repo", 1)

(* validateSidecar and isAllowedPublishedDownload: a URL that carries a     *)
(* digest carries the sidecar's.                                            *)
ValidSidecar(s) == /\ s.matches
                   /\ \/ s.url = [place |-> "cdn", sha |-> s.sha]
                      \/ s.url.place = "release" /\ s.url.sha \in {None, s.sha}

HasSidecar(tag) == LET r == world.releases[tag] IN
  r # None /\ ~r.draft /\ r.sidecar # None /\ ValidSidecar(r.sidecar)

FindSidecar(tag, readAt) == LET s == world.releases[tag].sidecar IN
  Find("github", s.sha, s.url, None, readAt)

SidecarFromCdn == /\ step = "sidecar"
                  /\ attempt % 2 = 1
                  /\ HasSidecar(SidecarTag)
                  /\ FindSidecar(SidecarTag, Nowhere)

SidecarFromGithub == /\ step = "sidecar"
                     /\ attempt % 2 = 0
                     /\ Download("sidecar_hop", [place |-> "release", sha |-> None])

SidecarArrives == /\ step = "sidecar_hop"
                  /\ MayFetch
                  /\ HasSidecar(SidecarTag)
                  /\ FindSidecar(SidecarTag, at)

SidecarMissing == /\ \/ step = "sidecar" /\ attempt % 2 = 1
                     \/ step = "sidecar_hop"
                  /\ NextSidecar

(* ... or the release feed for a package ...                                *)
FeedFound == /\ step = "feed"
             /\ \E t \in ToSet(Tags) : world.releases[t] # None /\ ~world.releases[t].draft
             /\ FindListing("github")

FeedMissing == /\ step = "feed"
               /\ Move("repo", 1)

(* ... then the REST API, which must call the repository public first.      *)
PublicGithubRepo == /\ step = "repo"
                    /\ Move(IF IsVersion THEN "release" ELSE "tags", 1)

PackageFromGithub == /\ step = "tags"
                     /\ FindListing("github")

(* The asset named by convention, or else the first named after a digest.   *)
Named(r, n) == {i \in DOMAIN r.assets : r.assets[i].named = n}
FirstNamed(r, n) == r.assets[CHOOSE i \in Named(r, n) : \A j \in Named(r, n) : i <= j]
Artifact(r) == IF Named(r, "convention") # {} THEN FirstNamed(r, "convention")
               ELSE IF Named(r, "digest") # {} THEN FirstNamed(r, "digest")
               ELSE None

DigestOf(a) == IF a.named = "digest" THEN a.digest ELSE a.reported
Trusted(a) == /\ a.named = "digest" => a.reported \in {None, a.digest}
              /\ DigestOf(a) # None
              /\ a.expected

NextRelease == IF attempt < Len(Tags) THEN Move("release", attempt + 1) ELSE Move("over", 1)

TakeArtifact(r) ==
  LET a == Artifact(r) IN
  IF a # None /\ Trusted(a)
  THEN Find("github", DigestOf(a), [place |-> "release", sha |-> a.digest], a, Nowhere)
  ELSE NextRelease

(* A release is looked at: its sidecar first, if it is listed.              *)
VersionFromGithub ==
  /\ step = "release"
  /\ LET r == world.releases[Tags[attempt]] IN
       /\ r # None /\ ~r.draft
       /\ IF r.listed THEN Download("release_sidecar", [place |-> "release", sha |-> None])
                      ELSE TakeArtifact(r)

(* The sidecar is fetched with redirect: "follow".  An answer that is not   *)
(* ok leaves the artifact.  One that is comes from wherever the redirects   *)
(* led, and is judged by isGithubAssetResponse, which no module defines:    *)
(* the call throws, and what it throws ends the search at GitHub.           *)
ReleaseSidecarRefused == /\ step = "release_sidecar"
                         /\ TakeArtifact(world.releases[Tags[attempt]])

ReleaseSidecarArrives == /\ step = "release_sidecar"
                         /\ \E p \in {"release", "asset_store", "elsewhere"} :
                              Download("release_read", [place |-> p, sha |-> None])

IsGithubAssetResponseThrows == /\ step = "release_read"
                               /\ Move("over", 1)

ReleaseMissing == /\ step = "release"
                  /\ NextRelease

(* A fetch of the REST API that fails or times out ends the fallback.       *)
GithubGivesUp == /\ step \in {"repo", "tags", "release", "release_sidecar"}
                 /\ Move("over", 1)

(* The CDN's own /packages/ and /github/ keys (cdn-proxy): the file at its   *)
(* native registry or else in the releases, each tag in turn, streamed if   *)
(* the response is of a bounded length.                                     *)
StartMirror == /\ step = "mirror"
               /\ Download("mirror_hop", [place |-> IF world.native # None THEN "native_file"
                                                                          ELSE "release",
                                          sha |-> None])

MirrorArrives == /\ step = "mirror_hop"
                 /\ MayFetch
                 /\ IF world.native # None THEN world.native.public
                    ELSE world.releases[Tags[attempt]] # None
                 /\ Find(IF world.native # None THEN "native" ELSE "github", None, at, None, at)

MirrorMissing == /\ step = "mirror_hop"
                 /\ IF world.native = None /\ attempt < Len(Tags)
                    THEN Move("mirror", attempt + 1)
                    ELSE Move("over", 1)

-----------------------------------------------------------------------------
FallbackStep == \/ NativeMetadata \/ NativeBytes \/ NativeGivesUp \/ Redirect
                \/ SidecarFromCdn \/ SidecarFromGithub \/ SidecarArrives \/ SidecarMissing
                \/ FeedFound \/ FeedMissing \/ PublicGithubRepo \/ PackageFromGithub
                \/ VersionFromGithub \/ ReleaseSidecarRefused \/ ReleaseSidecarArrives
                \/ IsGithubAssetResponseThrows \/ ReleaseMissing \/ GithubGivesUp
                \/ StartMirror \/ MirrorArrives \/ MirrorMissing

FallbackTypeOK ==
  /\ world \in World
  /\ step \in Step
  /\ attempt \in 1..(2 * Len(Tags))
  /\ at \in Location
  /\ hops \in 0..MaxRedirects
  /\ found # None => /\ found.source \in {"native", "github"}
                     /\ found.sha \in Digest \cup {None}

(* What the edge passes on from a third party is true of the file it comes  *)
(* from: a native answer names a file of that very package, wherever its    *)
(* registry redirected; a GitHub answer stays with releases; a digest taken *)
(* from an asset's name is never one that GitHub's own digest contradicts;  *)
(* a URL that carries a digest carries the answer's.  And nothing is passed *)
(* on that was read where no check let a redirect go: in particular not     *)
(* from the sidecar whose redirects the runtime follows unchecked.          *)
AnswerMatchesFile ==
  (found # None /\ found.url # Nowhere) =>
    /\ found.source = "native" => found.url.place = "native_file"
    /\ found.source = "github" => found.url.place \in {"release", "asset_store", "cdn"}
    /\ found.asset # None => found.asset.reported \in {None, found.sha}
    /\ found.url.sha \in {None, found.sha}
    /\ found.readAt.place \in {"nowhere", "native_file", "release", "asset_store"}

(* The sidecar that a release lists settles nothing but itself: once it is  *)
(* read, it is the answer if it is valid and lies with GitHub; if not, the  *)
(* release's artifact is looked at as if there were no sidecar.             *)
(* (versionFromGithub)                                                      *)
SidecarSettlesOnlyItself ==
  [][(step = "release_read" /\ step' # step) =>
       LET tag == Tags[attempt] IN
       IF IsAllowedGithubReleaseRedirect(at) /\ HasSidecar(tag)
       THEN FindSidecar(tag, at)
       ELSE TakeArtifact(world.releases[tag])]_<<world, request, fallback>>
=============================================================================
