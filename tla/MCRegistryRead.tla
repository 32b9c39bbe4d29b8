--------------------------- MODULE MCRegistryRead ---------------------------
(***************************************************************************)
(* Small instances of RegistryRead.                                        *)
(***************************************************************************)
EXTENDS RegistryRead

CONSTANTS d1, d2

TarGzOf(d) == [sha256 |-> d, ext |-> "tar.gz"]
ZipOf(d) == [sha256 |-> d, ext |-> "zip"]
Plain(k) == [url |-> k, private |-> FALSE, fits |-> TRUE]

(* Version 1 is plain; 2 may withhold visibility in its body; 3 is too      *)
(* large for its reader.                                                    *)
SmallCandidate == <<{Plain(TarGzOf(d1))},
                    {Plain(ZipOf(d2)), [Plain(ZipOf(d2)) EXCEPT !.private = TRUE]},
                    {[Plain(TarGzOf(d1)) EXCEPT !.fits = FALSE]}>>

GET(route) == [route |-> route, method |-> "GET", odd |-> FALSE, version |-> 2, key |-> ZipOf(d2)]

(* Reads of the package, of versions 1 and 2, of bytes by digest, and one   *)
(* request per remaining route and refusal.                                 *)
Reads == {GET("package"), GET("version"), [GET("version") EXCEPT !.version = 3],
          GET("artifact"), GET("cdn_object")}
Others == {GET(r) : r \in {"unknown", "healthz", "search", "yank", "cdn_document", "cdn_release"}}
          \cup {[GET("yank") EXCEPT !.method = "POST"], [GET("search") EXCEPT !.method = "OPTIONS"],
                [GET("version") EXCEPT !.method = "PUT"], [GET("package") EXCEPT !.odd = TRUE]}
AllRequests == Reads \cup Others

Asset1 == [named |-> "digest", digest |-> d1, bytes |-> d1, reported |-> d1, expected |-> TRUE]
At(p) == [place |-> p, sha |-> None]
NoRelease == [v |-> None, plain |-> None]
TwoTags == <<"v", "plain">>

(* npm-like metadata without a digest; and no native registry, but two      *)
(* releases: one whose sidecar points elsewhere and whose asset's name      *)
(* contradicts GitHub's digest, one in order.                               *)
NativeWorld == [native |-> [public |-> TRUE, listed |-> TRUE, url |-> At("native_file"),
                            sha |-> None, sized |-> FALSE, bytes |-> d1],
                releases |-> NoRelease]
BadRelease == [draft |-> FALSE, listed |-> TRUE, assets |-> <<[Asset1 EXCEPT !.digest = d2]>>,
               sidecar |-> [matches |-> TRUE, sha |-> d1, url |-> At("elsewhere")]]
GoodRelease == [draft |-> FALSE, listed |-> FALSE, assets |-> <<Asset1>>,
                sidecar |-> [matches |-> TRUE, sha |-> d1, url |-> [place |-> "cdn", sha |-> d1]]]
GithubWorld == [native |-> None, releases |-> [v |-> BadRelease, plain |-> GoodRelease]]
SmallWorld == {NativeWorld, GithubWorld}

(* A release in perfect order, whose sidecar the REST API lists.            *)
ListedWorld == {[native |-> None, releases |-> [v |-> [GoodRelease EXCEPT !.listed = TRUE],
                                                plain |-> None]]}
OneRead == {GET("version")}
=============================================================================
