---------------------------- MODULE PublicIntake ----------------------------
(***************************************************************************)
(* The two public forms (workers/public-intake/src/index.js): a page is    *)
(* rendered with an id, a time and the consent revision it shows; it is     *)
(* submitted, perhaps more than once and at the same time; each attempt is  *)
(* checked, its abuse proof spent at the verifier, and forwarded, signed,   *)
(* to the API, which is waited for until a deadline.  The Worker keeps      *)
(* nothing.  Person, verifier and API are external; the API stores under    *)
(* the Idempotency-Key it is given, and may do so after the deadline.       *)
(***************************************************************************)
EXTENDS Naturals, Sequences

CONSTANTS Env,           \* the Worker's bindings, one deployment after the other
          Kind,          \* the routes: each has its host and verifier action
          Body,          \* what a request body may be (see ParseError)
          Marketing,     \* whether a person consents to marketing too
          MaxPages,      \* pages a person opens
          MaxProofs,     \* challenges a person solves
          MaxAttempts,   \* submissions
          ConsentWindow, \* how old a consent may be (24 hours in the code)
          MaxClock,
          None

ASSUME IntakeAssumption ==
  /\ Len(Env) \in Nat \ {0} /\ DOMAIN Env = 1..Len(Env)
  /\ {MaxPages, MaxProofs, MaxAttempts, ConsentWindow, MaxClock} \subseteq Nat
  /\ \A d \in DOMAIN Env : {Env[d].siteKey, Env[d].secret, Env[d].signingKey} \subseteq BOOLEAN
  /\ Marketing \subseteq BOOLEAN
  /\ Body \subseteq {"good", "large", "undecodable", "media", "malformed", "trap", "invalid", "unfit"}
ASSUME NoneAssumption == None \notin {"retry", "final", "accepted"}

Attempt == 1..MaxAttempts

VARIABLES clock,
          deployed, \* which deployment takes new requests
          pages,    \* the pages opened, by number; the number is the requestId
          proofs,   \* for which route each challenge was solved, by number
          spent,    \* proofs the verifier has accepted
          req,      \* the attempts
          toApi,    \* forwarded requests the API has not handled
          stored    \* what the API stored

env == Env[deployed]
vars == <<clock, deployed, pages, proofs, spent, req, toApi, stored>>

Unused == [phase |-> "unused", page |-> 0, proof |-> 0, payload |-> None,
           signs |-> FALSE, reply |-> None, answer |-> None]

Init == /\ clock = 0
        /\ deployed = 1
        /\ pages = <<>> /\ proofs = <<>> /\ spent = {}
        /\ req = [n \in Attempt |-> Unused]
        /\ toApi = {} /\ stored = {}

(* The Worker keeps nothing of an answered attempt.                         *)
Answered(i, a) == [Unused EXCEPT !.phase = "answered", !.page = i, !.answer = a]
Answer(n, a) == req' = [req EXCEPT ![n] = Answered(IF a = "accepted" THEN req[n].page ELSE 0, a)]

-----------------------------------------------------------------------------
Tick == /\ clock < MaxClock
        /\ clock' = clock + 1
        /\ UNCHANGED <<deployed, pages, proofs, spent, req, toApi, stored>>

Deploy == /\ deployed < Len(Env)
          /\ deployed' = deployed + 1
          /\ UNCHANGED <<clock, pages, proofs, spent, req, toApi, stored>>

(* renderForm: without a site key or a revision there is no form.           *)
RenderForm(k) ==
  /\ Len(pages) < MaxPages
  /\ env.siteKey /\ env.revision # None
  /\ pages' = Append(pages, [kind |-> k, at |-> clock, revision |-> env.revision])
  /\ UNCHANGED <<clock, deployed, proofs, spent, req, toApi, stored>>

(* The challenge of an open page.                                           *)
SolveChallenge(k) ==
  /\ Len(proofs) < MaxProofs
  /\ \E i \in DOMAIN pages : pages[i].kind = k
  /\ proofs' = Append(proofs, k)
  /\ UNCHANGED <<clock, deployed, pages, spent, req, toApi, stored>>

-----------------------------------------------------------------------------
(* An attempt keeps the bindings of the deployment that took it.            *)
(* A submission up to the first call out: parseSubmission, validateOrigin,  *)
(* normalizePayload, the idempotency header, and whether there is a proof.  *)

(* Only an IntakeError is final: the error of a decoder is taken for an     *)
(* outage, and told to be retryable.                                        *)
ParseError(b) == IF b = "undecodable" THEN "retry" ELSE "final"

(* normalizeTimestamp: how long ago the consent was given.                  *)
Recent(p) == clock - p.at <= ConsentWindow

(* The time is the page's; the marketing revision is today's, not one the   *)
(* page showed.                                                             *)
Payload(p, marketing) == [revision |-> env.revision,
                          marketing |-> IF marketing THEN env.marketing ELSE None,
                          at |-> p.at]

(* An invalid body has a wrong schema, id or interest; an unfit one fails   *)
(* where the other fields are looked at, after the revisions.               *)
Refusal(b, origin, p, marketing) ==
  IF b \in Body \ {"good", "invalid", "unfit"} THEN ParseError(b)
  ELSE IF origin = "other" THEN "final"
  ELSE IF b = "invalid" THEN "final"
  ELSE IF env.revision = None THEN "retry"
  ELSE IF p.revision # env.revision THEN "final"
  ELSE IF marketing /\ env.marketing = None THEN "retry"
  ELSE IF b = "unfit" \/ ~Recent(p) THEN "final"
  ELSE IF ~env.secret THEN "final"
  ELSE None

NoProofNeeded(proof) == TRUE   \* variant: an empty proof goes to the verifier
HasProof(proof) == proof # 0

(* Of the fields a person fills in, the marketing consent stands for all.   *)
Submit(n, i, b, origin, proof, marketing) ==
  /\ req[n].phase = "unused"
  /\ \A m \in 1..(n - 1) : req[m].phase # "unused"
  /\ LET refused == Refusal(b, origin, pages[i], marketing) IN
       req' = [req EXCEPT ![n] =
                 IF refused # None \/ ~HasProof(proof)
                 THEN Answered(0, IF refused # None THEN refused ELSE "final")
                 ELSE [phase |-> "verifying", page |-> i, proof |-> proof,
                       payload |-> Payload(pages[i], marketing), signs |-> env.signingKey,
                       reply |-> None, answer |-> None]]
  /\ UNCHANGED <<clock, deployed, pages, proofs, spent, toApi, stored>>

-----------------------------------------------------------------------------
(* verifyTurnstile: the verifier spends a proof once; the Worker asks that  *)
(* it was for this host and action.  There is no deadline.                  *)

AnyAnswerWillDo(n) == TRUE   \* variant: an answer of 200 is taken for success
Succeeds(n) == /\ req[n].proof \notin spent
               /\ proofs[req[n].proof] = pages[req[n].page].kind

TurnstileAnswers(n) ==
  /\ req[n].phase = "verifying"
  /\ spent' = spent \cup {req[n].proof}
  /\ IF Succeeds(n)
     THEN req' = [req EXCEPT ![n].phase = "verified"]
     ELSE Answer(n, "final")
  /\ UNCHANGED <<clock, deployed, pages, proofs, toApi, stored>>

(* No usable answer; the verifier may have spent the proof all the same.    *)
TurnstileFails(n) ==
  /\ req[n].phase = "verifying"
  /\ spent' \in {spent, spent \cup {req[n].proof}}
  /\ Answer(n, "retry")
  /\ UNCHANGED <<clock, deployed, pages, proofs, toApi, stored>>

-----------------------------------------------------------------------------
(* forwardToApi.                                                            *)

KeyOfAttempt(n) == <<req[n].proof>>   \* variant: a key per attempt
IdempotencyKey(n) == <<req[n].page>>

ForwardToApi(n) ==
  /\ req[n].phase = "verified"
  /\ IF req[n].signs
     THEN /\ req' = [req EXCEPT ![n].phase = "waiting"]
          /\ toApi' = toApi \cup {[by |-> n, key |-> IdempotencyKey(n), page |-> req[n].page,
                                   proof |-> req[n].proof, payload |-> req[n].payload]}
     ELSE Answer(n, "retry") /\ UNCHANGED toApi
  /\ UNCHANGED <<clock, deployed, pages, proofs, spent, stored>>

(* The API takes a request, in time or not, and stores it unless its key is *)
(* known; or refuses it; or something in between answers.  A known key with *)
(* another body may be accepted or refused.                                 *)
Reply(n, reply) ==
  req' = IF req[n].phase = "waiting" THEN [req EXCEPT ![n].reply = reply] ELSE req

ApiStores(m) ==
  /\ m \in toApi
  /\ toApi' = toApi \ {m}
  /\ stored' = IF \E r \in stored : r.key = m.key THEN stored ELSE stored \cup {m}
  /\ Reply(m.by, "accepted")
  /\ UNCHANGED <<clock, deployed, pages, proofs, spent>>

ApiRefuses(m) ==
  /\ m \in toApi
  /\ toApi' = toApi \ {m}
  /\ \E reply \in {"rate_limited", "refused", "foreign"} : Reply(m.by, reply)
  /\ UNCHANGED <<clock, deployed, pages, proofs, spent, stored>>

Any202(reply) == IF reply = "refused" THEN "final"   \* variant: the body is not looked at
                 ELSE IF reply \in {"accepted", "foreign"} THEN "accepted" ELSE "retry"
AnswerTo(reply) == IF reply = "refused" THEN "final"
                   ELSE IF reply = "accepted" THEN "accepted" ELSE "retry"

HandleReply(n) ==
  /\ req[n].phase = "waiting" /\ req[n].reply # None
  /\ Answer(n, AnswerTo(req[n].reply))
  /\ UNCHANGED <<clock, deployed, pages, proofs, spent, toApi, stored>>

(* The deadline, or the connection, may fail before and after the API got   *)
(* the request.                                                             *)
NeverLate(n) == FALSE   \* variant: no deadline
Late(n) == req[n].phase = "waiting"
FinalWhenLate == "final"   \* variant: a timeout is a refusal
WhenLate == "retry"

ApiTimeout(n) == /\ Late(n)
                 /\ Answer(n, WhenLate)
                 /\ UNCHANGED <<clock, deployed, pages, proofs, spent, toApi, stored>>

RequestLost(m) == /\ m \in toApi
                  /\ toApi' = toApi \ {m}
                  /\ UNCHANGED <<clock, deployed, pages, proofs, spent, req, stored>>

-----------------------------------------------------------------------------
Worker(n) == TurnstileAnswers(n) \/ TurnstileFails(n) \/ ForwardToApi(n)
             \/ HandleReply(n) \/ ApiTimeout(n)

Next == \/ Tick \/ Deploy
        \/ \E k \in Kind : RenderForm(k) \/ SolveChallenge(k)
        \/ \E n \in Attempt, i \in DOMAIN pages, b \in Body, origin \in {"own", "other"},
              proof \in 0..Len(proofs), marketing \in Marketing :
             Submit(n, i, b, origin, proof, marketing)
        \/ \E n \in Attempt : Worker(n)
        \/ \E m \in toApi : ApiStores(m) \/ ApiRefuses(m) \/ RequestLost(m)

Spec == Init /\ [][Next]_vars

(* The Worker's own steps are taken, its deadline fires, and the verifier,  *)
(* for which there is no deadline, answers or fails in the end.  Nothing is *)
(* asked of the API.                                                        *)
FairSpec == Spec /\ \A n \in Attempt : WF_vars(Worker(n))

-----------------------------------------------------------------------------
Phase == {"unused", "verifying", "verified", "waiting", "answered"}
TypeOK ==
  /\ clock \in 0..MaxClock /\ deployed \in DOMAIN Env
  /\ \A n \in Attempt :
       /\ req[n].phase \in Phase
       /\ req[n].answer = "accepted" => req[n].page \in DOMAIN pages
       /\ req[n].phase \in {"verifying", "verified", "waiting"} =>
            req[n].page \in DOMAIN pages /\ req[n].proof \in DOMAIN proofs
       /\ req[n].phase = "answered" <=> req[n].answer # None
  /\ \A m \in toApi \cup stored : m.by \in Attempt /\ m.page \in DOMAIN pages
  /\ spent \subseteq DOMAIN proofs

(* A receipt is true: who is told that the request was received has it      *)
(* stored, whatever stood between the Worker and the API.  (forwardToApi)   *)
AcceptedIsStored ==
  \A n \in Attempt : req[n].answer = "accepted" => \E r \in stored : r.page = req[n].page

(* However often a page is submitted, at once or after answers that came    *)
(* too late, it is stored at most once.  (forwardToApi: Idempotency-Key)    *)
OneRecordPerPage == \A r, s \in stored : r.page = s.page => r = s

(* A proof brings at most one request to the API, and one of the page's own *)
(* route, also when two attempts carry it at once.  (verifyTurnstile)       *)
ProofPerForward ==
  \A m, n \in toApi \cup stored :
    /\ m.proof = n.proof => m.by = n.by
    /\ proofs[m.proof] = pages[m.page].kind

(* An attempt that is refused for good leaves nothing behind: nothing of it *)
(* is stored or on its way; what cannot be known is told to be retried.     *)
(* (errorResponse, forwardToApi)                                            *)
FinalLeavesNothing ==
  \A n \in Attempt : req[n].answer = "final" => \A m \in toApi \cup stored : m.by # n

(* Every submission is answered, also when the API never answers.           *)
(* (handle: API_TIMEOUT_MS)                                                 *)
EveryAttemptAnswered ==
  \A n \in Attempt : req[n].phase # "unused" ~> req[n].phase = "answered"
=============================================================================
