------------------------- MODULE PublicIntakeProofs -------------------------
(***************************************************************************)
(* What PublicIntake guarantees for any number of pages, proofs, attempts   *)
(* and deployments.                                                         *)
(***************************************************************************)
EXTENDS PublicIntake, TLAPS

Revision == {Env[d].revision : d \in DOMAIN Env}
Page == [kind: Kind, at: 0..MaxClock, revision: Revision]
Payloads == [revision: Revision, at: 0..MaxClock,
             marketing: {Env[d].marketing : d \in DOMAIN Env} \cup {None}]
Replies == {"accepted", "rate_limited", "refused", "foreign", None}
Answers == {"accepted", "final", "retry", None}
Record == [phase: Phase, page: Nat, proof: Nat, payload: Payloads \cup {None},
           signs: BOOLEAN, reply: Replies, answer: Answers]

Shape == /\ clock \in 0..MaxClock /\ deployed \in DOMAIN Env
         /\ pages \in Seq(Page) /\ proofs \in Seq(Kind)
         /\ req \in [Attempt -> Record]
         /\ spent \subseteq DOMAIN proofs

(* An attempt on its way has its page and its proof, and no answer; its     *)
(* reply is there only while it waits.                                      *)
UnderWay == \A n \in Attempt :
  /\ req[n].phase \in {"verifying", "verified", "waiting"} =>
       req[n].page \in DOMAIN pages /\ req[n].proof \in DOMAIN proofs
  /\ req[n].answer = "accepted" => req[n].page \in DOMAIN pages
  /\ req[n].phase = "answered" <=> req[n].answer # None
  /\ req[n].reply # None => req[n].phase = "waiting"

Sent == toApi \cup stored

(* A request to the API is that of an attempt which has forwarded it, with  *)
(* that attempt's page in its key and a proof that was spent for it.        *)
Genuine(m) == /\ m.by \in Attempt
              /\ m.page \in DOMAIN pages
              /\ m.key = <<m.page>>
              /\ m.proof \in spent
              /\ proofs[m.proof] = pages[m.page].kind
              /\ req[m.by].phase \in {"waiting", "answered"}
              /\ req[m.by].phase = "waiting" => m.page = req[m.by].page

AllGenuine == \A m \in Sent : Genuine(m)

(* An attempt has sent one request, which is on its way or stored or gone.  *)
OnePerAttempt == \A m, k \in Sent : m.by = k.by => m = k
OnItsWay == \A m \in toApi : m \notin stored /\ req[m.by].reply = None

(* A verified proof was spent by its attempt and has not been sent yet.     *)
Fresh == \A n \in Attempt : req[n].phase = "verified" =>
           /\ req[n].proof \in spent
           /\ proofs[req[n].proof] = pages[req[n].page].kind
           /\ \A m \in Sent : m.proof # req[n].proof
           /\ \A k \in Attempt : (k # n /\ req[k].phase = "verified") => req[k].proof # req[n].proof

(* The API's replies are true.                                              *)
RepliesTrue == \A n \in Attempt : req[n].phase = "waiting" =>
  /\ req[n].reply = "accepted" => \E r \in stored : r.page = req[n].page
  /\ req[n].reply # "accepted" => \A r \in stored : r.by # n

KeysDiffer == \A r, s \in stored : r.key = s.key => r = s

IntakeInv == /\ Shape /\ UnderWay /\ AllGenuine /\ OnePerAttempt /\ OnItsWay /\ Fresh /\ RepliesTrue
             /\ KeysDiffer /\ ProofPerForward /\ AcceptedIsStored /\ FinalLeavesNothing

LEMMA IntakeInit == Init => IntakeInv
<1> SUFFICES ASSUME Init
             PROVE  IntakeInv
  OBVIOUS
<1>1. Unused \in Record
  BY DEF Unused, Record, Phase, Replies, Answers
<1>2. \A n \in Attempt : req[n] = Unused
  BY DEF Init
<1>3. Shape
  BY <1>1, IntakeAssumption DEF Init, Shape
<1>4. UnderWay
  BY <1>2, NoneAssumption DEF UnderWay, Unused
<1>5. Fresh /\ RepliesTrue /\ AcceptedIsStored /\ FinalLeavesNothing
  BY <1>2, NoneAssumption DEF Fresh, RepliesTrue, AcceptedIsStored, FinalLeavesNothing, Unused
<1>6. AllGenuine /\ OnePerAttempt /\ OnItsWay /\ KeysDiffer /\ ProofPerForward
  BY DEF Init, AllGenuine, OnePerAttempt, OnItsWay, KeysDiffer, ProofPerForward, Sent
<1> QED
  BY <1>3, <1>4, <1>5, <1>6 DEF IntakeInv

-----------------------------------------------------------------------------
(* What is opened and solved stays.                                         *)

LEMMA PagesGrow ==
  ASSUME IntakeInv, NEW p \in Page, pages' = Append(pages, p),
         UNCHANGED <<clock, deployed, proofs, spent, req, toApi, stored>>
  PROVE  IntakeInv'
<1>1. /\ pages \in Seq(Page) /\ pages' \in Seq(Page)
      /\ DOMAIN pages \subseteq DOMAIN pages'
      /\ \A i \in DOMAIN pages : pages'[i] = pages[i]
  BY DEF IntakeInv, Shape
<1>2. Shape' /\ UnderWay'
  BY <1>1 DEF IntakeInv, Shape, UnderWay
<1>3. AllGenuine' /\ OnePerAttempt' /\ OnItsWay'
  BY <1>1 DEF IntakeInv, AllGenuine, OnePerAttempt, OnItsWay, Genuine, Sent
<1>4. Fresh' /\ RepliesTrue' /\ KeysDiffer'
  BY <1>1 DEF IntakeInv, Fresh, RepliesTrue, KeysDiffer, Sent, UnderWay
<1>5. ProofPerForward' /\ AcceptedIsStored' /\ FinalLeavesNothing'
  BY <1>1 DEF IntakeInv, ProofPerForward, AcceptedIsStored, FinalLeavesNothing, AllGenuine, Genuine,
              Sent
<1> QED
  BY <1>2, <1>3, <1>4, <1>5 DEF IntakeInv

LEMMA ProofsGrow ==
  ASSUME IntakeInv, NEW k \in Kind, proofs' = Append(proofs, k),
         UNCHANGED <<clock, deployed, pages, spent, req, toApi, stored>>
  PROVE  IntakeInv'
<1>1. /\ proofs \in Seq(Kind) /\ proofs' \in Seq(Kind)
      /\ DOMAIN proofs \subseteq DOMAIN proofs'
      /\ \A i \in DOMAIN proofs : proofs'[i] = proofs[i]
      /\ spent \subseteq DOMAIN proofs
  BY DEF IntakeInv, Shape
<1>2. Shape' /\ UnderWay'
  BY <1>1 DEF IntakeInv, Shape, UnderWay
<1>3. AllGenuine' /\ OnePerAttempt' /\ OnItsWay'
  BY <1>1 DEF IntakeInv, AllGenuine, OnePerAttempt, OnItsWay, Genuine, Sent
<1>4. Fresh' /\ RepliesTrue' /\ KeysDiffer'
  BY <1>1 DEF IntakeInv, Fresh, RepliesTrue, KeysDiffer, Sent
<1>5. ProofPerForward' /\ AcceptedIsStored' /\ FinalLeavesNothing'
  BY <1>1 DEF IntakeInv, ProofPerForward, AcceptedIsStored, FinalLeavesNothing, AllGenuine, Genuine,
              Sent
<1> QED
  BY <1>2, <1>3, <1>4, <1>5 DEF IntakeInv

LEMMA TickStep ==
  ASSUME IntakeInv, Tick
  PROVE  IntakeInv'
<1>1. clock' \in 0..MaxClock
  BY IntakeAssumption DEF Tick, IntakeInv, Shape
<1> QED
  BY <1>1 DEF Tick, IntakeInv, Shape, UnderWay, AllGenuine, Genuine, OnePerAttempt, OnItsWay, Fresh,
              RepliesTrue, KeysDiffer, ProofPerForward, AcceptedIsStored, FinalLeavesNothing, Sent

LEMMA DeployStep ==
  ASSUME IntakeInv, Deploy
  PROVE  IntakeInv'
<1>1. deployed' \in DOMAIN Env
  BY IntakeAssumption DEF Deploy, IntakeInv, Shape
<1> QED
  BY <1>1 DEF Deploy, IntakeInv, Shape, UnderWay, AllGenuine, Genuine, OnePerAttempt, OnItsWay,
              Fresh, RepliesTrue, KeysDiffer, ProofPerForward, AcceptedIsStored, FinalLeavesNothing,
              Sent

LEMMA RenderStep ==
  ASSUME IntakeInv, NEW k \in Kind, RenderForm(k)
  PROVE  IntakeInv'
<1>1. [kind |-> k, at |-> clock, revision |-> env.revision] \in Page
  BY DEF Page, Revision, IntakeInv, Shape, env
<1> QED
  BY <1>1, PagesGrow DEF RenderForm

LEMMA SolveStep ==
  ASSUME IntakeInv, NEW k \in Kind, SolveChallenge(k)
  PROVE  IntakeInv'
BY ProofsGrow DEF SolveChallenge

-----------------------------------------------------------------------------
(* An answer: what is told for good leaves nothing, what is told to be      *)
(* accepted is stored.  The verifier may have spent the proof.              *)

LEMMA AnswerStep ==
  ASSUME IntakeInv, NEW n \in Attempt, NEW a \in {"accepted", "final", "retry"},
         req[n].phase \in {"verifying", "verified", "waiting"},
         Answer(n, a),
         spent' \in {spent, spent \cup {req[n].proof}},
         a = "final" => \A m \in Sent : m.by # n,
         a = "accepted" => \E r \in stored : r.page = req[n].page,
         UNCHANGED <<clock, deployed, pages, proofs, toApi, stored>>
  PROVE  IntakeInv'
<1> DEFINE kept == IF a = "accepted" THEN req[n].page ELSE 0
<1>1. /\ req \in [Attempt -> Record]
      /\ req[n].page \in DOMAIN pages /\ req[n].proof \in DOMAIN proofs
      /\ pages \in Seq(Page)
  BY DEF IntakeInv, Shape, UnderWay
<1>2. kept \in Nat
  BY <1>1 DEF Record
<1>3. /\ Answered(kept, a) \in Record
      /\ Answered(kept, a).phase = "answered" /\ Answered(kept, a).page = kept
      /\ Answered(kept, a).answer = a /\ Answered(kept, a).reply = None
  BY <1>2 DEF Answered, Unused, Record, Phase, Replies, Answers
<1>4. /\ req' \in [Attempt -> Record]
      /\ req'[n] = Answered(kept, a)
      /\ \A k \in Attempt : k # n => req'[k] = req[k]
  BY <1>1, <1>3 DEF Answer
<1>5. a # None
  BY NoneAssumption
<1> HIDE DEF kept
<1>6. Shape'
  BY <1>1, <1>4 DEF IntakeInv, Shape
<1>7. UnderWay'
  <2> SUFFICES ASSUME NEW k \in Attempt
               PROVE  /\ req'[k].phase \in {"verifying", "verified", "waiting"} =>
                           req'[k].page \in DOMAIN pages /\ req'[k].proof \in DOMAIN proofs
                      /\ req'[k].answer = "accepted" => req'[k].page \in DOMAIN pages
                      /\ req'[k].phase = "answered" <=> req'[k].answer # None
                      /\ req'[k].reply # None => req'[k].phase = "waiting"
    BY DEF UnderWay
  <2>1. CASE k = n
    <3>1. a = "accepted" => kept = req[n].page
      BY DEF kept
    <3> QED
      BY <2>1, <3>1, <1>1, <1>3, <1>4, <1>5
  <2>2. CASE k # n
    BY <2>2, <1>4 DEF IntakeInv, UnderWay
  <2> QED
    BY <2>1, <2>2
<1>8. AllGenuine'
  BY <1>3, <1>4 DEF IntakeInv, AllGenuine, Genuine, Sent
<1>9. OnePerAttempt' /\ KeysDiffer' /\ ProofPerForward'
  BY DEF IntakeInv, OnePerAttempt, KeysDiffer, ProofPerForward, Sent
<1>10. OnItsWay'
  BY <1>3, <1>4 DEF IntakeInv, OnItsWay, AllGenuine, Genuine, Sent
<1>11. Fresh'
  BY <1>3, <1>4 DEF IntakeInv, Fresh, Sent
<1>12. RepliesTrue'
  BY <1>3, <1>4 DEF IntakeInv, RepliesTrue
<1>13. AcceptedIsStored'
  BY <1>3, <1>4 DEF IntakeInv, AcceptedIsStored, kept
<1>14. FinalLeavesNothing'
  BY <1>3, <1>4 DEF IntakeInv, FinalLeavesNothing, Sent
<1> QED
  BY <1>6, <1>7, <1>8, <1>9, <1>10, <1>11, <1>12, <1>13, <1>14 DEF IntakeInv

(* An attempt that has not been forwarded has sent nothing.                 *)
LEMMA NothingSentYet ==
  ASSUME IntakeInv, NEW n \in Attempt, req[n].phase \notin {"waiting", "answered"}
  PROVE  \A m \in Sent : m.by # n
BY DEF IntakeInv, AllGenuine, Genuine

LEMMA SubmitStep ==
  ASSUME IntakeInv, NEW n \in Attempt, NEW i \in DOMAIN pages, NEW b \in Body,
         NEW origin \in {"own", "other"}, NEW proof \in 0..Len(proofs), NEW marketing \in Marketing,
         Submit(n, i, b, origin, proof, marketing)
  PROVE  IntakeInv'
<1> DEFINE refused == Refusal(b, origin, pages[i], marketing)
           told == IF refused # None THEN refused ELSE "final"
           begun == [phase |-> "verifying", page |-> i, proof |-> proof,
                     payload |-> Payload(pages[i], marketing), signs |-> env.signingKey,
                     reply |-> None, answer |-> None]
<1>1. /\ req \in [Attempt -> Record] /\ clock \in 0..MaxClock /\ deployed \in DOMAIN Env
      /\ pages \in Seq(Page) /\ proofs \in Seq(Kind) /\ i \in Nat
      /\ UNCHANGED <<clock, deployed, pages, proofs, spent, toApi, stored>>
      /\ req[n].phase = "unused"
  BY DEF IntakeInv, Shape, Submit
<1>2. refused \in {"retry", "final", None}
  BY DEF Refusal, ParseError
<1>3. told \in {"retry", "final"} /\ told # None
  BY <1>2, NoneAssumption
<1>4. /\ Answered(0, told) \in Record
      /\ Answered(0, told).phase = "answered" /\ Answered(0, told).answer = told
      /\ Answered(0, told).reply = None
  BY <1>3 DEF Answered, Unused, Record, Phase, Replies, Answers
<1>5. proof # 0 => proof \in DOMAIN proofs /\ proof \in Nat
  BY <1>1
<1>6. env.revision \in Revision /\ env.signingKey \in BOOLEAN
      /\ Payload(pages[i], marketing) \in Payloads
  <2>1. pages[i] \in Page
    BY <1>1
  <2>2. pages[i].at \in 0..MaxClock
    BY <2>1 DEF Page
  <2> QED
    BY <1>1, <2>2, IntakeAssumption DEF env, Revision, Payload, Payloads
<1>7. /\ begun \in Record
      /\ begun.phase = "verifying" /\ begun.page = i /\ begun.proof = proof
      /\ begun.reply = None /\ begun.answer = None
  <2>1. proof \in Nat
    BY <1>1
  <2> QED
    BY <1>1, <1>6, <2>1 DEF Record, Phase, Replies, Answers
<1>8. \/ req' = [req EXCEPT ![n] = Answered(0, told)]
      \/ HasProof(proof) /\ req' = [req EXCEPT ![n] = begun]
  BY DEF Submit
<1>9. \A m \in Sent : m.by # n
  BY <1>1, NothingSentYet
<1> HIDE DEF refused, told, begun
<1>10. CASE req' = [req EXCEPT ![n] = Answered(0, told)]
  <2>1. /\ req' \in [Attempt -> Record] /\ req'[n] = Answered(0, told)
        /\ \A k \in Attempt : k # n => req'[k] = req[k]
    BY <1>1, <1>4, <1>10
  <2>2. Shape' /\ UnderWay'
    BY <1>1, <1>3, <1>4, <2>1 DEF IntakeInv, Shape, UnderWay
  <2>3. AllGenuine' /\ OnePerAttempt' /\ OnItsWay'
    BY <1>1, <1>9, <2>1 DEF IntakeInv, AllGenuine, Genuine, OnePerAttempt, OnItsWay, Sent
  <2>4. Fresh' /\ RepliesTrue'
    <3>1. \A k \in Attempt : req'[k].phase \in {"verified", "waiting"} => k # n /\ req'[k] = req[k]
      BY <1>4, <2>1
    <3>2. Fresh'
      BY <1>1, <3>1 DEF IntakeInv, Fresh, Sent
    <3>3. RepliesTrue'
      BY <1>1, <3>1 DEF IntakeInv, RepliesTrue
    <3> QED
      BY <3>2, <3>3
  <2>5. KeysDiffer' /\ ProofPerForward' /\ AcceptedIsStored' /\ FinalLeavesNothing'
    BY <1>1, <1>3, <1>4, <1>9, <2>1
       DEF IntakeInv, KeysDiffer, ProofPerForward, AcceptedIsStored, FinalLeavesNothing, Sent
  <2> QED
    BY <2>2, <2>3, <2>4, <2>5 DEF IntakeInv
<1>11. CASE HasProof(proof) /\ req' = [req EXCEPT ![n] = begun]
  <2>1. /\ req' \in [Attempt -> Record] /\ req'[n] = begun /\ proof \in DOMAIN proofs
        /\ \A k \in Attempt : k # n => req'[k] = req[k]
    BY <1>1, <1>5, <1>7, <1>11 DEF HasProof
  <2>2. Shape' /\ UnderWay'
    BY <1>1, <1>7, <2>1, NoneAssumption DEF IntakeInv, Shape, UnderWay
  <2>3. AllGenuine' /\ OnePerAttempt' /\ OnItsWay'
    BY <1>1, <1>9, <2>1 DEF IntakeInv, AllGenuine, Genuine, OnePerAttempt, OnItsWay, Sent
  <2>4. Fresh' /\ RepliesTrue'
    <3>1. \A k \in Attempt : req'[k].phase \in {"verified", "waiting"} => k # n /\ req'[k] = req[k]
      BY <1>7, <2>1
    <3>2. Fresh'
      BY <1>1, <3>1 DEF IntakeInv, Fresh, Sent
    <3>3. RepliesTrue'
      BY <1>1, <3>1 DEF IntakeInv, RepliesTrue
    <3> QED
      BY <3>2, <3>3
  <2>5. KeysDiffer' /\ ProofPerForward' /\ AcceptedIsStored' /\ FinalLeavesNothing'
    BY <1>1, <1>7, <1>9, <2>1, NoneAssumption
       DEF IntakeInv, KeysDiffer, ProofPerForward, AcceptedIsStored, FinalLeavesNothing, Sent
  <2> QED
    BY <2>2, <2>3, <2>4, <2>5 DEF IntakeInv
<1> QED
  BY <1>8, <1>10, <1>11

LEMMA TurnstileAnswersStep ==
  ASSUME IntakeInv, NEW n \in Attempt, TurnstileAnswers(n)
  PROVE  IntakeInv'
<1>1. /\ req[n].phase = "verifying" /\ spent' = spent \cup {req[n].proof}
      /\ UNCHANGED <<clock, deployed, pages, proofs, toApi, stored>>
  BY DEF TurnstileAnswers
<1>2. \A m \in Sent : m.by # n
  BY <1>1, NothingSentYet
<1>3. CASE ~Succeeds(n)
  <2>1. Answer(n, "final")
    BY <1>3 DEF TurnstileAnswers
  <2> QED
    BY <1>1, <1>2, <2>1, AnswerStep
<1>4. CASE Succeeds(n)
  <2>1. /\ req \in [Attempt -> Record]
        /\ req' = [req EXCEPT ![n] = [req[n] EXCEPT !.phase = "verified"]]
    BY <1>4 DEF TurnstileAnswers, IntakeInv, Shape
  <2>2. [req[n] EXCEPT !.phase = "verified"] \in Record
    BY <2>1 DEF Record, Phase
  <2>3. /\ req' \in [Attempt -> Record]
        /\ req'[n].phase = "verified" /\ req'[n].page = req[n].page
        /\ req'[n].proof = req[n].proof /\ req'[n].reply = req[n].reply
        /\ req'[n].answer = req[n].answer
        /\ \A k \in Attempt : k # n => req'[k] = req[k]
    BY <2>1, <2>2 DEF Record
  <2>4. Shape' /\ UnderWay'
    BY <1>1, <2>3 DEF IntakeInv, Shape, UnderWay
  <2>5. AllGenuine' /\ OnePerAttempt' /\ OnItsWay'
    BY <1>1, <1>2, <2>3 DEF IntakeInv, AllGenuine, Genuine, OnePerAttempt, OnItsWay, Sent
  <2>6. Fresh'
    <3>1. \A m \in Sent : m.proof # req[n].proof
      BY <1>4 DEF Succeeds, IntakeInv, AllGenuine, Genuine
    <3>2. \A k \in Attempt : (k # n /\ req[k].phase = "verified") => req[k].proof # req[n].proof
      BY <1>4 DEF Succeeds, IntakeInv, Fresh
    <3> QED
      BY <1>1, <1>4, <2>3, <3>1, <3>2 DEF IntakeInv, Fresh, Succeeds, Sent
  <2>7. RepliesTrue' /\ KeysDiffer' /\ ProofPerForward'
    BY <1>1, <2>3 DEF IntakeInv, RepliesTrue, KeysDiffer, ProofPerForward, Sent
  <2>8. AcceptedIsStored' /\ FinalLeavesNothing'
    BY <1>1, <1>2, <2>3 DEF IntakeInv, AcceptedIsStored, FinalLeavesNothing, Sent
  <2> QED
    BY <2>4, <2>5, <2>6, <2>7, <2>8 DEF IntakeInv
<1> QED
  BY <1>3, <1>4

LEMMA TurnstileFailsStep ==
  ASSUME IntakeInv, NEW n \in Attempt, TurnstileFails(n)
  PROVE  IntakeInv'
BY AnswerStep DEF TurnstileFails

-----------------------------------------------------------------------------
(* The request and its proof leave together: the proof was not sent before. *)
LEMMA ForwardStep ==
  ASSUME IntakeInv, NEW n \in Attempt, ForwardToApi(n)
  PROVE  IntakeInv'
<1>1. /\ req[n].phase = "verified"
      /\ UNCHANGED <<clock, deployed, pages, proofs, spent, stored>>
  BY DEF ForwardToApi
<1>2. \A m \in Sent : m.by # n
  BY <1>1, NothingSentYet
<1>3. CASE ~req[n].signs
  <2>1. Answer(n, "retry") /\ UNCHANGED toApi
    BY <1>3 DEF ForwardToApi
  <2> QED
    BY <1>1, <2>1, AnswerStep
<1>4. CASE req[n].signs
  <2>0. PICK m : m = [by |-> n, key |-> IdempotencyKey(n), page |-> req[n].page,
                      proof |-> req[n].proof, payload |-> req[n].payload]
    OBVIOUS
  <2>1. /\ req \in [Attempt -> Record]
        /\ req' = [req EXCEPT ![n] = [req[n] EXCEPT !.phase = "waiting"]]
        /\ toApi' = toApi \cup {m}
    BY <1>4, <2>0 DEF ForwardToApi, IntakeInv, Shape
  <2>2. [req[n] EXCEPT !.phase = "waiting"] \in Record
    BY <2>1 DEF Record, Phase
  <2>3. /\ req' \in [Attempt -> Record]
        /\ req'[n].phase = "waiting" /\ req'[n].page = req[n].page
        /\ req'[n].proof = req[n].proof /\ req'[n].reply = req[n].reply
        /\ req'[n].answer = req[n].answer
        /\ \A k \in Attempt : k # n => req'[k] = req[k]
    BY <2>1, <2>2 DEF Record
  <2>4. m.by = n /\ m.key = <<req[n].page>> /\ m.page = req[n].page /\ m.proof = req[n].proof
    BY <2>0 DEF IdempotencyKey
  <2>5. /\ req[n].page \in DOMAIN pages /\ req[n].reply = None
        /\ req[n].proof \in spent
        /\ proofs[req[n].proof] = pages[req[n].page].kind
        /\ \A k \in Sent : k.proof # req[n].proof
        /\ \A k \in Attempt : (k # n /\ req[k].phase = "verified") => req[k].proof # req[n].proof
    BY <1>1 DEF IntakeInv, UnderWay, Fresh
  <2>6. Sent' = Sent \cup {m} /\ m \notin Sent
    BY <1>1, <1>2, <2>1, <2>4 DEF Sent
  <2>7. Shape' /\ UnderWay'
    BY <1>1, <2>3 DEF IntakeInv, Shape, UnderWay
  <2>8. AllGenuine'
    <3>1. Genuine(m)'
      BY <1>1, <2>3, <2>4, <2>5 DEF Genuine
    <3>2. ASSUME NEW k \in Sent
          PROVE  Genuine(k)'
      BY <1>1, <1>2, <2>3 DEF IntakeInv, AllGenuine, Genuine
    <3> QED
      BY <3>1, <3>2, <2>6 DEF AllGenuine
  <2>9. OnePerAttempt'
    BY <1>2, <2>4, <2>6 DEF IntakeInv, OnePerAttempt
  <2>10. OnItsWay'
    <3>1. \A k \in toApi : k \notin stored' /\ req'[k.by].reply = None
      BY <1>1, <1>2, <2>3 DEF IntakeInv, OnItsWay, AllGenuine, Genuine, Sent
    <3>2. m \notin stored' /\ req'[m.by].reply = None
      BY <1>1, <2>3, <2>4, <2>5, <2>6 DEF Sent
    <3> QED
      BY <3>1, <3>2, <2>1 DEF OnItsWay
  <2>11. Fresh'
    <3>1. \A k \in Attempt : req'[k].phase = "verified" => k # n /\ req'[k] = req[k]
      BY <2>3
    <3> QED
      BY <1>1, <2>4, <2>5, <2>6, <3>1 DEF IntakeInv, Fresh
  <2>12. RepliesTrue' /\ KeysDiffer'
    <3>1. KeysDiffer'
      BY <1>1 DEF IntakeInv, KeysDiffer
    <3>2. \A r \in stored : r.by # n
      BY <1>2 DEF Sent
    <3>3. RepliesTrue'
      BY <1>1, <2>3, <2>5, <3>2, NoneAssumption DEF IntakeInv, RepliesTrue
    <3> QED
      BY <3>1, <3>3
  <2>13. ProofPerForward'
    <3> SUFFICES ASSUME NEW a \in Sent', NEW b \in Sent'
                 PROVE  /\ a.proof = b.proof => a.by = b.by
                        /\ proofs[a.proof] = pages[a.page].kind
      BY <1>1 DEF ProofPerForward, Sent
    <3>1. \A k \in Sent : k.proof # m.proof
      BY <2>4, <2>5
    <3>2. \A k, j \in Sent : k.proof = j.proof => k.by = j.by
      BY DEF IntakeInv, ProofPerForward, Sent
    <3>3. proofs[a.proof] = pages[a.page].kind
      BY <2>8, <1>1 DEF AllGenuine, Genuine
    <3> QED
      BY <2>6, <3>1, <3>2, <3>3
  <2>14. AcceptedIsStored' /\ FinalLeavesNothing'
    <3>1. AcceptedIsStored'
      BY <1>1, <2>3 DEF IntakeInv, AcceptedIsStored
    <3>2. req[n].answer = None
      BY <1>1 DEF IntakeInv, UnderWay
    <3>3. FinalLeavesNothing'
      BY <2>3, <2>4, <2>6, <3>2, NoneAssumption DEF IntakeInv, FinalLeavesNothing, Sent
    <3> QED
      BY <3>1, <3>3
  <2> QED
    BY <2>7, <2>8, <2>9, <2>10, <2>11, <2>12, <2>13, <2>14 DEF IntakeInv
<1> QED
  BY <1>3, <1>4

-----------------------------------------------------------------------------
(* What a reply changes of the attempt it is for, if that still waits.      *)
LEMMA ReplyShape ==
  ASSUME IntakeInv, NEW n \in Attempt, NEW reply \in Replies, Reply(n, reply)
  PROVE  /\ req' \in [Attempt -> Record]
         /\ \A k \in Attempt : /\ req'[k].phase = req[k].phase /\ req'[k].page = req[k].page
                               /\ req'[k].proof = req[k].proof /\ req'[k].answer = req[k].answer
                               /\ k # n => req'[k].reply = req[k].reply
         /\ req[n].phase = "waiting" => req'[n].reply = reply
         /\ req[n].phase # "waiting" => req'[n].reply = req[n].reply
<1>1. req \in [Attempt -> Record]
  BY DEF IntakeInv, Shape
<1>2. CASE req[n].phase = "waiting"
  <2>1. req' = [req EXCEPT ![n] = [req[n] EXCEPT !.reply = reply]]
    BY <1>1, <1>2 DEF Reply
  <2>2. [req[n] EXCEPT !.reply = reply] \in Record
    BY <1>1 DEF Record
  <2> QED
    BY <1>1, <1>2, <2>1, <2>2 DEF Record
<1>3. CASE req[n].phase # "waiting"
  BY <1>1, <1>3 DEF Reply
<1> QED
  BY <1>2, <1>3

LEMMA StoreStep ==
  ASSUME IntakeInv, NEW m \in toApi, ApiStores(m)
  PROVE  IntakeInv'
<1>1. /\ toApi' = toApi \ {m}
      /\ UNCHANGED <<clock, deployed, pages, proofs, spent>>
      /\ m \in Sent /\ m \notin stored /\ Genuine(m) /\ m.by \in Attempt
  BY DEF ApiStores, IntakeInv, AllGenuine, OnItsWay, Genuine, Sent
<1>2. /\ req' \in [Attempt -> Record]
      /\ \A k \in Attempt : /\ req'[k].phase = req[k].phase /\ req'[k].page = req[k].page
                            /\ req'[k].proof = req[k].proof /\ req'[k].answer = req[k].answer
                            /\ k # m.by => req'[k].reply = req[k].reply
      /\ req[m.by].phase = "waiting" => req'[m.by].reply = "accepted"
      /\ req[m.by].phase # "waiting" => req'[m.by].reply = req[m.by].reply
  BY <1>1, ReplyShape DEF ApiStores, Replies
<1>3. stored \subseteq stored' /\ stored' \subseteq stored \cup {m} /\ Sent' \subseteq Sent
  BY <1>1 DEF ApiStores, Sent
<1>4. \E r \in stored' : r.page = m.page
  <2>1. CASE \E r \in stored : r.key = m.key
    <3>1. PICK r \in stored : r.key = m.key
      BY <2>1
    <3>2. r.key = <<r.page>> /\ m.key = <<m.page>>
      BY <1>1 DEF IntakeInv, AllGenuine, Genuine, Sent
    <3>3. <<r.page>>[1] = r.page /\ <<m.page>>[1] = m.page
      OBVIOUS
    <3>4. r.page = m.page
      BY <3>1, <3>2, <3>3, Zenon
    <3> QED
      BY <1>3, <3>1, <3>4
  <2>2. CASE ~\E r \in stored : r.key = m.key
    BY <2>2 DEF ApiStores
  <2> QED
    BY <2>1, <2>2
<1>5. Shape' /\ UnderWay'
  <2>1. Shape'
    BY <1>1, <1>2 DEF IntakeInv, Shape
  <2>2. UnderWay'
    BY <1>1, <1>2 DEF IntakeInv, UnderWay
  <2> QED
    BY <2>1, <2>2
<1>6. AllGenuine' /\ OnePerAttempt' /\ ProofPerForward'
  <2>1. AllGenuine'
    BY <1>1, <1>2, <1>3 DEF IntakeInv, AllGenuine, Genuine
  <2>2. OnePerAttempt'
    BY <1>3 DEF IntakeInv, OnePerAttempt
  <2>3. ProofPerForward'
    BY <1>1, <1>3 DEF IntakeInv, ProofPerForward, Sent
  <2> QED
    BY <2>1, <2>2, <2>3
<1>7. OnItsWay'
  <2> SUFFICES ASSUME NEW k \in toApi, k # m
               PROVE  k \notin stored' /\ req'[k.by].reply = None
    BY <1>1 DEF OnItsWay
  <2>1. k.by # m.by /\ k.by \in Attempt
    BY <1>1 DEF IntakeInv, OnePerAttempt, AllGenuine, Genuine, Sent
  <2> QED
    BY <1>2, <1>3, <2>1 DEF IntakeInv, OnItsWay
<1>8. Fresh'
  BY <1>1, <1>2, <1>3 DEF IntakeInv, Fresh
<1>9. RepliesTrue'
  <2> SUFFICES ASSUME NEW k \in Attempt, req'[k].phase = "waiting"
               PROVE  /\ req'[k].reply = "accepted" => \E r \in stored' : r.page = req'[k].page
                      /\ req'[k].reply # "accepted" => \A r \in stored' : r.by # k
    BY DEF RepliesTrue
  <2>1. CASE k = m.by
    BY <1>1, <1>2, <1>4, <2>1 DEF Genuine
  <2>2. CASE k # m.by
    BY <1>2, <1>3, <2>2 DEF IntakeInv, RepliesTrue
  <2> QED
    BY <2>1, <2>2
<1>10. KeysDiffer'
  BY <1>3 DEF ApiStores, IntakeInv, KeysDiffer
<1>11. AcceptedIsStored' /\ FinalLeavesNothing'
  <2>1. AcceptedIsStored'
    BY <1>2, <1>3 DEF IntakeInv, AcceptedIsStored
  <2>2. FinalLeavesNothing'
    BY <1>2, <1>3 DEF IntakeInv, FinalLeavesNothing, Sent
  <2> QED
    BY <2>1, <2>2
<1> QED
  BY <1>5, <1>6, <1>7, <1>8, <1>9, <1>10, <1>11 DEF IntakeInv

(* A request that is refused or lost is gone.                               *)
LEMMA GoneStep ==
  ASSUME IntakeInv, NEW m \in toApi, toApi' = toApi \ {m},
         NEW reply \in {"rate_limited", "refused", "foreign"},
         Reply(m.by, reply) \/ UNCHANGED req,
         UNCHANGED <<clock, deployed, pages, proofs, spent, stored>>
  PROVE  IntakeInv'
<1>1. m \in Sent /\ m \notin stored /\ m.by \in Attempt /\ reply # "accepted"
      /\ req \in [Attempt -> Record]
  BY DEF IntakeInv, AllGenuine, OnItsWay, Genuine, Sent, Shape
<1>2. /\ req' \in [Attempt -> Record]
      /\ \A k \in Attempt : /\ req'[k].phase = req[k].phase /\ req'[k].page = req[k].page
                            /\ req'[k].proof = req[k].proof /\ req'[k].answer = req[k].answer
                            /\ k # m.by => req'[k].reply = req[k].reply
      /\ req'[m.by].reply = req[m.by].reply \/ (req[m.by].phase = "waiting" /\ req'[m.by].reply = reply)
  BY <1>1, ReplyShape DEF Replies
<1>3. Sent' \subseteq Sent
  BY DEF Sent
<1>4. Shape' /\ UnderWay'
  <2>1. Shape'
    BY <1>1, <1>2 DEF IntakeInv, Shape
  <2>2. UnderWay'
    BY <1>1, <1>2 DEF IntakeInv, UnderWay
  <2> QED
    BY <2>1, <2>2
<1>5. AllGenuine' /\ OnePerAttempt' /\ ProofPerForward'
  <2>1. AllGenuine'
    BY <1>2, <1>3 DEF IntakeInv, AllGenuine, Genuine
  <2>2. OnePerAttempt'
    BY <1>3 DEF IntakeInv, OnePerAttempt
  <2>3. ProofPerForward'
    BY <1>3 DEF IntakeInv, ProofPerForward, Sent
  <2> QED
    BY <2>1, <2>2, <2>3
<1>6. OnItsWay'
  <2> SUFFICES ASSUME NEW k \in toApi, k # m
               PROVE  k \notin stored /\ req'[k.by].reply = None
    BY DEF OnItsWay
  <2>1. k.by # m.by /\ k.by \in Attempt
    BY <1>1 DEF IntakeInv, OnePerAttempt, AllGenuine, Genuine, Sent
  <2> QED
    BY <1>2, <2>1 DEF IntakeInv, OnItsWay
<1>7. Fresh'
  BY <1>2, <1>3 DEF IntakeInv, Fresh
<1>8. RepliesTrue'
  <2> SUFFICES ASSUME NEW k \in Attempt, req'[k].phase = "waiting"
               PROVE  /\ req'[k].reply = "accepted" => \E r \in stored : r.page = req'[k].page
                      /\ req'[k].reply # "accepted" => \A r \in stored : r.by # k
    BY DEF RepliesTrue
  <2>1. CASE k = m.by
    <3>1. \A r \in stored : r.by # m.by
      BY <1>1 DEF IntakeInv, OnePerAttempt, Sent
    <3> QED
      BY <1>1, <1>2, <2>1, <3>1 DEF IntakeInv, RepliesTrue
  <2>2. CASE k # m.by
    BY <1>2, <2>2 DEF IntakeInv, RepliesTrue
  <2> QED
    BY <2>1, <2>2
<1>9. KeysDiffer' /\ AcceptedIsStored' /\ FinalLeavesNothing'
  <2>1. KeysDiffer'
    BY DEF IntakeInv, KeysDiffer
  <2>2. AcceptedIsStored'
    BY <1>2 DEF IntakeInv, AcceptedIsStored
  <2>3. FinalLeavesNothing'
    BY <1>2, <1>3 DEF IntakeInv, FinalLeavesNothing, Sent
  <2> QED
    BY <2>1, <2>2, <2>3
<1> QED
  BY <1>4, <1>5, <1>6, <1>7, <1>8, <1>9 DEF IntakeInv

(* The answer to a reply is as true as the reply.                           *)
LEMMA HandleReplyStep ==
  ASSUME IntakeInv, NEW n \in Attempt, HandleReply(n)
  PROVE  IntakeInv'
<1>1. /\ req[n].phase = "waiting" /\ req[n].reply # None
      /\ Answer(n, AnswerTo(req[n].reply))
      /\ UNCHANGED <<clock, deployed, pages, proofs, spent, toApi, stored>>
  BY DEF HandleReply
<1>2. AnswerTo(req[n].reply) \in {"accepted", "final", "retry"}
  BY DEF AnswerTo
<1>3. ASSUME AnswerTo(req[n].reply) = "final"
      PROVE  \A m \in Sent : m.by # n
  <2>1. req[n].reply # "accepted"
    BY <1>3 DEF AnswerTo
  <2> QED
    BY <1>1, <2>1 DEF IntakeInv, RepliesTrue, OnItsWay, Sent
<1>4. ASSUME AnswerTo(req[n].reply) = "accepted"
      PROVE  \E r \in stored : r.page = req[n].page
  <2>1. req[n].reply = "accepted"
    BY <1>4 DEF AnswerTo
  <2> QED
    BY <1>1, <2>1 DEF IntakeInv, RepliesTrue
<1> QED
  BY <1>1, <1>2, <1>3, <1>4, AnswerStep

LEMMA TimeoutStep ==
  ASSUME IntakeInv, NEW n \in Attempt, ApiTimeout(n)
  PROVE  IntakeInv'
<1>1. /\ req[n].phase = "waiting" /\ Answer(n, "retry")
      /\ UNCHANGED <<clock, deployed, pages, proofs, spent, toApi, stored>>
  BY DEF ApiTimeout, Late, WhenLate
<1> QED
  BY <1>1, AnswerStep

LEMMA IntakeStep == IntakeInv /\ [Next]_vars => IntakeInv'
<1> SUFFICES ASSUME IntakeInv, [Next]_vars
             PROVE  IntakeInv'
  OBVIOUS
<1>1. CASE Tick
  BY <1>1, TickStep
<1>2. CASE Deploy
  BY <1>2, DeployStep
<1>3. ASSUME NEW k \in Kind, RenderForm(k) \/ SolveChallenge(k)
      PROVE  IntakeInv'
  BY <1>3, RenderStep, SolveStep
<1>4. ASSUME NEW n \in Attempt, NEW i \in DOMAIN pages, NEW b \in Body,
             NEW origin \in {"own", "other"}, NEW proof \in 0..Len(proofs),
             NEW marketing \in Marketing,
             Submit(n, i, b, origin, proof, marketing)
      PROVE  IntakeInv'
  BY <1>4, SubmitStep
<1>5. ASSUME NEW n \in Attempt, Worker(n)
      PROVE  IntakeInv'
  BY <1>5, TurnstileAnswersStep, TurnstileFailsStep, ForwardStep, HandleReplyStep, TimeoutStep
     DEF Worker
<1>6. ASSUME NEW m \in toApi, ApiStores(m)
      PROVE  IntakeInv'
  BY <1>6, StoreStep
<1>7. ASSUME NEW m \in toApi, ApiRefuses(m)
      PROVE  IntakeInv'
  BY <1>7, GoneStep DEF ApiRefuses
<1>8. ASSUME NEW m \in toApi, RequestLost(m)
      PROVE  IntakeInv'
  BY <1>8, GoneStep DEF RequestLost
<1>9. CASE UNCHANGED vars
  BY <1>9 DEF vars, IntakeInv, Shape, UnderWay, AllGenuine, Genuine, OnePerAttempt, OnItsWay, Fresh,
              RepliesTrue, KeysDiffer, ProofPerForward, AcceptedIsStored, FinalLeavesNothing, Sent
<1> QED
  BY <1>1, <1>2, <1>3, <1>4, <1>5, <1>6, <1>7, <1>8, <1>9 DEF Next

LEMMA IntakeInvariant == Spec => []IntakeInv
BY IntakeInit, IntakeStep, PTL DEF Spec

-----------------------------------------------------------------------------
(* Types of every state, and what each phase has.                           *)
THEOREM TypeCorrect == Spec => []TypeOK
<1>1. IntakeInv => TypeOK
  <2> SUFFICES ASSUME IntakeInv
               PROVE  TypeOK
    OBVIOUS
  <2>1. \A n \in Attempt : req[n].phase \in Phase
    BY DEF IntakeInv, Shape, Record
  <2>2. \A m \in toApi \cup stored : m.by \in Attempt /\ m.page \in DOMAIN pages
    BY DEF IntakeInv, AllGenuine, Genuine, Sent
  <2> QED
    BY <2>1, <2>2 DEF IntakeInv, Shape, UnderWay, TypeOK
<1> QED
  BY <1>1, IntakeInvariant, PTL

(* Who is told that the request was received has it stored.                 *)
THEOREM ReceiptIsTrue == Spec => []AcceptedIsStored
<1>1. IntakeInv => AcceptedIsStored
  BY DEF IntakeInv
<1> QED
  BY <1>1, IntakeInvariant, PTL

(* A page is stored at most once, however often and in however many ways it *)
(* is submitted again.                                                      *)
THEOREM StoredOnce == Spec => []OneRecordPerPage
<1>1. IntakeInv => OneRecordPerPage
  BY DEF IntakeInv, KeysDiffer, OneRecordPerPage, AllGenuine, Genuine, Sent
<1> QED
  BY <1>1, IntakeInvariant, PTL

(* A proof of abuse protection buys one request to the API, of its route.   *)
THEOREM ProofSpentOnce == Spec => []ProofPerForward
<1>1. IntakeInv => ProofPerForward
  BY DEF IntakeInv
<1> QED
  BY <1>1, IntakeInvariant, PTL

(* Nothing of an attempt that was refused for good is stored, then or later.*)
THEOREM RefusedLeavesNothing == Spec => []FinalLeavesNothing
<1>1. IntakeInv => FinalLeavesNothing
  BY DEF IntakeInv
<1> QED
  BY <1>1, IntakeInvariant, PTL

-----------------------------------------------------------------------------
(* How far an attempt is from its answer.                                   *)
Distance(ph) == CASE ph = "unused" -> 4 [] ph = "verifying" -> 3 [] ph = "verified" -> 2
                  [] ph = "waiting" -> 1 [] OTHER -> 0

(* A step brings an attempt nearer to its answer or leaves it where it is;  *)
(* an answered one keeps its answer, whatever the API says afterwards; and  *)
(* the Worker's own steps do bring it nearer.                               *)
Nearer(n) == Distance(req'[n].phase) < Distance(req[n].phase)
MovesOn(n) == /\ Nearer(n) \/ req'[n].phase = req[n].phase
              /\ req[n].phase = "answered" => req'[n] = req[n]
              /\ Worker(n) => Nearer(n)

(* What one step may make of one attempt.                                   *)
LEMMA OneAttempt ==
  ASSUME IntakeInv, NEW n \in Attempt, NEW r, req' = [req EXCEPT ![n] = r]
  PROVE  req'[n] = r /\ \A k \in Attempt \ {n} : req'[k] = req[k]
BY DEF IntakeInv, Shape

LEMMA AnswerIsNearer ==
  ASSUME IntakeInv, NEW n \in Attempt, NEW a, req[n].phase \in {"verifying", "verified", "waiting"},
         Answer(n, a)
  PROVE  Nearer(n) /\ \A k \in Attempt \ {n} : req'[k] = req[k]
<1>1. PICK i : req' = [req EXCEPT ![n] = Answered(i, a)]
  BY DEF Answer
<1>2. Answered(i, a).phase = "answered"
  BY DEF Answered, Unused
<1>3. req'[n].phase = "answered" /\ \A k \in Attempt \ {n} : req'[k] = req[k]
  BY <1>1, <1>2, OneAttempt
<1> QED
  BY <1>3 DEF Nearer, Distance

LEMMA WorkerIsNearer ==
  ASSUME IntakeInv, NEW n \in Attempt, Worker(n)
  PROVE  Nearer(n) /\ \A k \in Attempt \ {n} : req'[k] = req[k]
<1>0. req \in [Attempt -> Record]
  BY DEF IntakeInv, Shape
<1>1. CASE TurnstileAnswers(n)
  <2>1. CASE Succeeds(n)
    BY <1>0, <1>1, <2>1 DEF TurnstileAnswers, Record, Nearer, Distance
  <2> QED
    BY <1>1, <2>1, AnswerIsNearer DEF TurnstileAnswers
<1>2. CASE TurnstileFails(n)
  BY <1>2, AnswerIsNearer DEF TurnstileFails
<1>3. CASE ForwardToApi(n)
  <2>1. CASE req[n].signs
    <3>1. req' = [req EXCEPT ![n].phase = "waiting"] /\ req[n].phase = "verified"
      BY <1>3, <2>1 DEF ForwardToApi
    <3> QED
      BY <1>0, <3>1 DEF Record, Nearer, Distance
  <2> QED
    BY <1>3, <2>1, AnswerIsNearer DEF ForwardToApi
<1>4. CASE HandleReply(n)
  BY <1>4, AnswerIsNearer DEF HandleReply
<1>5. CASE ApiTimeout(n)
  BY <1>5, AnswerIsNearer DEF ApiTimeout, Late
<1> QED
  BY <1>1, <1>2, <1>3, <1>4, <1>5 DEF Worker

(* An attempt takes at most four steps and is answered once: the API's late *)
(* reply changes nothing of what the person was told.  What is left to      *)
(* EveryAttemptAnswered is that the next step is taken at all.              *)
THEOREM AttemptsMoveOn == Spec => [][\A n \in Attempt : MovesOn(n)]_vars
<1>1. ASSUME IntakeInv, Next
      PROVE  \A n \in Attempt : MovesOn(n)
  <2>0. /\ req \in [Attempt -> Record]
        /\ \A n \in Attempt : req[n].phase \in Phase /\ (Worker(n) => Nearer(n))
    BY <1>1, WorkerIsNearer DEF IntakeInv, Shape, Record
  <2>1. CASE req' = req
    BY <2>0, <2>1 DEF MovesOn
  <2>2. ASSUME NEW n \in Attempt, NEW i \in DOMAIN pages, NEW b \in Body,
               NEW origin \in {"own", "other"}, NEW proof \in 0..Len(proofs),
               NEW marketing \in Marketing,
               Submit(n, i, b, origin, proof, marketing)
        PROVE  \A k \in Attempt : MovesOn(k)
    <3> DEFINE refused == Refusal(b, origin, pages[i], marketing)
               r == IF refused # None \/ ~HasProof(proof)
                    THEN Answered(0, IF refused # None THEN refused ELSE "final")
                    ELSE [phase |-> "verifying", page |-> i, proof |-> proof,
                          payload |-> Payload(pages[i], marketing), signs |-> env.signingKey,
                          reply |-> None, answer |-> None]
    <3>1. req' = [req EXCEPT ![n] = r] /\ req[n].phase = "unused"
      BY <2>2 DEF Submit
    <3>2. r.phase \in {"verifying", "answered"}
      BY DEF Answered, Unused
    <3> HIDE DEF r
    <3>3. req'[n].phase \in {"verifying", "answered"}
      BY <1>1, <3>1, <3>2, OneAttempt
    <3>4. Nearer(n)
      BY <3>1, <3>3 DEF Nearer, Distance
    <3> QED
      BY <1>1, <2>0, <3>1, <3>4, OneAttempt DEF MovesOn
  <2>3. ASSUME NEW n \in Attempt, Worker(n)
        PROVE  \A k \in Attempt : MovesOn(k)
    <3>1. req[n].phase # "answered"
      BY <2>3 DEF Worker, TurnstileAnswers, TurnstileFails, ForwardToApi, HandleReply, ApiTimeout, Late
    <3> QED
      BY <1>1, <2>0, <2>3, <3>1, WorkerIsNearer DEF MovesOn
  <2>4. ASSUME NEW m \in toApi, ApiStores(m) \/ ApiRefuses(m)
        PROVE  \A k \in Attempt : MovesOn(k)
    <3>1. PICK reply : Reply(m.by, reply)
      BY <2>4 DEF ApiStores, ApiRefuses
    <3>2. \A k \in Attempt : /\ req'[k].phase = req[k].phase
                             /\ req[k].phase = "answered" => req'[k] = req[k]
      BY <2>0, <3>1 DEF Reply, Record
    <3> QED
      BY <2>0, <3>2 DEF MovesOn
  <2>5. CASE Tick \/ Deploy \/ (\E k \in Kind : RenderForm(k) \/ SolveChallenge(k))
             \/ (\E m \in toApi : RequestLost(m))
    BY <2>1, <2>5 DEF Tick, Deploy, RenderForm, SolveChallenge, RequestLost
  <2> QED
    BY <1>1, <2>2, <2>3, <2>4, <2>5 DEF Next
<1> QED
  BY <1>1, IntakeInvariant, PTL DEF Spec
=============================================================================
