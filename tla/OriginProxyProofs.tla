------------------------- MODULE OriginProxyProofs -------------------------
(***************************************************************************)
(* What OriginProxy guarantees for every set of requests and answers, all   *)
(* bounds of the timeout and every setting.                                 *)
(***************************************************************************)
EXTENDS OriginProxy, TLAPS

(* A request on its way has a deadline that has not passed, and neither     *)
(* answer nor stream; nobody rejected is on the way.                        *)
Waiting == phase = "connecting" =>
             /\ Mode(request) # "reject"
             /\ origin = None
             /\ timer = "armed"
             /\ elapsed <= Timeout

Cancelling == phase = "cancelling" => ResponseDecision(origin) = "unavailable"

(* Before the answer there is no stream, and between requests nothing.      *)
NothingHandedOver == /\ phase # "answered" => stream = "none"
                     /\ phase = "idle" => elapsed = 0 /\ timer = "off" /\ origin = None

(* A socket is handed over with its timer disarmed.                         *)
Disarmed == stream = "socket" => timer = "off"

ProxyInv == /\ TypeOK /\ Waiting /\ Cancelling /\ NothingHandedOver /\ Disarmed
            /\ SocketOutlivesSetup /\ AnswerIsTheOrigins

LEMMA TimeoutRange == setting \in Setting => Timeout \in Nat /\ Timeout <= MaxTimeout
BY TimeoutAssumption DEF Timeout

LEMMA ToldType ==
  ASSUME NEW k \in {"refused", "upgrade", "http", "unavailable"}, NEW s \in Nat
  PROVE  Told(k, s) \in Answer /\ Told(k, s) # None /\ Told(k, s).kind = k /\ Told(k, s).status = s
BY NoneAssumption DEF Told, Answer

LEMMA ProxyInit == Init => ProxyInv
BY TimeoutAssumption
   DEF Init, ProxyInv, TypeOK, Waiting, Cancelling, NothingHandedOver, Disarmed,
       SocketOutlivesSetup, AnswerIsTheOrigins

LEMMA ReceiveStep ==
  ASSUME ProxyInv, NEW r \in Request, Receive(r)
  PROVE  ProxyInv'
<1> USE DEF ProxyInv
<1>1. r # None /\ request' = r /\ phase = "idle" /\ setting' = setting
      /\ elapsed' = 0 /\ origin' = None /\ stream' = "none"
  BY NoneAssumption DEF Receive, NothingHandedOver
<1>2. CASE Mode(r) = "reject"
  <2>1. phase' = "answered" /\ answer' = Told("refused", 400) /\ timer' = "off"
    BY <1>2 DEF Receive, NothingHandedOver
  <2>2. answer' \in Answer /\ answer' # None /\ answer'.kind = "refused" /\ answer'.status = 400
    BY <2>1, ToldType
  <2> QED
    BY <1>1, <2>1, <2>2
       DEF TypeOK, Waiting, Cancelling, NothingHandedOver, Disarmed, SocketOutlivesSetup,
           AnswerIsTheOrigins
<1>3. CASE Mode(r) # "reject"
  <2>1. phase' = "connecting" /\ timer' = "armed" /\ answer' = None
    BY <1>3 DEF Receive, TypeOK
  <2>2. Timeout' = Timeout /\ 0 <= Timeout
    BY <1>1, TimeoutRange DEF TypeOK, Timeout
  <2> QED
    BY <1>1, <1>3, <2>1, <2>2
       DEF TypeOK, Waiting, Cancelling, NothingHandedOver, Disarmed, SocketOutlivesSetup,
           AnswerIsTheOrigins, Mode
<1> QED
  BY <1>2, <1>3

LEMMA OriginAnswersStep ==
  ASSUME ProxyInv, NEW o \in Response, OriginAnswers(o)
  PROVE  ProxyInv'
<1> USE DEF ProxyInv
<1>1. /\ phase = "connecting" /\ origin' = o /\ o # None
      /\ request' = request /\ setting' = setting /\ elapsed' = elapsed
      /\ timer' = AfterFetch /\ timer' \in {"off", "armed"}
  BY NoneAssumption DEF OriginAnswers, AfterFetch
<1>2. request \in Request /\ Mode(request) # "reject" /\ stream = "none" /\ answer = None
  BY <1>1 DEF TypeOK, Waiting, NothingHandedOver
<1>3. ResponseOK(o) /\ RequestOK(request)
  BY <1>2, TrafficAssumption
<1>4. ResponseDecision(o) \in {"upgrade", "unavailable", "http"}
  BY DEF ResponseDecision
<1>5. request' # None /\ request' \in Request
  BY <1>1, <1>2, NoneAssumption
<1>6. CASE ResponseDecision(o) = "upgrade"
  <2>1. /\ phase' = "answered" /\ answer' = Told("upgrade", 101) /\ stream' = "socket"
    BY <1>6 DEF OriginAnswers
  <2>2. o.status = 101 /\ o.socket /\ Mode(request) = "websocket"
    BY <1>6 DEF ResponseDecision, ComesWithSocket
  <2>3. request.method = "GET" /\ request.upgrade = "websocket" /\ timer' = "off"
    BY <2>2, <1>1 DEF Mode, AfterFetch
  <2> QED
    BY <1>1, <1>2, <1>5, <2>1, <2>2, <2>3, ToldType
       DEF TypeOK, Waiting, Cancelling, NothingHandedOver, Disarmed, SocketOutlivesSetup,
           AnswerIsTheOrigins
<1>7. CASE ResponseDecision(o) = "unavailable"
  <2>1. phase' = "cancelling" /\ answer' = None /\ stream' = "none"
    BY <1>7, <1>2 DEF OriginAnswers
  <2>2. ResponseDecision(origin)' = "unavailable"
    BY <1>7, <1>1 DEF ResponseDecision, ComesWithSocket, Mode, OriginIsUnavailable
  <2> QED
    BY <1>1, <1>2, <1>5, <2>1, <2>2
       DEF TypeOK, Waiting, Cancelling, NothingHandedOver, Disarmed, SocketOutlivesSetup,
           AnswerIsTheOrigins
<1>8. CASE ResponseDecision(o) = "http"
  <2>1. /\ phase' = "answered" /\ answer' = Told("http", o.status)
        /\ stream' \in {"body", "none"}
    BY <1>8 DEF OriginAnswers
  <2>2. o.status # 101 /\ ~OriginIsUnavailable(o.status) /\ o.status \in Nat
    BY <1>8, <1>3 DEF ResponseDecision, ResponseOK
  <2> QED
    BY <1>1, <1>2, <1>5, <2>1, <2>2, ToldType
       DEF TypeOK, Waiting, Cancelling, NothingHandedOver, Disarmed, SocketOutlivesSetup,
           AnswerIsTheOrigins
<1> QED
  BY <1>4, <1>6, <1>7, <1>8

(* The two ways a fetch throws end in the same answer.                      *)
LEMMA GivenUp ==
  ASSUME ProxyInv, phase = "connecting", phase' = "answered",
         answer' = Told("unavailable", 503), timer' \in {"off", "armed"},
         UNCHANGED <<request, setting, elapsed, origin, stream>>
  PROVE  ProxyInv'
<1> USE DEF ProxyInv
<1>1. request # None /\ origin = None /\ stream = "none"
  BY DEF TypeOK, Waiting, NothingHandedOver
<1> QED
  BY <1>1, ToldType
     DEF TypeOK, Waiting, Cancelling, NothingHandedOver, Disarmed, SocketOutlivesSetup,
         AnswerIsTheOrigins

LEMMA CancelledStep ==
  ASSUME ProxyInv, Cancelled
  PROVE  ProxyInv'
<1> USE DEF ProxyInv
<1>1. /\ phase = "cancelling" /\ phase' = "answered" /\ answer' = Told("unavailable", 503)
      /\ UNCHANGED <<request, setting, elapsed, timer, origin, stream>>
  BY DEF Cancelled, Cancellable
<1>2. origin # None /\ ResponseDecision(origin) = "unavailable" /\ stream = "none"
      /\ request \in Request /\ request # None
  BY <1>1 DEF TypeOK, Cancelling, NothingHandedOver
<1>3. ~(/\ request.method = "GET" /\ request.upgrade = "websocket"
        /\ origin.status = 101 /\ origin.socket)
  BY <1>2, NoneAssumption DEF ResponseDecision, ComesWithSocket, Mode
<1> QED
  BY <1>1, <1>2, <1>3, ToldType
     DEF TypeOK, Waiting, Cancelling, NothingHandedOver, Disarmed, SocketOutlivesSetup,
         AnswerIsTheOrigins

LEMMA TickStep ==
  ASSUME ProxyInv, Tick
  PROVE  ProxyInv'
<1> USE DEF ProxyInv
<1>1. /\ UNCHANGED <<phase, request, setting, timer, origin, answer, stream>>
      /\ phase # "idle" /\ ~Due
      /\ elapsed' = IF elapsed < MaxTime THEN elapsed + 1 ELSE elapsed
  BY DEF Tick
<1>2. elapsed \in 0..MaxTime /\ elapsed' \in 0..MaxTime /\ MaxTime \in Nat
  BY <1>1, TimeoutAssumption DEF TypeOK
<1>3. phase = "connecting" => elapsed' <= Timeout
  <2>1. Timeout \in Nat
    BY TimeoutRange DEF TypeOK
  <2> QED
    BY <1>1, <1>2, <2>1 DEF Waiting, Due
<1>4. Timeout' = Timeout /\ (ResponseDecision(origin)' = ResponseDecision(origin))
  BY <1>1 DEF Timeout, ResponseDecision, ComesWithSocket, Mode, OriginIsUnavailable
<1> QED
  BY <1>1, <1>2, <1>3, <1>4
     DEF TypeOK, Waiting, Cancelling, NothingHandedOver, Disarmed, SocketOutlivesSetup,
         AnswerIsTheOrigins

(* A deadline that strikes late finds no socket to close.                   *)
LEMMA AbortStep ==
  ASSUME ProxyInv, Abort
  PROVE  ProxyInv'
<1> USE DEF ProxyInv
<1>1. CASE phase = "connecting"
  BY <1>1, GivenUp DEF Abort
<1>2. CASE phase # "connecting"
  <2>1. /\ timer = "armed" /\ timer' = "off"
        /\ UNCHANGED <<phase, request, setting, elapsed, origin, answer>>
    BY <1>2 DEF Abort, Due
  <2>2. stream # "socket"
    BY <2>1 DEF Disarmed
  <2>3. stream' \in {"none", "body", "ended", "body_cut"} /\ (stream = "none" => stream' = "none")
    BY <1>2, <2>2 DEF Abort, TypeOK, SocketOutlivesSetup
  <2>4. ResponseDecision(origin)' = ResponseDecision(origin)
    BY <2>1 DEF ResponseDecision, ComesWithSocket, Mode, OriginIsUnavailable
  <2> QED
    BY <1>2, <2>1, <2>3, <2>4
       DEF TypeOK, Waiting, Cancelling, NothingHandedOver, Disarmed, SocketOutlivesSetup,
           AnswerIsTheOrigins
<1> QED
  BY <1>1, <1>2

LEMMA ProxyStep == ProxyInv /\ [Next]_vars => ProxyInv'
<1> SUFFICES ASSUME ProxyInv, [Next]_vars
             PROVE  ProxyInv'
  OBVIOUS
<1>1. ASSUME NEW r \in Request, Receive(r)
      PROVE  ProxyInv'
  BY <1>1, ReceiveStep
<1>2. ASSUME NEW o \in Response, OriginAnswers(o)
      PROVE  ProxyInv'
  BY <1>2, OriginAnswersStep
<1>3. CASE OriginFails
  BY <1>3, GivenUp DEF OriginFails, AfterFetch
<1>4. CASE Cancelled
  BY <1>4, CancelledStep
<1>5. CASE Abort
  BY <1>5, AbortStep
<1>6. CASE Tick
  BY <1>6, TickStep
<1>7. CASE StreamEnds
  <2>1. phase = "answered"
    BY <1>7 DEF StreamEnds, ProxyInv, NothingHandedOver
  <2> QED
    BY <1>7, <2>1
       DEF StreamEnds, ProxyInv, TypeOK, Waiting, Cancelling, NothingHandedOver, Disarmed,
           SocketOutlivesSetup, AnswerIsTheOrigins
<1>8. CASE NextRequest
  BY <1>8, TimeoutAssumption
     DEF NextRequest, ProxyInv, TypeOK, Waiting, Cancelling, NothingHandedOver, Disarmed,
         SocketOutlivesSetup, AnswerIsTheOrigins
<1>9. CASE UNCHANGED vars
  <2>1. Timeout' = Timeout /\ ResponseDecision(origin)' = ResponseDecision(origin)
        /\ Mode(request)' = Mode(request)
    BY <1>9 DEF vars, Timeout, ResponseDecision, ComesWithSocket, Mode, OriginIsUnavailable
  <2> QED
    BY <1>9, <2>1
       DEF vars, ProxyInv, TypeOK, Waiting, Cancelling, NothingHandedOver, Disarmed,
           SocketOutlivesSetup, AnswerIsTheOrigins
<1> QED
  BY <1>1, <1>2, <1>3, <1>4, <1>5, <1>6, <1>7, <1>8, <1>9 DEF Next, Handler

LEMMA ProxyInvariant == Spec => []ProxyInv
BY ProxyInit, ProxyStep, PTL DEF Spec

-----------------------------------------------------------------------------
(* Types of every state, and what each phase has.                           *)
THEOREM TypeCorrect == Spec => []TypeOK
<1>1. ProxyInv => TypeOK
  BY DEF ProxyInv
<1> QED
  BY <1>1, ProxyInvariant, PTL

(* No timer of the edge ever closes a socket it has handed over, however    *)
(* the deadline is set and whenever the origin answered.                    *)
THEOREM SocketKept == Spec => []SocketOutlivesSetup
<1>1. ProxyInv => SocketOutlivesSetup
  BY DEF ProxyInv
<1> QED
  BY <1>1, ProxyInvariant, PTL

(* The client waits no longer than the longest timeout, whatever the        *)
(* setting is.                                                              *)
THEOREM SetupBounded == Spec => []SetupIsBounded
<1>1. ProxyInv => SetupIsBounded
  <2> SUFFICES ASSUME ProxyInv, phase = "connecting"
               PROVE  elapsed <= MaxTimeout
    BY DEF SetupIsBounded
  <2>1. elapsed \in 0..MaxTime /\ elapsed <= Timeout /\ setting \in Setting
    BY DEF ProxyInv, TypeOK, Waiting
  <2> QED
    BY <2>1, TimeoutRange, TimeoutAssumption
<1> QED
  BY <1>1, ProxyInvariant, PTL

(* Sockets come from the origin only, and failures come out typed.          *)
THEOREM ToldTruly == Spec => []AnswerIsTheOrigins
<1>1. ProxyInv => AnswerIsTheOrigins
  BY DEF ProxyInv
<1> QED
  BY <1>1, ProxyInvariant, PTL
=============================================================================
