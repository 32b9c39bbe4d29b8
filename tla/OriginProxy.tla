----------------------------- MODULE OriginProxy -----------------------------
(***************************************************************************)
(* The pass-through Workers of the api, app, user and web hostnames        *)
(* (workers/shared/origin-proxy.js, origin-transition.js): one request to   *)
(* the origin, a deadline for its answer, and a decision what the client    *)
(* gets: the origin's answer, its socket, or a typed 503.  The decisions    *)
(* alone are checked by the repository's own model (formal/); this one adds *)
(* time: the deadline of a WebSocket is a timer that is disarmed, that of a *)
(* plain request a signal that is not, and both outlive the decision if     *)
(* they are forgotten.  Origin and runtime are external.                    *)
(***************************************************************************)
EXTENDS Naturals

CONSTANTS Request,        \* requests of clients
          Response,       \* answers an origin may give
          Setting,        \* values of ORIGIN_TIMEOUT_MS
          MinTimeout, DefaultTimeout, MaxTimeout,
          MaxTime,        \* how long a connection is followed
          None

ASSUME TimeoutAssumption == /\ {MinTimeout, DefaultTimeout, MaxTimeout, MaxTime} \subseteq Nat
                            /\ DefaultTimeout \in MinTimeout..MaxTimeout
                            /\ Setting \subseteq Nat

(* owned: the path is one whose 404 the edge answers for.                   *)
RequestOK(r) == /\ r.method \in {"GET", "POST"}
                /\ r.upgrade \in {None, "websocket", "other"}
                /\ r.owned \in BOOLEAN
ResponseOK(o) == o.status \in Nat /\ o.socket \in BOOLEAN /\ o.body \in BOOLEAN
ASSUME TrafficAssumption == /\ \A r \in Request : RequestOK(r)
                            /\ \A o \in Response : ResponseOK(o)

(* What a client can be told; the numbers besides 400, 101 and 503 are those *)
(* of the origin.                                                           *)
Answer == [kind: {"refused", "upgrade", "http", "unavailable"}, status: Nat]
ASSUME NoneAssumption == None \notin Request \cup Response \cup Answer \cup {"websocket"}

VARIABLES phase,     \* of the handler
          request, setting,
          elapsed,   \* since the origin was asked
          timer,     \* "off", "armed"
          origin,    \* the origin's answer
          answer,    \* what the client was told
          stream     \* the body or socket handed over: what became of it

vars == <<phase, request, setting, elapsed, timer, origin, answer, stream>>

Init == /\ phase = "idle" /\ request = None /\ setting \in Setting
        /\ elapsed = 0 /\ timer = "off"
        /\ origin = None /\ answer = None /\ stream = "none"

-----------------------------------------------------------------------------
(* requestMode: only GET can become a WebSocket.                            *)
Mode(r) == IF r.upgrade = None THEN "http"
           ELSE IF r.method = "GET" /\ r.upgrade = "websocket" THEN "websocket"
           ELSE "reject"

UncheckedTimeout == setting   \* variant: the setting is taken as it is
Timeout == IF setting \in MinTimeout..MaxTimeout THEN setting ELSE DefaultTimeout

Told(kind, status) == [kind |-> kind, status |-> status]

(* The handler up to its fetch; either kind of deadline starts here.        *)
Receive(r) ==
  /\ phase = "idle"
  /\ request' = r
  /\ IF Mode(r) = "reject"
     THEN phase' = "answered" /\ answer' = Told("refused", 400) /\ UNCHANGED timer
     ELSE phase' = "connecting" /\ timer' = "armed" /\ UNCHANGED answer
  /\ UNCHANGED <<setting, elapsed, origin, stream>>

-----------------------------------------------------------------------------
(* responseDecision and originIsUnavailable.                                *)
OriginIsUnavailable(status) == status \in {0, 502, 503, 504, 521, 522, 523, 524}

HeaderDecides(o) == TRUE   \* variant: the request header is enough for a socket
ComesWithSocket(o) == o.socket

ResponseDecision(o) ==
  IF o.status = 101
  THEN IF Mode(request) = "websocket" /\ ComesWithSocket(o) THEN "upgrade" ELSE "unavailable"
  ELSE IF OriginIsUnavailable(o.status) \/ (o.status = 404 /\ request.owned)
       THEN "unavailable" ELSE "http"

(* What the finally clause leaves of the deadline: a WebSocket's timer is   *)
(* cleared; the signal of a plain request cannot be.                        *)
SameSignalForBoth == "armed"   \* variant: AbortSignal.timeout for WebSockets too
AfterFetch == IF Mode(request) = "websocket" THEN "off" ELSE "armed"

(* The origin answers; decision and hand-over follow without a pause.       *)
OriginAnswers(o) ==
  /\ phase = "connecting"
  /\ origin' = o
  /\ timer' = AfterFetch
  /\ LET decision == ResponseDecision(o) IN
       CASE decision = "upgrade" -> /\ phase' = "answered"
                                    /\ answer' = Told("upgrade", 101)
                                    /\ stream' = "socket"
         [] decision = "unavailable" -> /\ phase' = "cancelling"
                                        /\ UNCHANGED <<answer, stream>>
         [] decision = "http" -> /\ phase' = "answered"
                                 /\ answer' = Told("http", o.status)
                                 /\ stream' = IF o.body THEN "body" ELSE "none"
  /\ UNCHANGED <<request, setting, elapsed>>

(* fetch throws: the origin cannot be reached.                              *)
FailsUnhandled ==   \* variant: the catch clause does not return
  /\ phase = "connecting" /\ phase' = "cancelling" /\ timer' = AfterFetch
  /\ UNCHANGED <<request, setting, elapsed, origin, answer, stream>>
OriginFails == /\ phase = "connecting"
               /\ phase' = "answered"
               /\ answer' = Told("unavailable", 503)
               /\ timer' = AfterFetch
               /\ UNCHANGED <<request, setting, elapsed, origin, stream>>

(* The body that nobody will read is cancelled before the 503 is returned;  *)
(* a cancellation that fails is ignored.                                    *)
DrainedInstead == phase = "cancelling" /\ ~origin.body   \* variant: the body is read to its end
Cancellable == phase = "cancelling"

Cancelled == /\ Cancellable
             /\ phase' = "answered"
             /\ answer' = Told("unavailable", 503)
             /\ UNCHANGED <<request, setting, elapsed, timer, origin, stream>>

-----------------------------------------------------------------------------
(* Time, counted up to MaxTime.  The deadline acts when it is due, not a    *)
(* tick later; on what depends on how far the request has come.  Whether a  *)
(* signal that aborts cuts a body already under way is up to the runtime.   *)
Due == timer = "armed" /\ elapsed >= Timeout

Tick == /\ phase # "idle" /\ ~Due
        /\ elapsed' = IF elapsed < MaxTime THEN elapsed + 1 ELSE elapsed
        /\ UNCHANGED <<phase, request, setting, timer, origin, answer, stream>>

Abort ==
  /\ Due
  /\ timer' = "off"
  /\ IF phase = "connecting"
     THEN phase' = "answered" /\ answer' = Told("unavailable", 503) /\ UNCHANGED stream
     ELSE /\ stream' \in IF stream = "socket" THEN {"socket_cut"}
                         ELSE IF stream = "body" THEN {"body", "body_cut"}
                         ELSE {stream}
          /\ UNCHANGED <<phase, answer>>
  /\ UNCHANGED <<request, setting, elapsed, origin>>

(* The body ends, or a peer closes the socket.                              *)
StreamEnds == /\ stream \in {"body", "socket"}
              /\ stream' = "ended"
              /\ UNCHANGED <<phase, request, setting, elapsed, timer, origin, answer>>

NextRequest == /\ phase = "answered" /\ stream \notin {"body", "socket"}
               /\ phase' = "idle" /\ request' = None /\ elapsed' = 0 /\ timer' = "off"
               /\ origin' = None /\ answer' = None /\ stream' = "none"
               /\ UNCHANGED setting

Handler == (\E o \in Response : OriginAnswers(o)) \/ OriginFails \/ Cancelled \/ Abort

Next == \/ \E r \in Request : Receive(r)
        \/ Handler \/ Tick \/ StreamEnds \/ NextRequest

Spec == Init /\ [][Next]_vars

(* Time passes, deadlines act, and a cancellation ends; of the origin       *)
(* nothing is asked.                                                        *)
FairSpec == Spec /\ WF_vars(Tick) /\ WF_vars(Abort) /\ WF_vars(Cancelled)

-----------------------------------------------------------------------------
TypeOK ==
  /\ phase \in {"idle", "connecting", "cancelling", "answered"}
  /\ setting \in Setting
  /\ request \in Request \cup {None} /\ origin \in Response \cup {None}
  /\ answer \in Answer \cup {None}
  /\ elapsed \in 0..MaxTime
  /\ timer \in {"off", "armed"}
  /\ stream \in {"none", "body", "socket", "ended", "body_cut", "socket_cut"}
  /\ request = None <=> phase = "idle"
  /\ answer # None <=> phase = "answered"
  /\ phase = "cancelling" => origin # None

(* The deadline of a WebSocket is one for its setup: once the socket has    *)
(* been handed over, no timer of the edge closes it.  (createOriginProxy)   *)
SocketOutlivesSetup == stream # "socket_cut"

(* What the client is told is what the origin did.  A client gets a socket  *)
(* exactly when it asked for one, by GET, and the origin came with it at    *)
(* any time before the deadline; no other answer is a 101.  A failure of    *)
(* the origin or of its gateways, whenever it happens, comes out as the     *)
(* typed 503 and never as itself.  (responseDecision, unavailable)          *)
AnswerIsTheOrigins ==
  phase = "answered" =>
    /\ answer.kind = "upgrade" <=> /\ request.method = "GET" /\ request.upgrade = "websocket"
                                   /\ origin # None /\ origin.status = 101 /\ origin.socket
    /\ answer.status = 101 => answer.kind = "upgrade"
    /\ answer.kind \in {"http", "unavailable"} =>
         IF origin = None \/ OriginIsUnavailable(origin.status)
         THEN answer = Told("unavailable", 503)
         ELSE answer.kind = "http" => answer.status = origin.status

(* Whatever the timeout is set to, the client waits no longer for a dead    *)
(* origin than the longest timeout there may be.  (timeoutMilliseconds)     *)
SetupIsBounded == phase = "connecting" => elapsed <= MaxTimeout

(* Every request is answered, also when the origin never is heard of.       *)
EveryRequestAnswered == phase = "connecting" ~> phase = "answered"
=============================================================================
