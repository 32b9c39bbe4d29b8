---------------------------- MODULE MCOriginProxy ----------------------------
(***************************************************************************)
(* A small instance of OriginProxy.                                        *)
(***************************************************************************)
EXTENDS OriginProxy

Requests == {[method |-> m, upgrade |-> u, owned |-> o] :
               m \in {"GET", "POST"}, u \in {None, "websocket", "other"}, o \in BOOLEAN}
Responses == {[status |-> s, socket |-> w, body |-> b] :
                s \in {101, 200, 302, 404, 503, 524}, w \in BOOLEAN, b \in BOOLEAN}
=============================================================================
