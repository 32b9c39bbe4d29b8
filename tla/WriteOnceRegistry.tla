------------------------- MODULE WriteOnceRegistry -------------------------
(***************************************************************************)
(* What publishing promises, with no worker, bucket or failure in sight: a *)
(* coordinate (a package version) is established at most once, by one      *)
(* publisher, and forever; "created" is told only to the publisher whose   *)
(* record the coordinate carries, "conflict" only when somebody else's     *)
(* record is there.  EdgePublish implements this specification.            *)
(***************************************************************************)
CONSTANTS Publisher,   \* publish attempts; a retry is another attempt
          Coord,       \* org/name@version
          Record,      \* what a coordinate can carry: records with a field "by"
          None         \* "nothing there"

VARIABLES published,   \* Coord -> Record or None
          outcome      \* Publisher -> what it was told

vars == <<published, outcome>>

Told == {None} \cup [status: {"created", "conflict"}, coord: Coord]

Init == /\ published = [c \in Coord |-> None]
        /\ outcome = [p \in Publisher |-> None]

(* The coordinate was free and now carries d: the only write there is.     *)
Establish(c, d) == /\ published[c] = None
                   /\ published' = [published EXCEPT ![c] = d]
                   /\ UNCHANGED outcome

(* A publisher learns that the coordinate is its own ...                   *)
Acknowledge(p, c) == /\ outcome[p] = None
                     /\ published[c] # None
                     /\ published[c].by = p
                     /\ outcome' = [outcome EXCEPT ![p] =
                                      [status |-> "created", coord |-> c]]
                     /\ UNCHANGED published

(* ... or that somebody else's record is there.                            *)
Refuse(p, c) == /\ outcome[p] = None
                /\ published[c] # None
                /\ published[c].by # p
                /\ outcome' = [outcome EXCEPT ![p] =
                                 [status |-> "conflict", coord |-> c]]
                /\ UNCHANGED published

Next == \/ \E c \in Coord, d \in Record : Establish(c, d)
        \/ \E p \in Publisher, c \in Coord : Acknowledge(p, c) \/ Refuse(p, c)

Spec == Init /\ [][Next]_vars
=============================================================================
