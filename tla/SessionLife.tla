----------------------------- MODULE SessionLife -----------------------------
(***************************************************************************)
(* What the board of sessions promises its readers: a session id is in the *)
(* list for one stretch of time at most, and the events tell the truth.    *)
(* session.created names a session that was in the list, session.          *)
(* terminated one that has left it for good.                               *)
(***************************************************************************)
EXTENDS FiniteSets

CONSTANT Ids

VARIABLES
    life,       \* id -> whether its row was, is or will be in the list
    created,    \* ids announced by session.created
    terminated  \* ids announced by session.terminated

vars == <<life, created, terminated>>

Init ==
    /\ life = [id \in Ids |-> "unborn"]
    /\ created = {}
    /\ terminated = {}

Appear(id) ==
    /\ life[id] = "unborn"
    /\ life' = [life EXCEPT ![id] = "present"]
    /\ UNCHANGED <<created, terminated>>

Disappear(id) ==
    /\ life[id] = "present"
    /\ life' = [life EXCEPT ![id] = "gone"]
    /\ UNCHANGED <<created, terminated>>

\* Spawns give up before they have a row; a crash gives up several at once.
Abandon(S) ==
    /\ \A id \in S : life[id] = "unborn"
    /\ life' = [id \in Ids |-> IF id \in S THEN "gone" ELSE life[id]]
    /\ UNCHANGED <<created, terminated>>

AnnounceCreated(id) ==
    /\ life[id] # "unborn"
    /\ created' = created \union {id}
    /\ UNCHANGED <<life, terminated>>

AnnounceTerminated(id) ==
    /\ life[id] = "gone"
    /\ terminated' = terminated \union {id}
    /\ UNCHANGED <<life, created>>

Next ==
    \/ \E id \in Ids : \/ Appear(id) \/ Disappear(id)
                       \/ AnnounceCreated(id) \/ AnnounceTerminated(id)
    \/ \E S \in SUBSET Ids : Abandon(S)

Spec == Init /\ [][Next]_vars
=============================================================================
