-------------------------- MODULE SessionLifecycle --------------------------
(***************************************************************************)
(* What the session engine promises its callers: the life of a session as  *)
(* ARCHITECTURE.md draws it (COLD -> ACTIVE -> SUSPENDED -> DESTROYED, a   *)
(* suspended session becoming active again on demand).  Nothing is said of *)
(* connections, clocks, SQLite rows or restarts: a restart must not be     *)
(* visible here at all.                                                    *)
(***************************************************************************)
CONSTANT SessionId      \* the uuids ever handed out by create_session

VARIABLE phase          \* phase[s]: where session s is in its life

Phase == {"COLD", "ACTIVE", "SUSPENDED", "DESTROYED"}

Init == phase = [s \in SessionId |-> "COLD"]

\* POST /session: a session is born active, once.
Open(s) ==
    /\ phase[s] = "COLD"
    /\ phase' = [phase EXCEPT ![s] = "ACTIVE"]

\* A query or an explicit request brings a suspended session back.
Resume(s) ==
    /\ phase[s] = "SUSPENDED"
    /\ phase' = [phase EXCEPT ![s] = "ACTIVE"]

\* A client ends a session, in whatever state it is.
Close(s) ==
    /\ phase[s] \in {"ACTIVE", "SUSPENDED"}
    /\ phase' = [phase EXCEPT ![s] = "DESTROYED"]

\* Some active sessions are put to sleep and some that slept are discarded.
Sweep(cool, discard) ==
    /\ \A s \in cool : phase[s] = "ACTIVE"
    /\ \A s \in discard : phase[s] = "SUSPENDED"
    /\ phase' = [s \in SessionId |->
                    IF s \in cool THEN "SUSPENDED"
                    ELSE IF s \in discard THEN "DESTROYED" ELSE phase[s]]

Next ==
    \/ \E s \in SessionId : Open(s) \/ Resume(s) \/ Close(s)
    \/ \E cool, discard \in SUBSET SessionId : Sweep(cool, discard)

Spec == Init /\ [][Next]_phase
=============================================================================
