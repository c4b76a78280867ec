------------------------------- MODULE Limits -------------------------------
(***************************************************************************)
(* The limits on how often something may be done: sliding windows over     *)
(* what was done before.                                                   *)
(*                                                                         *)
(* Executions per tenant (pondapi/executor.py) and share links per address *)
(* (api/share_routes.py) are counted in memory, where they are recorded as *)
(* they are admitted.  Memory writes per agent and feedback per memory     *)
(* (memory/routes.py) are counted in the access log, whose row a           *)
(* background task writes after the response, if it can.                   *)
(*                                                                         *)
(* The model follows one tenant, address, agent or memory for each window. *)
(* Nothing else limits: the HTMX route submits to the pool of the          *)
(* executions without being counted.                                       *)
(***************************************************************************)
EXTENDS Integers, FiniteSets

CONSTANTS
    InMemory,       \* windows kept in memory: "execute", "share"
    Logged,         \* windows over the access log: "write", "feedback"
    Limit, Window,  \* how many, in how long
    Slot,           \* bound: where a window's admissions are remembered
    None,
    MaxTime         \* bound: the clock stops here

Limiter == InMemory \cup Logged

\* An admission: when it was, and when its row was recorded.
Pending == -1
Lost == -2
Entry == [time : 0 .. MaxTime, row : (0 .. MaxTime) \cup {Pending, Lost}]
Written(e) == e.row >= 0

ASSUME LimitsAssumption ==
    /\ InMemory \cap Logged = {}
    /\ Limit \in Nat \ {0} /\ Window \in Nat \ {0} /\ MaxTime \in Nat
    /\ IsFiniteSet(Slot)
    /\ None \notin Entry

VARIABLES
    admitted,   \* of each window, what was admitted and is remembered
    unseen,     \* history: how many had no row when the last was admitted
    now

limitsVars == <<admitted, unseen, now>>

LimitsTypeOK ==
    /\ admitted \in [Limiter -> [Slot -> Entry \cup {None}]]
    /\ unseen \in [Limiter -> Nat]
    /\ now \in 0 .. MaxTime

LimitsInit ==
    /\ admitted = [l \in Limiter |-> [s \in Slot |-> None]]
    /\ unseen = [l \in Limiter |-> 0]
    /\ now = 0
-----------------------------------------------------------------------------
\* The share window is open at its old end, the others are not.
Within(l, t) == IF l = "share" THEN t > now - Window ELSE t >= now - Window

Entries(l) == {s \in Slot : admitted[l][s] # None}
Recent(l) == {s \in Entries(l) : Within(l, admitted[l][s].time)}
Recorded(l) ==
    {s \in Entries(l) : Written(admitted[l][s]) /\ Within(l, admitted[l][s].row)}

\* Faulty...: wrong variants, before what they would replace.
FaultyUnderLimit(l) == Cardinality(Recorded(l)) <= Limit

\* _count_window, _check_rate_limit, count_recent_actions.
UnderLimit(l) == Cardinality(Recorded(l)) < Limit

\* What no window covers any more is forgotten.
Remembered(l) ==
    Recent(l) \cup Recorded(l) \cup {s \in Entries(l) : admitted[l][s].row = Pending}

\* POST /pondapi/execute, GET /q/{slug}; POST /memories, .../feedback.
Admit(l, slot) ==
    /\ slot \notin Remembered(l)
    /\ UnderLimit(l)
    /\ unseen' = [unseen EXCEPT ![l] =
            Cardinality({s \in Recent(l) : ~Written(admitted[l][s])})]
    /\ admitted' = [admitted EXCEPT ![l] = [s \in Slot |->
            IF s = slot THEN [time |-> now, row |-> IF l \in InMemory THEN now ELSE Pending]
            ELSE IF s \in Remembered(l) THEN admitted[l][s]
            ELSE None]]
    /\ UNCHANGED now

\* write_access_log, by a background thread: the timestamp is that of the write.
\* A file that is locked loses the row.
Log(l, slot) ==
    /\ l \in Logged
    /\ slot \in Entries(l) /\ admitted[l][slot].row = Pending
    /\ \E row \in {now, Lost} : admitted' = [admitted EXCEPT ![l][slot].row = row]
    /\ UNCHANGED <<unseen, now>>

\* The process ends: what is in memory is gone, and so are background tasks.
ProcessEnds ==
    /\ admitted' = [l \in Limiter |-> [s \in Slot |->
            IF l \in InMemory THEN None
            ELSE IF s \in Entries(l) /\ admitted[l][s].row = Pending
                 THEN [admitted[l][s] EXCEPT !.row = Lost]
            ELSE admitted[l][s]]]
    /\ UNCHANGED <<unseen, now>>

Tick ==
    /\ now < MaxTime
    /\ now' = now + 1
    /\ UNCHANGED <<admitted, unseen>>

LimitsNext ==
    \/ \E l \in Limiter, slot \in Slot : Admit(l, slot) \/ Log(l, slot)
    \/ ProcessEnds
    \/ Tick

LimitsSpec == LimitsInit /\ [][LimitsNext]_limitsVars
-----------------------------------------------------------------------------
\* No window admits more than its limit since the start, but for those admitted
\* while rows of earlier ones were not written yet, or never.
WindowsHold == \A l \in Limiter : Cardinality(Recent(l)) <= Limit + unseen[l]
=============================================================================
