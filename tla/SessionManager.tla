--------------------------- MODULE SessionManager ---------------------------
(***************************************************************************)
(* engine/session_manager.py: the sessions of one PondDB process, the      *)
(* watchdog and reaper that sweep them, and the rows of the SQLite table   *)
(* `sessions` from which load_from_store rebuilds them after a restart.    *)
(*                                                                         *)
(* Every method runs to completion on the event loop (the store is         *)
(* synchronous sqlite3 behind _drive), so each is one action here; the     *)
(* pool threads of /pondapi, which are not on the loop, are the subject of *)
(* module PondApi.                                                         *)
(*                                                                         *)
(* Instants are kept as ages.  last_active and suspended_at are only ever  *)
(* compared with "now" against a timeout, so idle[s] = now - last_active   *)
(* stops counting one past IdleTimeout and suspAge[s] one past             *)
(* MaxSuspendAge: no comparison in the code can tell larger ages apart.    *)
(***************************************************************************)
EXTENDS Integers, FiniteSets

CONSTANTS
    SessionId,          \* the uuids create_session can draw
    Workgroup,          \* the workgroup ids, "default" among them
    DefaultWg,          \* the workgroup called "default"
    IdleTimeout,        \* POND_IDLE_TIMEOUT
    MaxSuspendAge,      \* POND_MAX_SUSPEND_AGE
    MaxConcurrent,      \* create_session's max_concurrent_sessions argument
    Isolated,           \* POND_SUBPROCESS_ISOLATION
    StoreMayFail        \* may save_session / delete_session raise?

ASSUME ConstantsAssumption ==
    /\ DefaultWg \in Workgroup
    /\ IdleTimeout \in Nat /\ MaxSuspendAge \in Nat /\ MaxConcurrent \in Nat
    /\ Isolated \in BOOLEAN /\ StoreMayFail \in BOOLEAN

VARIABLES
    status,     \* _Session.status; COLD before create_session, DESTROYED once popped
    conn,       \* _Session.conn is an open DuckDB connection
    idle,       \* age of _Session.last_active
    suspAge,    \* age of _Session.suspended_at, NotStamped when that is None
    workgroup,  \* _Session.workgroup_id
    rowState,   \* sessions.state in SQLite, "NONE" when there is no row
    rowIdle,    \* age of sessions.last_active
    dirty       \* history: sessions whose last write to the store was lost

store == <<rowState, rowIdle, dirty>>
vars == <<status, conn, idle, suspAge, workgroup, rowState, rowIdle, dirty>>

NotStamped == -1
Live == {s \in SessionId : status[s] \in {"ACTIVE", "SUSPENDED"}}

TypeOK ==
    /\ status \in [SessionId -> {"COLD", "ACTIVE", "SUSPENDED", "DESTROYED"}]
    /\ conn \in [SessionId -> BOOLEAN]
    /\ idle \in [SessionId -> 0 .. IdleTimeout + 1]
    /\ suspAge \in [SessionId -> NotStamped .. MaxSuspendAge + 1]
    /\ workgroup \in [SessionId -> Workgroup]
    /\ rowState \in [SessionId -> {"NONE", "ACTIVE", "SUSPENDED"}]
    /\ rowIdle \in [SessionId -> 0 .. IdleTimeout + 1]
    /\ dirty \in SUBSET SessionId

Init ==
    /\ status = [s \in SessionId |-> "COLD"]
    /\ conn = [s \in SessionId |-> FALSE]
    /\ idle = [s \in SessionId |-> 0]
    /\ suspAge = [s \in SessionId |-> NotStamped]
    /\ workgroup = [s \in SessionId |-> DefaultWg]
    /\ rowState = [s \in SessionId |-> "NONE"]
    /\ rowIdle = [s \in SessionId |-> 0]
    /\ dirty = {}
-----------------------------------------------------------------------------
\* Definitions whose name starts with Faulty are deliberately wrong variants of
\* the definition that follows them; no behaviour uses them.  Replacing the one
\* by the other must make a run fail, which shows that the property is not vacuous.

\* ON CONFLICT DO NOTHING instead of DO UPDATE.
FaultySaveInsertOnly(s, state, age) ==
    IF rowState[s] # "NONE" THEN UNCHANGED store
    ELSE /\ rowState' = [rowState EXCEPT ![s] = state]
         /\ rowIdle' = [rowIdle EXCEPT ![s] = age]
         /\ UNCHANGED dirty

\* Every save stamps the row with the current time.
FaultySaveNow(s, state, age) ==
    /\ rowState' = [rowState EXCEPT ![s] = state]
    /\ rowIdle' = [rowIdle EXCEPT ![s] = 0]
    /\ UNCHANGED dirty

\* MetadataStore.save_session: an upsert, or an exception the caller sees
\* after it has already changed the session in memory.
SaveSession(s, state, age) ==
    \/ /\ rowState' = [rowState EXCEPT ![s] = state]
       /\ rowIdle' = [rowIdle EXCEPT ![s] = age]
       /\ dirty' = dirty \ {s}
    \/ /\ StoreMayFail
       /\ dirty' = dirty \cup {s}
       /\ UNCHANGED <<rowState, rowIdle>>

\* The row is marked instead of removed.
FaultyDeleteMarks(s) ==
    /\ rowState' = [rowState EXCEPT ![s] = "DESTROYED"]
    /\ UNCHANGED <<rowIdle, dirty>>

\* The row is left behind.
FaultyDeleteForgets(s) == UNCHANGED store

\* MetadataStore.delete_session.
DeleteSession(s) ==
    \/ /\ rowState' = [rowState EXCEPT ![s] = "NONE"]
       /\ rowIdle' = [rowIdle EXCEPT ![s] = 0]
       /\ dirty' = dirty \ {s}
    \/ /\ StoreMayFail
       /\ dirty' = dirty \cup {s}
       /\ UNCHANGED <<rowState, rowIdle>>

ActiveIn(w) == {s \in SessionId : status[s] = "ACTIVE" /\ workgroup[s] = w}
SuspendedIn(w) == {s \in SessionId : status[s] = "SUSPENDED" /\ workgroup[s] = w}

AtQuota(w) == w # DefaultWg /\ Cardinality(ActiveIn(w)) >= MaxConcurrent

\* The body of resume_session after its guards.
Activate(s) ==
    /\ conn' = [conn EXCEPT ![s] = TRUE]
    /\ status' = [status EXCEPT ![s] = "ACTIVE"]
    /\ suspAge' = [suspAge EXCEPT ![s] = NotStamped]
    /\ idle' = [idle EXCEPT ![s] = 0]
    /\ SaveSession(s, "ACTIVE", 0)
    /\ UNCHANGED workgroup

\* create_session, with a max_concurrent_sessions the workgroup is below, or
\* with None, which is what POST /session passes.
CreateSession(s, w, limited) ==
    /\ status[s] = "COLD"
    /\ limited => ~AtQuota(w)
    /\ status' = [status EXCEPT ![s] = "ACTIVE"]
    /\ conn' = [conn EXCEPT ![s] = TRUE]
    /\ idle' = [idle EXCEPT ![s] = 0]
    /\ workgroup' = [workgroup EXCEPT ![s] = w]
    /\ SaveSession(s, "ACTIVE", 0)
    /\ UNCHANGED suspAge

\* create_session at the quota hands out a suspended session of the workgroup,
\* the first in insertion order; with none it raises and changes nothing.
CreateByResuming(s) ==
    /\ AtQuota(workgroup[s])
    /\ s \in SuspendedIn(workgroup[s])
    /\ Activate(s)

\* The entry is popped, so nothing of the session remains in memory.
DestroySession(s) ==
    /\ s \in Live
    /\ status' = [status EXCEPT ![s] = "DESTROYED"]
    /\ conn' = [conn EXCEPT ![s] = FALSE]
    /\ idle' = [idle EXCEPT ![s] = 0]
    /\ suspAge' = [suspAge EXCEPT ![s] = NotStamped]
    /\ workgroup' = [workgroup EXCEPT ![s] = DefaultWg]
    /\ DeleteSession(s)

\* The connection is closed by the sweep only.
FaultySuspendKeepsConn(s) ==
    /\ s \in Live /\ status[s] # "SUSPENDED"
    /\ status' = [status EXCEPT ![s] = "SUSPENDED"]
    /\ suspAge' = [suspAge EXCEPT ![s] = 0]
    /\ SaveSession(s, "SUSPENDED", idle[s])
    /\ UNCHANGED <<conn, idle, workgroup>>

SuspendSession(s) ==
    /\ s \in Live /\ status[s] # "SUSPENDED"
    /\ conn' = [conn EXCEPT ![s] = FALSE]
    /\ status' = [status EXCEPT ![s] = "SUSPENDED"]
    /\ suspAge' = [suspAge EXCEPT ![s] = 0]
    /\ SaveSession(s, "SUSPENDED", idle[s])
    /\ UNCHANGED <<idle, workgroup>>

ResumeSession(s) ==
    /\ s \in Live /\ status[s] # "ACTIVE"
    /\ Activate(s)

\* execute_query on an active session.  Only a statement DuckDB accepts, run on
\* the session's own connection, touches last_active; a rejected statement and
\* the subprocess path leave everything as it is, as do the checks that raise
\* before (unknown session, empty or blocked SQL).
ExecuteActive(s) ==
    /\ status[s] = "ACTIVE"
    /\ ~Isolated
    /\ idle' = [idle EXCEPT ![s] = 0]
    /\ UNCHANGED <<status, conn, suspAge, workgroup, store>>

\* execute_query on a suspended session resumes it first; whatever the
\* statement then does, last_active is the instant of the resume.
ExecuteSuspended(s) ==
    /\ status[s] = "SUSPENDED"
    /\ Activate(s)
-----------------------------------------------------------------------------
\* One turn of start_watchdog: run_watchdog_once, then run_reaper_once.  There
\* is no await between them.  Each save or delete may raise, which ends the turn
\* (start_watchdog logs it and sleeps): the session at hand has then changed in
\* memory only, those before it are done, those after it untouched.
FaultyExpiredSkipsDefault ==     \* only sessions charged to a workgroup are swept
    {s \in SessionId : status[s] = "ACTIVE" /\ idle[s] > IdleTimeout
                       /\ workgroup[s] # DefaultWg}
FaultyStaleNeedsConn ==          \* only sessions that still hold a connection
    {s \in SessionId : status[s] = "SUSPENDED" /\ suspAge[s] > MaxSuspendAge
                       /\ conn[s]}

Expired == {s \in SessionId : status[s] = "ACTIVE" /\ idle[s] > IdleTimeout}
Stale == {s \in SessionId : status[s] = "SUSPENDED" /\ suspAge[s] > MaxSuspendAge}

Interrupted(cool, reap, lost) ==
    /\ StoreMayFail
    /\ \E s \in cool \cup reap : lost = {s}
    /\ lost \subseteq cool => reap = {}
    /\ lost \subseteq reap => cool = Expired

WatchdogTurn ==
    \E cool \in SUBSET Expired, reap \in SUBSET Stale, lost \in SUBSET SessionId :
        /\ cool \cup reap # {}
        /\ \/ cool = Expired /\ reap = Stale /\ lost = {}
           \/ Interrupted(cool, reap, lost)
        /\ status' = [s \in SessionId |-> CASE s \in cool -> "SUSPENDED"
                                            [] s \in reap -> "DESTROYED"
                                            [] OTHER -> status[s]]
        /\ conn' = [s \in SessionId |-> s \notin cool \cup reap /\ conn[s]]
        /\ idle' = [s \in SessionId |-> IF s \in reap THEN 0 ELSE idle[s]]
        /\ suspAge' = [s \in SessionId |-> CASE s \in cool -> 0
                                             [] s \in reap -> NotStamped
                                             [] OTHER -> suspAge[s]]
        /\ workgroup' = [s \in SessionId |-> IF s \in reap THEN DefaultWg
                                              ELSE workgroup[s]]
        /\ rowState' = [s \in SessionId |-> CASE s \in cool \ lost -> "SUSPENDED"
                                              [] s \in reap \ lost -> "NONE"
                                              [] OTHER -> rowState[s]]
        /\ rowIdle' = [s \in SessionId |-> CASE s \in cool \ lost -> idle[s]
                                             [] s \in reap \ lost -> 0
                                             [] OTHER -> rowIdle[s]]
        /\ dirty' = (dirty \ (cool \cup reap)) \cup lost

\* The process stops at any moment and the next one runs load_from_store: what
\* it rebuilds comes from the rows alone, suspended_at and workgroup_id are not
\* in them.
LoadFromStore ==
    /\ status' = [s \in SessionId |->
                    IF rowState[s] # "NONE" THEN rowState[s]
                    ELSE IF status[s] = "COLD" THEN "COLD" ELSE "DESTROYED"]
    /\ conn' = [s \in SessionId |-> rowState[s] = "ACTIVE"]
    /\ idle' = rowIdle      \* 0 where there is no row
    /\ suspAge' = [s \in SessionId |-> NotStamped]
    /\ workgroup' = [s \in SessionId |-> DefaultWg]
    /\ dirty' = {}
    /\ UNCHANGED <<rowState, rowIdle>>

\* Time passes, for the sessions in memory and for the rows on disk.
Older(age, limit) == IF age > limit THEN age ELSE age + 1

Tick ==
    /\ idle' = [s \in SessionId |-> IF s \in Live THEN Older(idle[s], IdleTimeout)
                                    ELSE idle[s]]
    /\ suspAge' = [s \in SessionId |-> IF suspAge[s] = NotStamped THEN NotStamped
                                       ELSE Older(suspAge[s], MaxSuspendAge)]
    /\ rowIdle' = [s \in SessionId |-> IF rowState[s] = "NONE" THEN rowIdle[s]
                                       ELSE Older(rowIdle[s], IdleTimeout)]
    /\ UNCHANGED <<status, conn, workgroup, rowState, dirty>>

Next ==
    \/ \E s \in SessionId :
        \/ \E w \in Workgroup, limited \in BOOLEAN : CreateSession(s, w, limited)
        \/ CreateByResuming(s)
        \/ DestroySession(s)
        \/ SuspendSession(s)
        \/ ResumeSession(s)
        \/ ExecuteActive(s)
        \/ ExecuteSuspended(s)
    \/ WatchdogTurn
    \/ LoadFromStore
    \/ Tick

\* The clock does not stop and start_watchdog keeps its loop going; clients and
\* crashes owe nothing.
Fairness == WF_vars(Tick) /\ WF_vars(WatchdogTurn)

Spec == Init /\ [][Next]_vars /\ Fairness
-----------------------------------------------------------------------------
\* A DuckDB connection is open for exactly the active sessions: none is lost by
\* a suspend, a sweep, a destroy or a restart, and no query of an active
\* session finds None instead of a connection.
ConnMatchesStatus == \A s \in SessionId : conn[s] <=> status[s] = "ACTIVE"

\* A restart would bring back each session as it is now, except those whose
\* last write to the store was lost.
DurableAgreement ==
    \A s \in SessionId \ dirty :
        rowState[s] = IF s \in Live THEN status[s] ELSE "NONE"

\* The row never claims a more recent use than the session had, so a restart
\* cannot lengthen an idle session's life (it may shorten it: queries do not
\* write last_active back).
RowNotAhead ==
    \A s \in Live : rowState[s] # "NONE" => rowIdle[s] >= idle[s]

\* The only way a destroyed session comes back is that its delete was lost.
OnlyLostDeletesResurrect ==
    [][\A s \in SessionId :
        status[s] = "DESTROYED" /\ status'[s] # "DESTROYED" => s \in dirty]_vars

\* Seen from outside, sweeps, transparent resumes and restarts are nothing but
\* the life cycle of ARCHITECTURE.md (with a store that does not lose writes).
Lifecycle == INSTANCE SessionLifecycle WITH phase <- status
RefinesLifecycle == Lifecycle!Spec

\* A session that stays active is used again and again: the watchdog lets no
\* idle session keep its connection.
IdleSessionsCool ==
    \A s \in SessionId :
        <>[](status[s] = "ACTIVE") => []<>(idle[s] <= IdleTimeout)

\* A session suspended by this process does not stay suspended for ever: it is
\* resumed, destroyed or reaped, unless a restart takes its timestamp away.
StampedSessionsLeave ==
    \A s \in SessionId : suspAge[s] # NotStamped ~> suspAge[s] = NotStamped
=============================================================================
