--------------------------- MODULE WorkgroupQuota ---------------------------
(***************************************************************************)
(* The workgroups' session quota, which no single part of the code keeps:  *)
(* app.py charges a workgroup's active_sessions counter on POST /session   *)
(* and discharges it on DELETE /session/{id}; namespace_routes.py creates, *)
(* changes, deletes and reconciles workgroups; the admin form changes      *)
(* quotas; the dashboard pages overwrite the counter they display; and     *)
(* sessions also end by the reaper or by DELETE /htmx/session/{id}, which  *)
(* know nothing of the counter.                                            *)
(*                                                                         *)
(* The session engine appears through what it promises (SessionLifecycle,  *)
(* which SessionManager implements).  All handlers run on one event loop   *)
(* and none awaits anything real, so each is one action.                   *)
(***************************************************************************)
EXTENDS Integers, FiniteSets

CONSTANTS
    SessionId,      \* session uuids
    Workgroup,      \* workgroup uuids
    Namespace,      \* namespace uuids
    DefaultWg,      \* what the engine calls a session of no workgroup
    NoWg,           \* no entry in _session_workgroups
    NamespaceOf,    \* the namespace each workgroup would be created in
    NamedDefault,   \* the workgroups whose display name is "default"
    MaxQuota,       \* bound: the largest max_sessions an admin sets
    MaxCounter      \* bound: active_sessions stops growing here

ASSUME QuotaAssumption ==
    /\ DefaultWg \notin Workgroup /\ NoWg \notin Workgroup
    /\ NamespaceOf \in [Workgroup -> Namespace]
    /\ NamedDefault \subseteq Workgroup
    /\ MaxQuota \in Nat \ {0} /\ MaxCounter \in Nat
    /\ IsFiniteSet(SessionId)

VARIABLES
    phase,              \* the engine: where each session is in its life
    sessionWg,          \* the engine: _Session.workgroup_id
    sessionWorkgroups,  \* app.py's _session_workgroups
    namespaces,         \* NONE, LIVE or GONE (uuids are not reused)
    workgroups,         \* NONE, LIVE or GONE
    maxSessions,        \* quota.max_sessions, Unlimited when there is none
    activeSessions,     \* the counter "active_sessions"
    viewed,             \* history: counters a page has overwritten
    uncounted           \* history: live sessions a reconciliation did not count

vars == <<phase, sessionWg, sessionWorkgroups, namespaces, workgroups,
          maxSessions, activeSessions, viewed, uncounted>>
history == <<viewed, uncounted>>
sessions == <<phase, sessionWg, sessionWorkgroups>>
admin == <<namespaces, workgroups, maxSessions>>

Engine == INSTANCE SessionLifecycle

Unlimited == 0      \* max_sessions is validated to be positive
Alive == {s \in SessionId : phase[s] \in {"ACTIVE", "SUSPENDED"}}
Existing == {w \in Workgroup : workgroups[w] = "LIVE"}
Charged(w) == {s \in SessionId : sessionWorkgroups[s] = w}
Running(w) == {s \in Alive : sessionWg[s] = w}

TypeOK ==
    /\ phase \in [SessionId -> Engine!Phase]
    /\ sessionWg \in [SessionId -> Workgroup \cup {DefaultWg}]
    /\ sessionWorkgroups \in [SessionId -> Workgroup \cup {NoWg}]
    /\ namespaces \in [Namespace -> {"NONE", "LIVE", "GONE"}]
    /\ workgroups \in [Workgroup -> {"NONE", "LIVE", "GONE"}]
    /\ maxSessions \in [Workgroup -> 0 .. MaxQuota]
    /\ activeSessions \in [Workgroup -> Nat]
    /\ viewed \in SUBSET Workgroup
    /\ uncounted \in SUBSET SessionId

Init ==
    /\ Engine!Init
    /\ sessionWg = [s \in SessionId |-> DefaultWg]
    /\ sessionWorkgroups = [s \in SessionId |-> NoWg]
    /\ namespaces = [n \in Namespace |-> "NONE"]
    /\ workgroups = [w \in Workgroup |-> "NONE"]
    /\ maxSessions = [w \in Workgroup |-> Unlimited]
    /\ activeSessions = [w \in Workgroup |-> 0]
    /\ viewed = {}
    /\ uncounted = {}
-----------------------------------------------------------------------------
\* Faulty...: wrong variants, each standing before what it would replace.

FaultySlotAvailable(w) ==       \* off by one
    maxSessions[w] = Unlimited \/ activeSessions[w] <= maxSessions[w]

\* check_and_reserve_session_slot raises unless this holds.
SlotAvailable(w) == maxSessions[w] = Unlimited \/ activeSessions[w] < maxSessions[w]

\* POST /session without a workgroup_id.
CreateUncharged(s) ==
    /\ Engine!Open(s)
    /\ UNCHANGED <<sessionWg, sessionWorkgroups, admin, activeSessions, history>>

\* POST /session with one: the counter goes up before the engine is asked.
Charge(w) ==
    /\ w \in Existing
    /\ SlotAvailable(w)
    /\ activeSessions[w] <= MaxCounter
    /\ activeSessions' = [activeSessions EXCEPT ![w] = @ + 1]
    /\ UNCHANGED <<admin, history>>

FaultyCreateCharged(s, w) ==     \* the engine is not told the workgroup
    /\ Charge(w)
    /\ Engine!Open(s)
    /\ sessionWorkgroups' = [sessionWorkgroups EXCEPT ![s] = w]
    /\ UNCHANGED sessionWg

CreateCharged(s, w) ==
    /\ Charge(w)
    /\ Engine!Open(s)
    /\ sessionWg' = [sessionWg EXCEPT ![s] = w]
    /\ sessionWorkgroups' = [sessionWorkgroups EXCEPT ![s] = w]

\* create_session raises: before the session is registered (no connection) or
\* after (the store refuses the row).  The charge stays, the entry is missing.
CreateFailsEarly(w) == Charge(w) /\ UNCHANGED sessions

CreateFailsLate(s, w) ==
    /\ Charge(w)
    /\ Engine!Open(s)
    /\ sessionWg' = [sessionWg EXCEPT ![s] = w]
    /\ UNCHANGED sessionWorkgroups

\* The entry is looked up but not popped.
FaultyDischargeKeepsEntry(s) ==
    LET w == sessionWorkgroups[s] IN
    /\ activeSessions' = IF w \in Existing /\ activeSessions[w] > 0
                         THEN [activeSessions EXCEPT ![w] = @ - 1]
                         ELSE activeSessions
    /\ UNCHANGED sessionWorkgroups

\* The counter goes down unconditionally.
FaultyDischargeUnclamped(s) ==
    LET w == sessionWorkgroups[s] IN
    IF w = NoWg THEN UNCHANGED <<activeSessions, sessionWorkgroups>>
    ELSE /\ sessionWorkgroups' = [sessionWorkgroups EXCEPT ![s] = NoWg]
         /\ activeSessions' = IF w \in Existing
                              THEN [activeSessions EXCEPT ![w] = @ - 1]
                              ELSE activeSessions

\* The second half of DELETE /session/{id}.
Discharge(s) ==
    LET w == sessionWorkgroups[s] IN
    IF w = NoWg THEN UNCHANGED <<activeSessions, sessionWorkgroups>>
    ELSE /\ sessionWorkgroups' = [sessionWorkgroups EXCEPT ![s] = NoWg]
         /\ activeSessions' = IF w \in Existing /\ activeSessions[w] > 0
                              THEN [activeSessions EXCEPT ![w] = @ - 1]
                              ELSE activeSessions

\* DELETE /session/{id}.
Delete(s) ==
    /\ Engine!Close(s)
    /\ Discharge(s)
    /\ UNCHANGED <<sessionWg, admin, history>>

\* DELETE /htmx/session/{id}: only the engine is told.  DELETE /session/{id} ends
\* the same way when the store refuses to delete the row.
DeleteFromDashboard(s) ==
    /\ Engine!Close(s)
    /\ UNCHANGED <<sessionWg, sessionWorkgroups, admin, activeSessions, history>>

\* The watchdog and the reaper, and queries waking sessions.
EngineSweeps ==
    /\ \/ \E cool, discard \in SUBSET SessionId : Engine!Sweep(cool, discard)
       \/ \E s \in SessionId : Engine!Resume(s)
    /\ UNCHANGED <<sessionWg, sessionWorkgroups, admin, activeSessions, history>>
-----------------------------------------------------------------------------
\* `del _workgroups[wid]`: the records disappear with quota and counter, the
\* sessions charged to them run on.
Forget(gone) ==
    /\ workgroups' = [w \in Workgroup |-> IF w \in gone THEN "GONE" ELSE workgroups[w]]
    /\ maxSessions' = [w \in Workgroup |-> IF w \in gone THEN Unlimited ELSE maxSessions[w]]
    /\ activeSessions' = [w \in Workgroup |-> IF w \in gone THEN 0 ELSE activeSessions[w]]
    /\ viewed' = viewed \ gone

CreateNamespace(n) ==
    /\ namespaces[n] = "NONE"
    /\ namespaces' = [namespaces EXCEPT ![n] = "LIVE"]
    /\ UNCHANGED <<sessions, workgroups, maxSessions, activeSessions, history>>

\* DELETE /namespaces/{id} takes its workgroups with it, but not their sessions.
DeleteNamespace(n) ==
    /\ namespaces[n] = "LIVE"
    /\ namespaces' = [namespaces EXCEPT ![n] = "GONE"]
    /\ Forget({w \in Existing : NamespaceOf[w] = n})
    /\ UNCHANGED <<sessions, uncounted>>

CreateWorkgroup(w, max) ==
    /\ namespaces[NamespaceOf[w]] = "LIVE"
    /\ workgroups[w] = "NONE"
    /\ workgroups' = [workgroups EXCEPT ![w] = "LIVE"]
    /\ maxSessions' = [maxSessions EXCEPT ![w] = max]
    /\ activeSessions' = [activeSessions EXCEPT ![w] = 0]
    /\ UNCHANGED <<sessions, namespaces, history>>

\* PUT /workgroups/{id} with a quota, and the admin form: running sessions are
\* not looked at, so max may fall below the counter.
SetQuota(w, max) ==
    /\ w \in Existing
    /\ maxSessions' = [maxSessions EXCEPT ![w] = max]
    /\ UNCHANGED <<sessions, namespaces, workgroups, activeSessions, history>>

DeleteWorkgroup(w) ==
    /\ w \in Existing
    /\ Forget({w})
    /\ UNCHANGED <<sessions, namespaces, uncounted>>

\* reconcile_workgroup_usage counts the entries of _session_workgroups, so it
\* drops the charge of a session that create_session left live and unentered.
ReconcileTo(w) == Cardinality(Charged(w))

Reconcile(w) ==
    /\ w \in Existing
    /\ activeSessions' = [activeSessions EXCEPT ![w] = ReconcileTo(w)]
    /\ viewed' = viewed \ {w}
    /\ uncounted' = uncounted \cup (Running(w) \ Charged(w))
    /\ UNCHANGED <<sessions, admin>>

\* The pages count the sessions whose workgroup_id is the workgroup's *name*.
\* Sessions carry ids, so only the "default" of the engine can ever match.
CountByName(w) ==
    IF w \in NamedDefault THEN Cardinality({s \in Alive : sessionWg[s] = DefaultWg})
    ELSE 0

\* GET /dashboard rewrites every counter, the workgroup pages one.
View(seen) ==
    /\ seen # {} /\ seen \subseteq Existing
    /\ seen = Existing \/ Cardinality(seen) = 1
    /\ activeSessions' = [w \in Workgroup |->
                            IF w \in seen THEN CountByName(w) ELSE activeSessions[w]]
    /\ viewed' = viewed \cup seen
    /\ UNCHANGED <<sessions, admin, uncounted>>

\* A restart: the engine's sessions come back in the default workgroup, the
\* dictionaries of app.py come back empty.
Restart ==
    /\ sessionWg' = [s \in SessionId |-> DefaultWg]
    /\ sessionWorkgroups' = [s \in SessionId |-> NoWg]
    /\ namespaces' = [n \in Namespace |->
                        IF namespaces[n] = "LIVE" THEN "GONE" ELSE namespaces[n]]
    /\ Forget(Existing)
    /\ uncounted' = {}
    /\ UNCHANGED phase

Next ==
    \/ \E s \in SessionId :
        \/ CreateUncharged(s) \/ Delete(s) \/ DeleteFromDashboard(s)
        \/ \E w \in Workgroup : CreateCharged(s, w) \/ CreateFailsLate(s, w)
    \/ EngineSweeps
    \/ \E n \in Namespace : CreateNamespace(n) \/ DeleteNamespace(n)
    \/ \E w \in Workgroup :
        \/ CreateFailsEarly(w) \/ DeleteWorkgroup(w) \/ Reconcile(w)
        \/ \E max \in 0 .. MaxQuota : CreateWorkgroup(w, max) \/ SetQuota(w, max)
    \/ \E seen \in SUBSET Workgroup : View(seen)
    \/ Restart

Spec == Init /\ [][Next]_vars
-----------------------------------------------------------------------------
\* The live sessions the counter of a workgroup answers for, and all it does.
StillCounted(w) == Running(w) \ uncounted
Owed(w) == Charged(w) \cup StillCounted(w)

\* An entry of _session_workgroups may outlive its session (reaper, dashboard
\* delete) but never charges one workgroup for another's session.
EntriesMatchSessions ==
    \A s \in Alive : sessionWorkgroups[s] # NoWg => sessionWg[s] = sessionWorkgroups[s]

\* Until a page overwrites it, the counter is at least the number of entries and
\* of live sessions of the workgroup, whatever sessions fail to start, end
\* unnoticed or lose their workgroup.  Reconciling it excludes the live sessions
\* without an entry, which a failing POST /session leaves behind.
CounterCoversEntries ==
    \A w \in Existing \ viewed : activeSessions[w] >= Cardinality(Owed(w))

\* POST /session, failing or not, never takes the live sessions of a workgroup
\* beyond its quota: all of them, entered in _session_workgroups or not, except
\* that a page may have overwritten the counter, and that a reconciliation has
\* stopped counting those that were live without an entry when it ran.
NoOverAdmission ==
    [][\A w \in Existing \ viewed :
        Cardinality(StillCounted(w)') > Cardinality(StillCounted(w)) =>
            maxSessions[w] = Unlimited \/ Cardinality(StillCounted(w)') <= maxSessions[w]]_vars
=============================================================================
