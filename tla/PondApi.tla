------------------------------- MODULE PondApi -------------------------------
(***************************************************************************)
(* /pondapi: SQL submitted on the event loop, executed by the threads of   *)
(* pondapi/executor.py's pool, its outcome kept in the SQLite table        *)
(* pondapi_executions that clients poll.  A pool thread calls              *)
(* SessionManager.execute_query while the event loop serves other requests *)
(* and runs the watchdog on the same _Session objects; there is no lock,   *)
(* so a thread is interrupted between any two statements that read or      *)
(* write shared state.  Each such statement is one step here, for the pool *)
(* threads and for the loop alike.                                         *)
(*                                                                         *)
(* A DuckDB connection is modelled as the code uses it: execute() returns  *)
(* the connection itself and leaves the result on it, so description and   *)
(* fetchall() return whatever the last execute() on it produced, and what  *)
(* was fetched once is gone.  A connection nobody refers to is collected   *)
(* and its identity used again.                                            *)
(*                                                                         *)
(* last_active is left out and so is the time since suspended_at: only the *)
(* watchdog and the reaper read them, to list sessions which they suspend  *)
(* or destroy afterwards without looking at the times again; Request lets  *)
(* those calls come at any moment.                                         *)
(***************************************************************************)
EXTENDS Naturals, Sequences, FiniteSets

CONSTANTS
    SessionId,      \* the sessions; each has just been created
    Statement,      \* SQL statements, each executed at most once
    Worker,         \* threads of the pool (max_workers)
    Loop,           \* the event loop's thread
    Managed,        \* bound: the sessions that are suspended, resumed, destroyed
    Asked,          \* bound: which of these requests the loop serves
    Encodable,      \* statements whose rows json.dumps accepts
    Connection,     \* identities of DuckDB connections
    None

Thread == Worker \cup {Loop}

ASSUME PondApiAssumption ==
    /\ IsFiniteSet(Worker) /\ Loop \notin Worker
    /\ Encodable \subseteq Statement /\ Managed \subseteq SessionId
    /\ Asked \subseteq {"suspend", "resume", "destroy"}
    /\ None \notin SessionId \cup Statement \cup Connection

\* There are identities enough: one for each session to begin with, and one that
\* is free whatever connections sessions and threads refer to.
ASSUME EnoughConnections ==
    /\ \E c \in [SessionId -> Connection] : \A s, u \in SessionId : s # u => c[s] # c[u]
    /\ \A conn \in [SessionId -> Connection \cup {None}],
          rel \in [Thread -> Connection \cup {None}] :
            \E c \in Connection : /\ \A s \in SessionId : conn[s] # c
                                 /\ \A t \in Thread : rel[t] # c

VARIABLES
    session,    \* the _Session objects, and whether they are in _sessions
    row,        \* state column of table sessions, "NONE" without a row
    duckdb,     \* the connections: open?, and the result last left on it
    thread,     \* where each thread is, its statement, session and `rel`
    queue,      \* the pool's queue of submitted statements
    execution,  \* rows of pondapi_executions (and answers of POST /query)
    raced,      \* history: sessions two threads have been changing at once
    unsaved,    \* history: sessions whose row the store last failed to write
    unwritten   \* history: executions whose outcome could not be written

vars == <<session, row, duckdb, thread, queue, execution, raced, unsaved, unwritten>>
losses == <<unsaved, unwritten>>

Resuming == {"connect", "activate", "unstamp", "saveActive"}
Suspending == {"unset", "mark", "stamp", "saveSuspended"}
Destroying == {"close", "deleteRow"}
Executing == {"lookup", "resume", "run", "describe", "fetch", "complete", "failed"}
At == {"idle", "suspend", "destroy"} \cup Resuming \cup Suspending \cup Destroying \cup Executing

\* A _Session (stamped: it has a suspended_at), and a DuckDB connection.
Object == [registered : BOOLEAN, status : {"ACTIVE", "SUSPENDED"},
           conn : Connection \cup {None}, stamped : BOOLEAN]
Handle == [open : BOOLEAN, result : Statement \cup {None}, rowsLeft : BOOLEAN]

TypeOK ==
    /\ session \in [SessionId -> Object]
    /\ row \in [SessionId -> {"NONE", "ACTIVE", "SUSPENDED"}]
    /\ duckdb \in [Connection -> Handle]
    /\ thread \in [Thread -> [at : At, sql : Statement \cup {None},
                              sid : SessionId \cup {None},
                              rel : Connection \cup {None}]]
    /\ queue \in Seq(Statement)
    /\ execution \in [Statement -> [status : {"none", "pending", "complete", "error"},
                                    sid : SessionId \cup {None},
                                    columns : Statement \cup {None},
                                    rows : Statement \cup {None}]]
    /\ raced \in SUBSET SessionId
    /\ unsaved \in SUBSET SessionId
    /\ unwritten \in SUBSET Statement

AtRest == [at |-> "idle", sql |-> None, sid |-> None, rel |-> None]

Opened == [open |-> TRUE, result |-> None, rowsLeft |-> FALSE]
Closed == [open |-> FALSE, result |-> None, rowsLeft |-> FALSE]

\* A connection for each session, numbered in one of the possible ways.
FirstConnection ==
    CHOOSE c \in [SessionId -> Connection] :
        \A s, u \in SessionId : s # u => c[s] # c[u]

Init ==
    /\ session = [s \in SessionId |->
                    [registered |-> TRUE, status |-> "ACTIVE",
                     conn |-> FirstConnection[s], stamped |-> FALSE]]
    /\ duckdb = [c \in Connection |->
                    IF \E s \in SessionId : FirstConnection[s] = c THEN Opened ELSE Closed]
    /\ row = [s \in SessionId |-> "ACTIVE"]
    /\ thread = [t \in Thread |-> AtRest]
    /\ queue = <<>>
    /\ execution = [e \in Statement |-> [status |-> "none", sid |-> None,
                                         columns |-> None, rows |-> None]]
    /\ raced = {}
    /\ unsaved = {}
    /\ unwritten = {}
-----------------------------------------------------------------------------
Goto(t, at) == thread' = [thread EXCEPT ![t].at = at]
Done(t) == thread' = [thread EXCEPT ![t] = AtRest]

\* An exception: execute_query passes it to its caller, a statement of the loop's
\* own requests ends in an error response.
Raise(t) == IF thread[t].sql = None THEN Done(t) ELSE Goto(t, "failed")

Referenced == {session[s].conn : s \in SessionId} \cup {thread[t].rel : t \in Thread}
Unused == Connection \ Referenced

\* _create_hardened_connection hands out the connection another session holds.
FaultyNewConnection == {session[s].conn : s \in SessionId} \ {None}

\* _create_hardened_connection: a connection nobody else has.
NewConnection == {CHOOSE c \in Unused : TRUE}
-----------------------------------------------------------------------------
\* What the event loop starts, one thing at a time.

\* POST /pondapi/execute and /pondapi/execute/htmx, for a registered session.
Submit(e, s) ==
    /\ thread[Loop] = AtRest
    /\ execution[e].status = "none"
    /\ session[s].registered
    /\ execution' = [execution EXCEPT ![e].status = "pending", ![e].sid = s]
    /\ queue' = Append(queue, e)
    /\ UNCHANGED <<session, row, duckdb, thread, losses>>

\* POST /query: the loop's thread itself executes the statement.
Query(e, s) ==
    /\ thread[Loop] = AtRest
    /\ execution[e].status = "none"
    /\ execution' = [execution EXCEPT ![e].status = "pending", ![e].sid = s]
    /\ thread' = [thread EXCEPT ![Loop].at = "lookup", ![Loop].sql = e, ![Loop].sid = s]
    /\ UNCHANGED <<session, row, duckdb, queue, losses>>

\* Suspend, resume and delete requests; the watchdog suspending a session it
\* listed as idle, the reaper destroying one it listed as stale.
Request(s, what) ==
    /\ thread[Loop] = AtRest
    /\ thread' = [thread EXCEPT ![Loop].at = what, ![Loop].sid = s]
    /\ UNCHANGED <<session, row, duckdb, queue, execution, losses>>
-----------------------------------------------------------------------------
\* suspend_session, from its guards to the last statement.
Suspend(t) ==
    LET s == thread[t].sid IN
    /\ thread[t].at = "suspend"
    /\ IF ~session[s].registered \/ session[s].status = "SUSPENDED"
       THEN Raise(t) /\ UNCHANGED duckdb
       ELSE IF session[s].conn = None THEN Goto(t, "mark") /\ UNCHANGED duckdb
       ELSE /\ duckdb' = [duckdb EXCEPT ![session[s].conn] = Closed]
            /\ Goto(t, "unset")
    /\ UNCHANGED <<session, row, queue, execution, losses>>

\* One assignment to an attribute of the thread's session object.
Assign(t, here, next, object) ==
    /\ thread[t].at = here
    /\ session' = [session EXCEPT ![thread[t].sid] = object]
    /\ Goto(t, next)
    /\ UNCHANGED <<row, duckdb, queue, execution, losses>>

\* save_session or delete_session.  SQLite may refuse; the object stays as it was
\* made, and a later save writes all of it.
SaveRow(t, here, next, state) ==
    LET s == thread[t].sid IN
    /\ thread[t].at = here
    /\ \/ /\ row' = [row EXCEPT ![s] = state]
          /\ unsaved' = unsaved \ {s}
          /\ IF next = "idle" THEN Done(t) ELSE Goto(t, next)
       \/ /\ unsaved' = unsaved \cup {s}
          /\ Raise(t)
          /\ UNCHANGED row
    /\ UNCHANGED <<session, duckdb, queue, execution, unwritten>>

\* The closed connection stays where it was.
FaultyFinishSuspend(t) ==
    LET this == session[thread[t].sid] IN
    \/ Assign(t, "unset", "mark", this)
    \/ Assign(t, "mark", "stamp", [this EXCEPT !.status = "SUSPENDED"])
    \/ Assign(t, "stamp", "saveSuspended", [this EXCEPT !.stamped = TRUE])
    \/ SaveRow(t, "saveSuspended", "idle", "SUSPENDED")

FinishSuspend(t) ==
    LET this == session[thread[t].sid] IN
    \/ Assign(t, "unset", "mark", [this EXCEPT !.conn = None])
    \/ Assign(t, "mark", "stamp", [this EXCEPT !.status = "SUSPENDED"])
    \/ Assign(t, "stamp", "saveSuspended", [this EXCEPT !.stamped = TRUE])
    \/ SaveRow(t, "saveSuspended", "idle", "SUSPENDED")

\* resume_session.  _create_hardened_connection may fail before it is assigned.
Resume(t) ==
    LET s == thread[t].sid IN
    /\ thread[t].at = "resume"
    /\ IF ~session[s].registered \/ session[s].status = "ACTIVE"
       THEN Raise(t) ELSE Goto(t, "connect")
    /\ UNCHANGED <<session, row, duckdb, queue, execution, losses>>

Connect(t) ==
    /\ thread[t].at = "connect"
    /\ \/ /\ Raise(t)
          /\ UNCHANGED <<session, duckdb>>
       \/ \E c \in NewConnection :
            /\ duckdb' = [duckdb EXCEPT ![c] = Opened]
            /\ session' = [session EXCEPT ![thread[t].sid].conn = c]
            /\ Goto(t, "activate")
    /\ UNCHANGED <<row, queue, execution, losses>>

FinishResume(t) ==
    LET this == session[thread[t].sid] IN
    \/ Assign(t, "activate", "unstamp", [this EXCEPT !.status = "ACTIVE"])
    \/ Assign(t, "unstamp", "saveActive", [this EXCEPT !.stamped = FALSE])
    \/ SaveRow(t, "saveActive", IF thread[t].sql = None THEN "idle" ELSE "run", "ACTIVE")

\* destroy_session: pop, close, delete.
Destroy(t) ==
    LET s == thread[t].sid IN
    \/ /\ thread[t].at = "destroy"
       /\ IF session[s].registered
          THEN session' = [session EXCEPT ![s].registered = FALSE] /\ Goto(t, "close")
          ELSE Raise(t) /\ UNCHANGED session
       /\ UNCHANGED <<row, duckdb, queue, execution, losses>>
    \/ /\ thread[t].at = "close"
       /\ duckdb' = IF session[s].conn = None THEN duckdb
                    ELSE [duckdb EXCEPT ![session[s].conn] = Closed]
       /\ Goto(t, "deleteRow")
       /\ UNCHANGED <<session, row, queue, execution, losses>>
    \/ SaveRow(t, "deleteRow", "idle", "NONE")
-----------------------------------------------------------------------------
\* The head of the queue is left in it.
FaultyTake(t) ==
    /\ t \in Worker /\ thread[t] = AtRest /\ queue # <<>>
    /\ thread' = [thread EXCEPT ![t].at = "lookup", ![t].sql = Head(queue),
                                ![t].sid = execution[Head(queue)].sid]
    /\ UNCHANGED <<session, row, duckdb, queue, execution, losses>>

\* A free pool thread takes the oldest submission.
Take(t) ==
    /\ t \in Worker /\ thread[t] = AtRest /\ queue # <<>>
    /\ thread' = [thread EXCEPT ![t].at = "lookup", ![t].sql = Head(queue),
                                ![t].sid = execution[Head(queue)].sid]
    /\ queue' = Tail(queue)
    /\ UNCHANGED <<session, row, duckdb, execution, losses>>

\* execute_query: find the session, resume it if it is suspended.
Lookup(t) ==
    LET s == thread[t].sid IN
    /\ thread[t].at = "lookup"
    /\ IF ~session[s].registered THEN Raise(t)
       ELSE Goto(t, IF session[s].status = "SUSPENDED" THEN "resume" ELSE "run")
    /\ UNCHANGED <<session, row, duckdb, queue, execution, losses>>

\* rel = session.conn.execute(sql).  conn may have become None (AttributeError) or
\* have been closed meanwhile, and DuckDB may reject the statement.
Run(t) ==
    LET c == session[thread[t].sid].conn IN
    /\ thread[t].at = "run"
    /\ \/ /\ Raise(t)
          /\ UNCHANGED duckdb
       \/ /\ c # None /\ duckdb[c].open
          /\ duckdb' = [duckdb EXCEPT ![c].result = thread[t].sql, ![c].rowsLeft = TRUE]
          /\ thread' = [thread EXCEPT ![t].at = "describe", ![t].rel = c]
    /\ UNCHANGED <<session, row, queue, execution, losses>>

\* rel.description: the columns of what the connection holds now.
Describe(t) ==
    /\ thread[t].at = "describe"
    /\ execution' = [execution EXCEPT ![thread[t].sql].columns = duckdb[thread[t].rel].result]
    /\ Goto(t, "fetch")
    /\ UNCHANGED <<session, row, duckdb, queue, losses>>

\* rel.fetchall(): its rows; None stands for no row, when all have been fetched.
Fetch(t) ==
    LET c == thread[t].rel IN
    /\ thread[t].at = "fetch"
    /\ IF duckdb[c].open
       THEN /\ execution' = [execution EXCEPT ![thread[t].sql].rows =
                                IF duckdb[c].rowsLeft THEN duckdb[c].result ELSE None]
            /\ duckdb' = [duckdb EXCEPT ![c].rowsLeft = FALSE]
            /\ Goto(t, "complete")
       ELSE Raise(t) /\ UNCHANGED <<duckdb, execution>>
    /\ UNCHANGED <<session, row, queue, losses>>

\* _run_query_sync ends; only a complete row shows columns and rows.
Settle(t, here, status) ==
    /\ thread[t].at = here
    /\ execution' = [execution EXCEPT ![thread[t].sql] =
                        IF status = "complete" THEN [@ EXCEPT !.status = status]
                        ELSE [@ EXCEPT !.status = status, !.columns = None, !.rows = None]]
    /\ Done(t)
    /\ UNCHANGED <<session, row, duckdb, queue, unsaved>>

\* _update_complete and _update_error.
WriteResult(t) ==
    /\ t = Loop \/ thread[t].sql \in Encodable
    /\ Settle(t, "complete", "complete")
    /\ UNCHANGED unwritten

WriteError(t) == Settle(t, "failed", "error") /\ UNCHANGED unwritten

\* One of them raises: json.dumps on a value of the result, or SQLite, on whose one
\* connection all threads of the pool execute and commit.  The exception is
\* swallowed and the row stays pending.
WriteFails(t) ==
    /\ t \in Worker
    /\ \E here \in {"complete", "failed"} : Settle(t, here, "pending")
    /\ unwritten' = unwritten \cup {thread[t].sql}

\* Only QueryError is turned into an error row.
FaultyPersist(t) ==
    \/ WriteResult(t) \/ WriteFails(t)
    \/ /\ thread[t].at = "failed"
       /\ IF session[thread[t].sid].conn # None THEN WriteError(t)
          ELSE Settle(t, "failed", "pending") /\ UNCHANGED unwritten

\* The row is marked as running first, and left so when json.dumps raises.
FaultyPersistRunning(t) ==
    \/ WriteResult(t) \/ WriteError(t) \/ WriteFails(t)
    \/ /\ t # Loop /\ thread[t].sql \notin Encodable
       /\ Settle(t, "complete", "running")
       /\ UNCHANGED unwritten

\* _run_query_sync writes the outcome, if it can.  (A statement of the loop's own
\* is answered directly; its outcome is kept in the same way.)
Persist(t) == WriteResult(t) \/ WriteError(t) \/ WriteFails(t)
-----------------------------------------------------------------------------
Changing(s) == {t \in Thread : thread[t].sid = s /\
                               thread[t].at \in Resuming \cup Suspending \cup Destroying}
NoteRaces == raced' = raced \cup {s \in SessionId : Cardinality(Changing(s)') > 1}

LoopStarts ==
    /\ \/ \E e \in Statement, s \in SessionId : Submit(e, s) \/ Query(e, s)
       \/ \E s \in Managed, what \in Asked : Request(s, what)
    /\ NoteRaces

Step(t) ==
    /\ \/ Take(t) \/ Lookup(t) \/ Run(t) \/ Describe(t) \/ Fetch(t) \/ Persist(t)
       \/ Resume(t) \/ Connect(t) \/ FinishResume(t)
       \/ Suspend(t) \/ FinishSuspend(t)
       \/ Destroy(t)
    /\ NoteRaces

Next == LoopStarts \/ \E t \in Thread : Step(t)

\* Every thread that can go on does; clients owe nothing.
Fairness == \A t \in Thread : WF_vars(Step(t))

Spec == Init /\ [][Next]_vars /\ Fairness
-----------------------------------------------------------------------------
\* No execution ever shows columns or rows of another session's statement,
\* however pool threads, suspends and resumes interleave.
SessionIsolation ==
    \A e \in Statement :
        \A shown \in {execution[e].columns, execution[e].rows} \ {None} :
            execution[shown].sid = execution[e].sid

\* Unless two threads were at it at the same time, a session that nobody is
\* changing is in one piece, whatever failed on the way: a connection exactly when
\* ACTIVE, a suspended_at (which the reaper needs) exactly when SUSPENDED.  The row
\* a restart would use agrees, and is gone with the session, unless the store
\* refused the last change to it; the next one that it accepts mends the row.
Coherent(s) ==
    /\ session[s].registered =>
          /\ session[s].status = "ACTIVE" <=> session[s].conn # None
          /\ session[s].status = "SUSPENDED" <=> session[s].stamped
    /\ s \notin unsaved =>
          row[s] = IF session[s].registered THEN session[s].status ELSE "NONE"

TornOnlyByRaces == \A s \in SessionId \ raced : Changing(s) = {} => Coherent(s)

\* A statement is executed once: what a client has been told is never replaced.
SettledIsFinal ==
    [][\A e \in Statement :
        execution[e].status \in {"complete", "error"} => execution'[e] = execution[e]]_vars

\* Every submission is executed to its end, whatever happens to its session in
\* the meantime: it is answered, with rows or an error, unless writing the answer
\* itself failed.  (Such a row stays pending, which its client cannot tell.)
ResultsArrive ==
    \A e \in Statement :
        execution[e].status = "pending" ~>
            execution[e].status \in {"complete", "error"} \/ e \in unwritten

\* What _run_query_sync's docstring says ("Execute SQL in a thread-pool worker and
\* persist the result"): the result of that SQL.  Not so when a second
\* statement of the same session runs at the same time.
OwnResult ==
    \A e \in Statement :
        execution[e].status = "complete" => execution[e].columns = e /\ execution[e].rows = e
=============================================================================
