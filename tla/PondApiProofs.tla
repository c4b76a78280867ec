----------------------------- MODULE PondApiProofs -----------------------------
(***************************************************************************)
(* Proofs about PondApi, for any number of sessions, statements and pool   *)
(* threads.  Every step but a few only moves a thread on (Moves); the      *)
(* lemmas say so once, and the invariants are proved from that.            *)
(***************************************************************************)
EXTENDS PondApi, FiniteSetTheorems, TLAPS

\* Where a thread is says what it holds.
Answering == Executing \ {"resume"}

Whereabouts ==
    \A t \in Thread :
        /\ thread[t].at = "idle" => thread[t] = AtRest
        /\ thread[t].at # "idle" => thread[t].sid \in SessionId
        /\ thread[t].at \in Answering => thread[t].sql \in Statement
        /\ thread[t].at \in {"describe", "fetch"} => thread[t].rel \in Connection

\* A statement being executed is pending, of the session its thread works for,
\* and in one place only: once in the queue or in the hands of one thread.
Held == \A t \in Thread : thread[t].sql # None =>
            /\ execution[thread[t].sql].status = "pending"
            /\ execution[thread[t].sql].sid = thread[t].sid
            /\ \A u \in Thread : thread[u].sql = thread[t].sql => u = t

Queued == \A i \in 1 .. Len(queue) :
            /\ execution[queue[i]].status = "pending"
            /\ \A j \in 1 .. Len(queue) : queue[j] = queue[i] => j = i
            /\ \A t \in Thread : thread[t].sql # queue[i]

\* A statement never submitted has left no trace; any other belongs to a session.
Traceless == \A e \in Statement :
    IF execution[e].status = "none"
    THEN execution[e].sid = None /\ execution[e].columns = None /\ execution[e].rows = None
    ELSE execution[e].sid \in SessionId

Base == TypeOK /\ Whereabouts /\ Held /\ Queued /\ Traceless

\* A connection in use is one session's: the session's own, or the one on which a
\* thread working for it left its result.
Uses(s, c) == \/ session[s].conn = c
              \/ \E t \in Thread : thread[t].rel = c /\ thread[t].sid = s

Separate ==
    \A c \in Connection, s \in SessionId : Uses(s, c) =>
        /\ \A u \in SessionId : Uses(u, c) => u = s
        /\ duckdb[c].result # None => execution[duckdb[c].result].sid = s

\* How far a session is when only one thread, at that place, is changing it.
Stage(s, at) ==
    IF at \in Destroying THEN ~session[s].registered
    ELSE /\ session[s].registered
         /\ session[s].status = "ACTIVE" <=> at \in {"unstamp", "saveActive", "unset", "mark"}
         /\ session[s].conn # None <=> at \in {"activate", "unstamp", "saveActive", "unset"}
         /\ session[s].stamped <=> at \in {"connect", "activate", "unstamp", "saveSuspended"}
         /\ s \notin unsaved => row[s] = IF at \in Resuming THEN "SUSPENDED" ELSE "ACTIVE"

Staged ==
    \A s \in SessionId \ raced :
        /\ \A t, u \in Changing(s) : t = u
        /\ \A t \in Changing(s) : Stage(s, thread[t].at)
        /\ Changing(s) = {} => Coherent(s)
-----------------------------------------------------------------------------
\* The kinds of steps.

Tables ==
    /\ session \in [SessionId -> Object]
    /\ row \in [SessionId -> {"NONE", "ACTIVE", "SUSPENDED"}]
    /\ duckdb \in [Connection -> Handle]

\* A thread goes on or is done; sessions and connections at most lose something.
Moves(t) ==
    /\ thread[t].at # "idle"
    /\ \/ Done(t)
       \/ \E at \in At \ {"idle", "describe", "fetch"} :
            Goto(t, at) /\ (at \in Answering => thread[t].sql \in Statement)
    /\ UNCHANGED <<queue, execution>>
    /\ \A s \in SessionId : session'[s].conn \in {session[s].conn, None}
    /\ \A c \in Connection : duckdb'[c].result \in {duckdb[c].result, None}

\* resume_session gets a connection nobody refers to.
Opens(t) == \E c \in Unused :
    /\ thread[t].at = "connect"
    /\ duckdb' = [duckdb EXCEPT ![c] = Opened]
    /\ session' = [session EXCEPT ![thread[t].sid].conn = c]
    /\ Goto(t, "activate")
    /\ UNCHANGED <<row, queue, execution>>

\* execute() leaves its result on the connection of the thread's session.
Runs(t) == \E c \in Connection :
    /\ c = session[thread[t].sid].conn
    /\ thread[t].at = "run"
    /\ duckdb' = [duckdb EXCEPT ![c].result = thread[t].sql, ![c].rowsLeft = TRUE]
    /\ thread' = [thread EXCEPT ![t].at = "describe", ![t].rel = c]
    /\ UNCHANGED <<session, row, queue, execution>>

\* fetchall() on an open connection.
Fetches(t) == \E rows \in {duckdb[thread[t].rel].result, None} :
    /\ thread[t].at = "fetch"
    /\ execution' = [execution EXCEPT ![thread[t].sql].rows = rows]
    /\ duckdb' = [duckdb EXCEPT ![thread[t].rel].rowsLeft = FALSE]
    /\ Goto(t, "complete")
    /\ UNCHANGED <<session, row, queue>>

Settles(t) == \E status \in {"pending", "complete", "error"} :
    Settle(t, "complete", status) \/ Settle(t, "failed", status)

\* What becomes of a row that is settled.
Settled(r, status) ==
    IF status = "complete" THEN [r EXCEPT !.status = status]
    ELSE [r EXCEPT !.status = status, !.columns = None, !.rows = None]
-----------------------------------------------------------------------------
LEMMA Nothing ==
    None \notin SessionId /\ None \notin Statement /\ None \notin Connection
BY PondApiAssumption

\* An exception ends a request, or makes a statement fail.
LEMMA Raising ==
    ASSUME TypeOK, NEW t \in Thread, Raise(t)
    PROVE  Done(t) \/ (Goto(t, "failed") /\ thread[t].sql \in Statement)
BY DEF Raise, TypeOK

\* A connection nobody refers to is always left.
LEMMA SomeUnused ==
    ASSUME TypeOK
    PROVE  NewConnection \subseteq Unused /\ Unused \subseteq Connection
<1> DEFINE conn == [s \in SessionId |-> session[s].conn]
           rel == [t \in Thread |-> thread[t].rel]
<1>1. /\ conn \in [SessionId -> Connection \cup {None}]
      /\ rel \in [Thread -> Connection \cup {None}]
  BY DEF TypeOK, Object
<1>2. PICK c \in Connection : /\ \A s \in SessionId : conn[s] # c
                              /\ \A t \in Thread : rel[t] # c
  BY <1>1, EnoughConnections
<1>3. c \in Unused
  BY <1>2 DEF Unused, Referenced
<1> QED
  BY <1>3 DEF NewConnection, Unused

LEMMA RequestMoves ==
    ASSUME Base, NEW t \in Thread, Lookup(t) \/ Resume(t)
    PROVE  Moves(t) /\ Tables'
<1> USE DEF Base
<1>1. UNCHANGED <<session, row, duckdb, queue, execution>>
  BY DEF Lookup, Resume
<1>2. thread[t].at # "idle" /\ (thread[t].at = "lookup" => thread[t].sql \in Statement)
  BY DEF Lookup, Resume, Whereabouts, Answering, Executing
<1>3. Raise(t) \/ Goto(t, "connect")
      \/ (thread[t].at = "lookup" /\ (Goto(t, "resume") \/ Goto(t, "run")))
  BY DEF Lookup, Resume
<1>4. Done(t) \/ \E at \in At \ {"idle", "describe", "fetch"} :
            Goto(t, at) /\ (at \in Answering => thread[t].sql \in Statement)
  BY <1>2, <1>3, Raising DEF At, Answering, Executing, Resuming
<1> QED
  BY <1>1, <1>2, <1>4 DEF Moves, Tables, TypeOK

\* Assigning one attribute.
LEMMA Attributes ==
    ASSUME NEW o \in Object
    PROVE  /\ [o EXCEPT !.conn = None] \in Object /\ [o EXCEPT !.conn = None].conn = None
           /\ \A state \in {"ACTIVE", "SUSPENDED"} :
                [o EXCEPT !.status = state] \in Object /\ [o EXCEPT !.status = state].conn = o.conn
           /\ \A set \in BOOLEAN :
                /\ [o EXCEPT !.stamped = set] \in Object
                /\ [o EXCEPT !.stamped = set].conn = o.conn
                /\ [o EXCEPT !.registered = set] \in Object
                /\ [o EXCEPT !.registered = set].conn = o.conn
BY DEF Object

LEMMA Handles == Opened \in Handle /\ Closed \in Handle
BY DEF Opened, Closed, Handle

\* One assignment to the session's object, or a write of its row.
LEMMA AssignMoves ==
    ASSUME Base, NEW t \in Thread, NEW here, NEW next \in At \ {"idle", "describe", "fetch"},
           NEW object \in Object, thread[t].sid \in SessionId,
           here # "idle", next \notin Answering,
           object.conn \in {session[thread[t].sid].conn, None},
           Assign(t, here, next, object)
    PROVE  Moves(t) /\ Tables'
<1>1. /\ session' \in [SessionId -> Object]
      /\ \A s \in SessionId : session'[s].conn \in {session[s].conn, None}
  BY DEF Base, Assign, TypeOK
<1>2. UNCHANGED <<row, duckdb, queue, execution>> /\ Goto(t, next) /\ thread[t].at # "idle"
  BY DEF Assign
<1> QED
  BY <1>1, <1>2 DEF Base, Moves, Tables, TypeOK

LEMMA Places ==
    /\ {"connect", "activate", "unstamp", "saveActive", "unset", "mark", "stamp",
        "saveSuspended", "close", "deleteRow"} \subseteq At \ {"idle", "describe", "fetch"}
    /\ {"connect", "activate", "unstamp", "saveActive", "unset", "mark", "stamp",
        "saveSuspended", "close", "deleteRow"} \cap Answering = {}
    /\ {"idle", "run", "resume", "failed"} \subseteq At \ {"describe", "fetch"}
    /\ "idle" \notin Answering
BY DEF At, Resuming, Suspending, Destroying, Executing, Answering

LEMMA SaveMoves ==
    ASSUME Base, NEW t \in Thread, NEW here, NEW next \in At \ {"describe", "fetch"},
           NEW state \in {"NONE", "ACTIVE", "SUSPENDED"},
           here # "idle", next \in Answering => thread[t].sql \in Statement,
           SaveRow(t, here, next, state)
    PROVE  Moves(t) /\ Tables'
<1>1. row' \in [SessionId -> {"NONE", "ACTIVE", "SUSPENDED"}]
  BY DEF Base, SaveRow, TypeOK
<1>2. Done(t) \/ (next # "idle" /\ Goto(t, next)) \/ Raise(t)
  BY DEF SaveRow
<1>3. Done(t) \/ \E at \in At \ {"idle", "describe", "fetch"} :
            Goto(t, at) /\ (at \in Answering => thread[t].sql \in Statement)
  BY <1>2, Raising, Places DEF Base
<1>4. UNCHANGED <<session, duckdb, queue, execution>> /\ thread[t].at = here
  BY DEF SaveRow
<1> QED
  BY <1>1, <1>3, <1>4 DEF Base, Moves, Tables, TypeOK

LEMMA SuspendMoves ==
    ASSUME Base, NEW t \in Thread, Suspend(t) \/ FinishSuspend(t)
    PROVE  Moves(t) /\ Tables'
<1> DEFINE s == thread[t].sid
           this == session[s]
<1>1. s \in SessionId
  BY DEF Base, Whereabouts, Suspend, FinishSuspend, Assign, SaveRow
<1>2. this \in Object
  BY <1>1 DEF Base, TypeOK
<1>3. CASE Suspend(t)
  <2>1. UNCHANGED <<session, row, queue, execution>> /\ thread[t].at = "suspend"
    BY <1>3 DEF Suspend
  <2>2. Raise(t) \/ Goto(t, "mark") \/ Goto(t, "unset")
    BY <1>3 DEF Suspend
  <2>3. \/ duckdb' = duckdb
        \/ this.conn # None /\ duckdb' = [duckdb EXCEPT ![this.conn] = Closed]
    BY <1>3 DEF Suspend
  <2>4. /\ duckdb' \in [Connection -> Handle]
        /\ \A c \in Connection : duckdb'[c].result \in {duckdb[c].result, None}
    <3>1. duckdb \in [Connection -> Handle]
      BY DEF Base, TypeOK
    <3> QED
      BY <2>3, <3>1, Handles DEF Closed
  <2>5. Done(t) \/ \E at \in At \ {"idle", "describe", "fetch"} :
            Goto(t, at) /\ (at \in Answering => thread[t].sql \in Statement)
    BY <2>2, Raising, Places DEF Base
  <2> QED
    BY <2>1, <2>4, <2>5 DEF Base, TypeOK, Moves, Tables
<1>4. CASE Assign(t, "unset", "mark", [this EXCEPT !.conn = None])
  BY <1>1, <1>2, <1>4, AssignMoves, Attributes, Places
<1>5. CASE Assign(t, "mark", "stamp", [this EXCEPT !.status = "SUSPENDED"])
  BY <1>1, <1>2, <1>5, AssignMoves, Attributes, Places
<1>6. CASE Assign(t, "stamp", "saveSuspended", [this EXCEPT !.stamped = TRUE])
  <2>1. [this EXCEPT !.stamped = TRUE] \in Object /\ [this EXCEPT !.stamped = TRUE].conn = this.conn
    BY <1>2, Attributes, Zenon
  <2> QED
    BY <1>1, <1>6, <2>1, AssignMoves, Places, Zenon
<1>7. CASE SaveRow(t, "saveSuspended", "idle", "SUSPENDED")
  BY <1>7, SaveMoves, Places
<1> QED
  BY <1>3, <1>4, <1>5, <1>6, <1>7 DEF FinishSuspend

LEMMA ResumeMoves ==
    ASSUME Base, NEW t \in Thread, FinishResume(t)
    PROVE  Moves(t) /\ Tables'
<1> DEFINE s == thread[t].sid
           this == session[s]
<1>1. s \in SessionId
  BY DEF Base, Whereabouts, FinishResume, Assign, SaveRow
<1>2. this \in Object
  BY <1>1 DEF Base, TypeOK
<1>3. CASE Assign(t, "activate", "unstamp", [this EXCEPT !.status = "ACTIVE"])
  BY <1>1, <1>2, <1>3, AssignMoves, Attributes, Places
<1>4. CASE Assign(t, "unstamp", "saveActive", [this EXCEPT !.stamped = FALSE])
  <2>1. /\ [this EXCEPT !.stamped = FALSE] \in Object
        /\ [this EXCEPT !.stamped = FALSE].conn = this.conn
    BY <1>2, Attributes, Zenon
  <2> QED
    BY <1>1, <1>4, <2>1, AssignMoves, Places, Zenon
<1>5. CASE SaveRow(t, "saveActive", IF thread[t].sql = None THEN "idle" ELSE "run", "ACTIVE")
  <2>1. thread[t].sql \in Statement \cup {None}
    BY DEF Base, TypeOK
  <2>2. CASE thread[t].sql = None
    BY <1>5, <2>2, SaveMoves, Places
  <2>3. CASE thread[t].sql # None
    BY <1>5, <2>1, <2>3, SaveMoves, Places
  <2> QED
    BY <2>2, <2>3
<1> QED
  BY <1>3, <1>4, <1>5 DEF FinishResume

LEMMA DestroyMoves ==
    ASSUME Base, NEW t \in Thread, Destroy(t)
    PROVE  Moves(t) /\ Tables'
<1> DEFINE s == thread[t].sid
<1>1. s \in SessionId /\ thread[t].at # "idle"
  BY DEF Base, Whereabouts, Destroy, SaveRow
<1>2. CASE /\ thread[t].at = "destroy"
           /\ UNCHANGED <<row, duckdb, queue, execution>>
           /\ \/ session' = [session EXCEPT ![s].registered = FALSE] /\ Goto(t, "close")
              \/ Raise(t) /\ UNCHANGED session
  <2>1. PICK object \in Object :
          /\ object.conn = session[s].conn
          /\ session' = [session EXCEPT ![s] = object] \/ session' = session
    <3>1. /\ [session[s] EXCEPT !.registered = FALSE] \in Object
          /\ [session[s] EXCEPT !.registered = FALSE].conn = session[s].conn
      <4>1. session[s] \in Object
        BY <1>1 DEF Base, TypeOK
      <4> QED
        BY <4>1, Attributes, Zenon
    <3> QED
      BY <1>2, <3>1, Zenon
  <2>2. /\ session' \in [SessionId -> Object]
        /\ \A u \in SessionId : session'[u].conn \in {session[u].conn, None}
    <3>1. CASE session' = [session EXCEPT ![s] = object]
      BY <1>1, <2>1, <3>1 DEF Base, TypeOK
    <3>2. CASE session' = session
      BY <3>2 DEF Base, TypeOK
    <3> QED
      BY <2>1, <3>1, <3>2
  <2>3. Done(t) \/ \E at \in At \ {"idle", "describe", "fetch"} :
            Goto(t, at) /\ (at \in Answering => thread[t].sql \in Statement)
    BY <1>2, Raising, Places DEF Base
  <2> QED
    BY <1>1, <1>2, <2>2, <2>3 DEF Base, TypeOK, Moves, Tables
<1>3. CASE /\ thread[t].at = "close"
           /\ duckdb' = IF session[s].conn = None THEN duckdb
                        ELSE [duckdb EXCEPT ![session[s].conn] = Closed]
           /\ Goto(t, "deleteRow")
           /\ UNCHANGED <<session, row, queue, execution>>
  <2>1. /\ duckdb' \in [Connection -> Handle]
        /\ \A c \in Connection : duckdb'[c].result \in {duckdb[c].result, None}
    BY <1>1, <1>3, Handles DEF Base, TypeOK, Closed
  <2> QED
    BY <1>1, <1>3, <2>1, Places DEF Base, TypeOK, Moves, Tables
<1>4. CASE SaveRow(t, "deleteRow", "idle", "NONE")
  BY <1>4, SaveMoves, Places
<1> QED
  BY <1>2, <1>3, <1>4 DEF Destroy

LEMMA RunMoves ==
    ASSUME Base, NEW t \in Thread, Run(t)
    PROVE  (Moves(t) \/ Runs(t)) /\ Tables'
<1> DEFINE c == session[thread[t].sid].conn
<1>1. thread[t].at # "idle" /\ thread[t].sid \in SessionId /\ thread[t].sql \in Statement
  BY DEF Base, Whereabouts, Run, Answering, Executing
<1>2. c \in Connection \cup {None}
  BY <1>1 DEF Base, TypeOK, Object
<1>3. CASE Raise(t) /\ UNCHANGED <<session, row, duckdb, queue, execution>>
  BY <1>1, <1>3, Raising, Places DEF Base, TypeOK, Moves, Tables
<1>4. CASE /\ c # None
           /\ duckdb' = [duckdb EXCEPT ![c].result = thread[t].sql, ![c].rowsLeft = TRUE]
           /\ thread' = [thread EXCEPT ![t].at = "describe", ![t].rel = c]
           /\ UNCHANGED <<session, row, queue, execution>>
  <2>1. PICK left \in BOOLEAN :
          duckdb' = [duckdb EXCEPT ![c].result = thread[t].sql, ![c].rowsLeft = left]
    BY <1>4, Zenon
  <2>2. duckdb' \in [Connection -> Handle]
    <3>1. duckdb \in [Connection -> Handle] /\ c \in Connection
      BY <1>2, <1>4 DEF Base, TypeOK
    <3>2. [duckdb[c] EXCEPT !.result = thread[t].sql, !.rowsLeft = left] \in Handle
      BY <1>1, <3>1 DEF Handle
    <3> QED
      BY <2>1, <3>1, <3>2
  <2>3. Runs(t)
    BY <1>2, <1>4, Zenon DEF Runs, Run
  <2> QED
    BY <1>4, <2>2, <2>3 DEF Base, TypeOK, Tables
<1> QED
  BY <1>3, <1>4 DEF Run

LEMMA ConnectMoves ==
    ASSUME Base, NEW t \in Thread, Connect(t)
    PROVE  (Moves(t) \/ Opens(t)) /\ Tables'
<1>1. thread[t].at = "connect" /\ thread[t].sid \in SessionId
  BY DEF Base, Whereabouts, Connect
<1>2. CASE Raise(t) /\ UNCHANGED <<session, row, duckdb, queue, execution>>
  BY <1>1, <1>2, Raising, Places DEF Base, TypeOK, Moves, Tables
<1>3. ASSUME NEW c \in NewConnection,
             /\ duckdb' = [duckdb EXCEPT ![c] = Opened]
             /\ session' = [session EXCEPT ![thread[t].sid].conn = c]
             /\ Goto(t, "activate")
             /\ UNCHANGED <<row, queue, execution>>
      PROVE  Opens(t) /\ Tables'
  <2>1. c \in Unused /\ c \in Connection
    BY SomeUnused DEF Base
  <2>2. Opens(t)
    BY <1>1, <1>3, <2>1, Zenon DEF Opens
  <2>3. duckdb' \in [Connection -> Handle]
    BY <1>3, <2>1, Handles DEF Base, TypeOK
  <2>4. session' \in [SessionId -> Object]
    <3>1. session \in [SessionId -> Object]
      BY DEF Base, TypeOK
    <3>2. [session[thread[t].sid] EXCEPT !.conn = c] \in Object
      BY <1>1, <2>1, <3>1 DEF Object
    <3> QED
      BY <1>1, <1>3, <3>1, <3>2
  <2> QED
    BY <1>3, <2>2, <2>3, <2>4 DEF Base, TypeOK, Tables
<1> QED
  BY <1>2, <1>3 DEF Connect

LEMMA FetchMoves ==
    ASSUME Base, NEW t \in Thread, Fetch(t)
    PROVE  (Moves(t) \/ Fetches(t)) /\ Tables'
<1> DEFINE c == thread[t].rel
<1>1. thread[t].at = "fetch" /\ c \in Connection
  BY DEF Base, Whereabouts, Fetch
<1>2. CASE Raise(t) /\ UNCHANGED <<session, row, duckdb, queue, execution>>
  BY <1>1, <1>2, Raising, Places DEF Base, TypeOK, Moves, Tables
<1>3. CASE /\ execution' = [execution EXCEPT ![thread[t].sql].rows =
                                IF duckdb[c].rowsLeft THEN duckdb[c].result ELSE None]
           /\ duckdb' = [duckdb EXCEPT ![c].rowsLeft = FALSE]
           /\ Goto(t, "complete")
           /\ UNCHANGED <<session, row, queue>>
  <2>1. PICK left \in BOOLEAN : duckdb' = [duckdb EXCEPT ![c].rowsLeft = left]
    BY <1>3, Zenon
  <2>2. duckdb' \in [Connection -> Handle]
    BY <1>1, <2>1 DEF Base, TypeOK, Handle
  <2>3. Fetches(t)
    BY <1>1, <1>3, Zenon DEF Fetches
  <2> QED
    BY <1>3, <2>2, <2>3 DEF Base, TypeOK, Tables
<1> QED
  BY <1>2, <1>3 DEF Fetch
-----------------------------------------------------------------------------
\* What each kind of step does to the threads, the queue and the executions; every
\* step is of one of these kinds.
Submits == \E e \in Statement, s \in SessionId : Submit(e, s)
Queries == \E e \in Statement, s \in SessionId : Query(e, s)
Requests == \E s \in SessionId, what \in {"suspend", "resume", "destroy"} : Request(s, what)

LEMMA StepKinds ==
    ASSUME Base, Next
    PROVE  /\ Tables'
           /\ \/ Submits \/ Queries \/ Requests
              \/ \E t \in Thread : \/ Moves(t) \/ Take(t) \/ Opens(t) \/ Runs(t)
                                   \/ Describe(t) \/ Fetches(t) \/ Settles(t)
           /\ raced' \in SUBSET SessionId
<1>1. raced' \in SUBSET SessionId
  BY DEF Base, TypeOK, Next, LoopStarts, Step, NoteRaces
<1>2. CASE LoopStarts
  <2>1. Submits \/ Queries \/ Requests
    BY <1>2, PondApiAssumption DEF LoopStarts, Submits, Queries, Requests
  <2>2. UNCHANGED <<session, row, duckdb>>
    BY <1>2 DEF LoopStarts, Submit, Query, Request
  <2> QED
    BY <1>1, <2>1, <2>2 DEF Base, TypeOK, Tables
<1>3. ASSUME NEW t \in Thread, Step(t)
      PROVE  /\ Tables'
             /\ \/ Moves(t) \/ Take(t) \/ Opens(t) \/ Runs(t)
                \/ Describe(t) \/ Fetches(t) \/ Settles(t)
  <2>1. CASE Take(t) \/ Describe(t) \/ Persist(t)
    <3>1. UNCHANGED <<session, row, duckdb>>
      BY <2>1 DEF Take, Describe, Persist, WriteResult, WriteError, WriteFails, Settle
    <3>2. Persist(t) => Settles(t)
      BY DEF Persist, WriteResult, WriteError, WriteFails, Settles
    <3> QED
      BY <2>1, <3>1, <3>2 DEF Base, TypeOK, Tables
  <2>2. CASE Lookup(t) \/ Resume(t)
    BY <2>2, RequestMoves
  <2>3. CASE Suspend(t) \/ FinishSuspend(t)
    BY <2>3, SuspendMoves
  <2>4. CASE FinishResume(t)
    BY <2>4, ResumeMoves
  <2>5. CASE Destroy(t)
    BY <2>5, DestroyMoves
  <2>6. CASE Run(t)
    BY <2>6, RunMoves
  <2>7. CASE Connect(t)
    BY <2>7, ConnectMoves
  <2>8. CASE Fetch(t)
    BY <2>8, FetchMoves
  <2> QED
    BY <1>3, <2>1, <2>2, <2>3, <2>4, <2>5, <2>6, <2>7, <2>8 DEF Step
<1> QED
  BY <1>1, <1>2, <1>3 DEF Next

\* What is lost is lost of sessions and of statements.
LEMMA LossesTyped ==
    ASSUME Base, Next
    PROVE  unsaved' \in SUBSET SessionId /\ unwritten' \in SUBSET Statement
<1>1. unsaved \in SUBSET SessionId /\ unwritten \in SUBSET Statement
  BY DEF Base, TypeOK
<1>2. CASE LoopStarts
  BY <1>1, <1>2 DEF LoopStarts, Submit, Query, Request, losses
<1>3. ASSUME NEW t \in Thread, NEW here, NEW next, NEW state, here # "idle",
             SaveRow(t, here, next, state)
      PROVE  unsaved' \in SUBSET SessionId /\ unwritten' \in SUBSET Statement
  <2>1. thread[t].sid \in SessionId
    BY <1>3 DEF Base, Whereabouts, SaveRow
  <2> QED
    BY <1>1, <1>3, <2>1 DEF SaveRow
<1>4. ASSUME NEW t \in Thread, Persist(t)
      PROVE  unsaved' \in SUBSET SessionId /\ unwritten' \in SUBSET Statement
  <2>1. thread[t].sql \in Statement
    BY <1>4 DEF Persist, WriteResult, WriteError, WriteFails, Settle, Base, Whereabouts,
                Answering, Executing
  <2>2. unsaved' = unsaved /\ unwritten' \in {unwritten, unwritten \cup {thread[t].sql}}
    BY <1>4 DEF Persist, WriteResult, WriteError, WriteFails, Settle
  <2> QED
    BY <1>1, <2>1, <2>2
<1>5. ASSUME UNCHANGED losses
      PROVE  unsaved' \in SUBSET SessionId /\ unwritten' \in SUBSET Statement
  BY <1>1, <1>5 DEF losses
<1>6. ASSUME NEW t \in Thread, Step(t)
      PROVE  unsaved' \in SUBSET SessionId /\ unwritten' \in SUBSET Statement
  <2>1. CASE Take(t) \/ Lookup(t) \/ Run(t) \/ Describe(t) \/ Fetch(t) \/ Resume(t)
             \/ Connect(t) \/ Suspend(t)
    BY <1>5, <2>1 DEF Take, Lookup, Run, Describe, Fetch, Resume, Connect, Suspend
  <2>2. CASE FinishResume(t) \/ FinishSuspend(t) \/ Destroy(t)
    BY <1>3, <1>5, <2>2 DEF FinishResume, FinishSuspend, Destroy, Assign
  <2> QED
    BY <1>4, <1>6, <2>1, <2>2 DEF Step
<1> QED
  BY <1>2, <1>6 DEF Next
-----------------------------------------------------------------------------
\* The threads, where they are and what they hold, after each kind of step.
ThreadRecord == [at : At, sql : Statement \cup {None}, sid : SessionId \cup {None},
                 rel : Connection \cup {None}]

\* What Whereabouts says of one thread.
Placed(r) ==
    /\ r.at = "idle" => r = AtRest
    /\ r.at # "idle" => r.sid \in SessionId
    /\ r.at \in Answering => r.sql \in Statement
    /\ r.at \in {"describe", "fetch"} => r.rel \in Connection

\* One thread is changed, and is in its place afterwards.
Replaces(t, r) == thread' = [thread EXCEPT ![t] = r]

LEMMA Replaced ==
    ASSUME Base, NEW t \in Thread, NEW r \in ThreadRecord, Placed(r), Replaces(t, r)
    PROVE  thread' \in [Thread -> ThreadRecord] /\ Whereabouts'
<1>1. thread \in [Thread -> ThreadRecord]
  BY DEF Base, TypeOK, ThreadRecord
<1>2. thread' \in [Thread -> ThreadRecord]
  BY <1>1 DEF Replaces
<1>3. \A u \in Thread : thread'[u] = IF u = t THEN r ELSE thread[u]
  BY <1>1 DEF Replaces
<1>4. \A u \in Thread : Placed(thread'[u])
  BY <1>3 DEF Base, Whereabouts, Placed
<1> QED
  BY <1>2, <1>4 DEF Whereabouts, Placed

LEMMA RestIsPlaced == AtRest \in ThreadRecord /\ Placed(AtRest)
BY Places DEF AtRest, ThreadRecord, Placed, At, Answering, Executing

\* The thread of a step, before and after.
LEMMA ThreadSteps ==
    ASSUME Base, Next
    PROVE  thread' \in [Thread -> ThreadRecord] /\ Whereabouts'
<1> USE DEF Replaces
<1>1. thread \in [Thread -> ThreadRecord] /\ Loop \in Thread
  BY DEF Base, TypeOK, ThreadRecord, Thread
<1>2. ASSUME NEW e \in Statement, NEW s \in SessionId, Query(e, s)
      PROVE  thread' \in [Thread -> ThreadRecord] /\ Whereabouts'
  <2> DEFINE r == [thread[Loop] EXCEPT !.at = "lookup", !.sql = e, !.sid = s]
  <2>1. r \in ThreadRecord /\ Placed(r)
    BY <1>1 DEF ThreadRecord, Placed, At, Executing
  <2>2. Replaces(Loop, r)
    BY <1>2 DEF Query
  <2> QED
    BY <1>1, <2>1, <2>2, Replaced
<1>3. ASSUME NEW s \in SessionId, NEW what \in {"suspend", "resume", "destroy"}, Request(s, what)
      PROVE  thread' \in [Thread -> ThreadRecord] /\ Whereabouts'
  <2> DEFINE r == [thread[Loop] EXCEPT !.at = what, !.sid = s]
  <2>1. r \in ThreadRecord /\ Placed(r)
    BY <1>1 DEF ThreadRecord, Placed, At, Executing, Answering
  <2>2. Replaces(Loop, r)
    BY <1>3 DEF Request
  <2> QED
    BY <1>1, <2>1, <2>2, Replaced
<1>4. CASE Submits
  <2>1. thread' = thread
    BY <1>4 DEF Submits, Submit
  <2> QED
    BY <1>1, <2>1 DEF Base, Whereabouts
<1>5. ASSUME NEW t \in Thread, Done(t)
      PROVE  thread' \in [Thread -> ThreadRecord] /\ Whereabouts'
  BY <1>5, RestIsPlaced, Replaced DEF Done
<1>6. ASSUME NEW t \in Thread, NEW at \in At \ {"idle"}, Goto(t, at), thread[t].at # "idle",
             at \in Answering => thread[t].sql \in Statement,
             at \in {"describe", "fetch"} => thread[t].rel \in Connection
      PROVE  thread' \in [Thread -> ThreadRecord] /\ Whereabouts'
  <2> DEFINE r == [thread[t] EXCEPT !.at = at]
  <2>1. r \in ThreadRecord /\ Placed(r)
    BY <1>1, <1>6 DEF ThreadRecord, Placed, Base, Whereabouts
  <2>2. Replaces(t, r)
    BY <1>6 DEF Goto
  <2> QED
    BY <2>1, <2>2, Replaced
<1>7. ASSUME NEW t \in Thread, Moves(t)
      PROVE  thread' \in [Thread -> ThreadRecord] /\ Whereabouts'
  BY <1>5, <1>6, <1>7 DEF Moves
<1>8. ASSUME NEW t \in Thread, Take(t)
      PROVE  thread' \in [Thread -> ThreadRecord] /\ Whereabouts'
  <2> DEFINE e == Head(queue)
             r == [thread[t] EXCEPT !.at = "lookup", !.sql = e, !.sid = execution[e].sid]
  <2>1. e \in Statement /\ e = queue[1] /\ 1 \in 1 .. Len(queue)
    BY <1>8 DEF Take, Base, TypeOK
  <2>2. execution[e].sid \in SessionId
    BY <2>1 DEF Base, Queued, Traceless
  <2>3. r \in ThreadRecord /\ Placed(r)
    <3>1. thread[t] \in ThreadRecord /\ "lookup" \in At
      BY <1>1 DEF At, Executing
    <3> QED
      BY <2>1, <2>2, <3>1 DEF ThreadRecord, Placed
  <2>4. Replaces(t, r)
    BY <1>8 DEF Take
  <2> QED
    BY <2>3, <2>4, Replaced
<1>9. ASSUME NEW t \in Thread, Runs(t)
      PROVE  thread' \in [Thread -> ThreadRecord] /\ Whereabouts'
  <2>1. PICK c \in Connection : thread' = [thread EXCEPT ![t].at = "describe", ![t].rel = c]
    BY <1>9 DEF Runs
  <2> DEFINE r == [thread[t] EXCEPT !.at = "describe", !.rel = c]
  <2>2. thread[t].at = "run"
    BY <1>9 DEF Runs
  <2>3. r \in ThreadRecord /\ Placed(r)
    BY <1>1, <2>2 DEF ThreadRecord, Placed, At, Executing, Answering, Base, Whereabouts
  <2>4. Replaces(t, r)
    BY <2>1
  <2> QED
    BY <2>3, <2>4, Replaced
<1>10. ASSUME NEW t \in Thread, Opens(t)
       PROVE  thread' \in [Thread -> ThreadRecord] /\ Whereabouts'
  BY <1>6, <1>10, Places DEF Opens
<1>11. ASSUME NEW t \in Thread, Describe(t)
       PROVE  thread' \in [Thread -> ThreadRecord] /\ Whereabouts'
  BY <1>6, <1>11 DEF Describe, At, Executing, Answering, Base, Whereabouts
<1>12. ASSUME NEW t \in Thread, Fetches(t)
       PROVE  thread' \in [Thread -> ThreadRecord] /\ Whereabouts'
  BY <1>6, <1>12 DEF Fetches, At, Executing, Answering, Base, Whereabouts
<1>13. ASSUME NEW t \in Thread, Settles(t)
       PROVE  thread' \in [Thread -> ThreadRecord] /\ Whereabouts'
  BY <1>5, <1>13 DEF Settles, Settle
<1> QED
  BY <1>2, <1>3, <1>4, <1>7, <1>8, <1>9, <1>10, <1>11, <1>12, <1>13, StepKinds
     DEF Queries, Requests
-----------------------------------------------------------------------------
\* The executions.
Record == [status : {"none", "pending", "complete", "error"}, sid : SessionId \cup {None},
           columns : Statement \cup {None}, rows : Statement \cup {None}]

\* A step that writes an execution: submits it, or one whose thread holds it.
Records(e, r) == execution' = [execution EXCEPT ![e] = r]

\* The one execution a step writes, if it writes any.
LEMMA Writes ==
    ASSUME Base, Next
    PROVE  \/ UNCHANGED execution
           \/ \E e \in Statement, r \in Record :
                /\ Records(e, r)
                /\ r.sid \in SessionId /\ r.status # "none"
                /\ \/ /\ execution[e].status = "none" /\ r.status = "pending"
                      /\ r.columns = None /\ r.rows = None
                   \/ r.sid = execution[e].sid /\ \E t \in Thread : thread[t].sql = e
<1> USE DEF Records
<1>1. execution \in [Statement -> Record]
  BY DEF Base, TypeOK, Record
<1>2. ASSUME NEW e \in Statement, NEW s \in SessionId, Submit(e, s) \/ Query(e, s)
      PROVE  \E r \in Record :
                /\ Records(e, r)
                /\ r.sid \in SessionId /\ r.status # "none"
                /\ execution[e].status = "none" /\ r.status = "pending"
                /\ r.columns = None /\ r.rows = None
  <2> DEFINE r == [execution[e] EXCEPT !.status = "pending", !.sid = s]
  <2>1. execution[e].status = "none" /\ Records(e, r)
    BY <1>2 DEF Submit, Query
  <2>2. r \in Record /\ r.sid = s /\ r.status = "pending" /\ r.columns = None /\ r.rows = None
    BY <1>1, <2>1 DEF Record, Base, Traceless
  <2> QED
    BY <2>1, <2>2
<1>3. ASSUME NEW t \in Thread, thread[t].at \in Answering
      PROVE  LET e == thread[t].sql IN
             /\ e \in Statement /\ execution[e] \in Record
             /\ execution[e].status = "pending" /\ execution[e].sid \in SessionId
  BY <1>1, <1>3, Nothing DEF Base, Whereabouts, Held, Traceless
<1>4. ASSUME NEW t \in Thread, Describe(t) \/ Fetches(t) \/ Settles(t)
      PROVE  \E e \in Statement, r \in Record :
                /\ Records(e, r)
                /\ r.sid \in SessionId /\ r.status # "none"
                /\ r.sid = execution[e].sid /\ thread[t].sql = e
  <2> DEFINE e == thread[t].sql
             c == thread[t].rel
  <2>1. thread[t].at \in Answering
    BY <1>4 DEF Describe, Fetches, Settles, Settle, Answering, Executing
  <2>2. /\ e \in Statement /\ execution[e] \in Record
        /\ execution[e].status = "pending" /\ execution[e].sid \in SessionId
    BY <1>3, <2>1
  <2>3. thread[t].at \in {"describe", "fetch"} => duckdb[c].result \in Statement \cup {None}
    BY DEF Base, Whereabouts, TypeOK, Handle
  <2>4. CASE Describe(t)
    <3> DEFINE r == [execution[e] EXCEPT !.columns = duckdb[c].result]
    <3>1. Records(e, r)
      BY <2>4 DEF Describe
    <3>2. r \in Record /\ r.sid = execution[e].sid /\ r.status = "pending"
      BY <2>2, <2>3, <2>4 DEF Record, Describe
    <3> QED
      BY <2>2, <3>1, <3>2
  <2>5. CASE Fetches(t)
    <3>1. PICK rows \in {duckdb[c].result, None} :
            execution' = [execution EXCEPT ![e].rows = rows] /\ thread[t].at = "fetch"
      BY <2>5 DEF Fetches
    <3> DEFINE r == [execution[e] EXCEPT !.rows = rows]
    <3>2. Records(e, r)
      BY <3>1
    <3>3. r \in Record /\ r.sid = execution[e].sid /\ r.status = "pending"
      BY <2>2, <2>3, <3>1 DEF Record
    <3> QED
      BY <2>2, <3>2, <3>3
  <2>6. CASE Settles(t)
    <3>1. PICK status \in {"pending", "complete", "error"} :
            execution' = [execution EXCEPT ![e] = Settled(@, status)]
      BY <2>6 DEF Settles, Settle, Settled
    <3> DEFINE r == Settled(execution[e], status)
    <3>2. Records(e, r)
      BY <3>1
    <3>3. r \in Record /\ r.sid = execution[e].sid /\ r.status # "none"
      BY <2>2, <3>1 DEF Record, Settled
    <3> QED
      BY <2>2, <3>2, <3>3
  <2> QED
    BY <1>4, <2>4, <2>5, <2>6
<1>5. CASE Requests \/ \E t \in Thread : Moves(t) \/ Take(t) \/ Opens(t) \/ Runs(t)
  BY <1>5 DEF Requests, Request, Moves, Take, Opens, Runs
<1>6. CASE Submits \/ Queries
  BY <1>2, <1>6 DEF Submits, Queries
<1>7. CASE \E t \in Thread : Describe(t) \/ Fetches(t) \/ Settles(t)
  BY <1>4, <1>7
<1> QED
  BY <1>5, <1>6, <1>7, StepKinds

LEMMA ExecutionSteps ==
    ASSUME Base, Next
    PROVE  /\ execution' \in [Statement -> Record] /\ Traceless'
           /\ \A e \in Statement : execution[e].status # "none" =>
                execution'[e].sid = execution[e].sid /\ execution'[e].status # "none"
<1>1. execution \in [Statement -> Record]
  BY DEF Base, TypeOK, Record
<1>2. CASE UNCHANGED execution
  BY <1>1, <1>2 DEF Base, Traceless
<1>3. CASE ~ UNCHANGED execution
  <2>1. PICK e \in Statement, r \in Record :
          /\ Records(e, r)
          /\ r.sid \in SessionId /\ r.status # "none"
          /\ execution[e].status = "none" \/ r.sid = execution[e].sid
    BY <1>3, Writes
  <2>2. execution' \in [Statement -> Record]
        /\ \A x \in Statement : execution'[x] = IF x = e THEN r ELSE execution[x]
    BY <1>1, <2>1 DEF Records
  <2> QED
    BY <2>1, <2>2 DEF Base, Traceless
<1> QED
  BY <1>2, <1>3
-----------------------------------------------------------------------------
\* Where the statements are.
LEMMA Appended ==
    ASSUME NEW S, NEW q \in Seq(S), NEW e \in S
    PROVE  /\ Append(q, e) \in Seq(S) /\ Len(Append(q, e)) = Len(q) + 1 /\ Len(q) \in Nat
           /\ \A i \in 1 .. Len(q) : Append(q, e)[i] = q[i]
           /\ Append(q, e)[Len(q) + 1] = e
OBVIOUS

LEMMA Dequeued ==
    ASSUME NEW S, NEW q \in Seq(S), q # <<>>
    PROVE  /\ Head(q) = q[1] /\ Head(q) \in S /\ 1 \in 1 .. Len(q) /\ Len(q) \in Nat
           /\ Tail(q) \in Seq(S) /\ Len(Tail(q)) = Len(q) - 1
           /\ \A i \in 1 .. Len(q) - 1 : Tail(q)[i] = q[i + 1]
OBVIOUS

\* A step that submits, takes and settles nothing leaves them where they are.
Quiet ==
    /\ UNCHANGED queue
    /\ \A u \in Thread : thread'[u].sql # None =>
            thread'[u].sql = thread[u].sql /\ thread'[u].sid = thread[u].sid
    /\ \A e \in Statement : execution[e].status = "pending" =>
            execution'[e].status = "pending" /\ execution'[e].sid = execution[e].sid

LEMMA QuietKeeps ==
    ASSUME Base, Quiet
    PROVE  Held' /\ Queued' /\ queue' \in Seq(Statement)
<1>1. Held'
  <2>1. \A u \in Thread : thread[u].sql # None => thread[u].sql \in Statement
    BY DEF Base, TypeOK
  <2> QED
    BY <2>1 DEF Base, Held, Quiet
<1>2. Queued'
  <2>1. \A i \in 1 .. Len(queue) : queue[i] \in Statement
    BY DEF Base, TypeOK
  <2> QED
    BY <2>1, Nothing DEF Base, Queued, Quiet
<1> QED
  BY <1>1, <1>2 DEF Base, TypeOK, Quiet

LEMMA MostAreQuiet ==
    ASSUME Base,
           Requests \/ \E t \in Thread : \/ Moves(t) \/ Opens(t) \/ Runs(t)
                                         \/ Describe(t) \/ Fetches(t)
    PROVE  Quiet
<1>1. thread \in [Thread -> ThreadRecord] /\ execution \in [Statement -> Record]
  BY DEF Base, TypeOK, ThreadRecord, Record
<1>2. UNCHANGED queue
  BY DEF Requests, Request, Moves, Opens, Runs, Describe, Fetches
<1>3. ASSUME NEW u \in Thread, thread'[u].sql # None
      PROVE  thread'[u].sql = thread[u].sql /\ thread'[u].sid = thread[u].sid
  <2>1. CASE Requests
    <3>1. thread[Loop] = AtRest /\ Loop \in Thread
      BY <2>1 DEF Requests, Request, Thread
    <3>2. thread[Loop].sql = None
      BY <3>1 DEF AtRest
    <3>3. PICK s \in SessionId, what \in {"suspend", "resume", "destroy"} :
            thread' = [thread EXCEPT ![Loop].at = what, ![Loop].sid = s]
      BY <2>1 DEF Requests, Request
    <3> QED
      BY <1>1, <1>3, <3>1, <3>2, <3>3
  <2>2. ASSUME NEW t \in Thread, Done(t)
        PROVE  thread'[u].sql = thread[u].sql /\ thread'[u].sid = thread[u].sid
    BY <1>1, <1>3, <2>2 DEF Done, AtRest
  <2>3. ASSUME NEW t \in Thread, NEW at, Goto(t, at)
        PROVE  thread'[u].sql = thread[u].sql /\ thread'[u].sid = thread[u].sid
    BY <1>1, <1>3, <2>3 DEF Goto
  <2>4. ASSUME NEW t \in Thread, Runs(t)
        PROVE  thread'[u].sql = thread[u].sql /\ thread'[u].sid = thread[u].sid
    <3>1. PICK c \in Connection : thread' = [thread EXCEPT ![t].at = "describe", ![t].rel = c]
      BY <2>4 DEF Runs
    <3> QED
      BY <1>1, <3>1 DEF ThreadRecord
  <2> QED
    BY <2>1, <2>2, <2>3, <2>4 DEF Moves, Opens, Describe, Fetches
<1>4. ASSUME NEW e \in Statement, execution[e].status = "pending"
      PROVE  execution'[e].status = "pending" /\ execution'[e].sid = execution[e].sid
  <2>1. CASE UNCHANGED execution
    BY <1>4, <2>1
  <2>2. ASSUME NEW t \in Thread, Describe(t)
        PROVE  execution'[e].status = "pending" /\ execution'[e].sid = execution[e].sid
    <3>1. execution' = [execution EXCEPT ![thread[t].sql].columns = duckdb[thread[t].rel].result]
      BY <2>2 DEF Describe
    <3> QED
      BY <1>1, <1>4, <3>1 DEF Record
  <2>3. ASSUME NEW t \in Thread, Fetches(t)
        PROVE  execution'[e].status = "pending" /\ execution'[e].sid = execution[e].sid
    <3>1. PICK rows : execution' = [execution EXCEPT ![thread[t].sql].rows = rows]
      BY <2>3 DEF Fetches
    <3> QED
      BY <1>1, <1>4, <3>1 DEF Record
  <2> QED
    BY <2>1, <2>2, <2>3 DEF Requests, Request, Moves, Opens, Runs
<1> QED
  BY <1>2, <1>3, <1>4 DEF Quiet

LEMMA SubmitKeeps ==
    ASSUME Base, NEW e \in Statement, NEW s \in SessionId, Submit(e, s)
    PROVE  Held' /\ Queued' /\ queue' \in Seq(Statement)
<1>1. thread' = thread /\ queue' = Append(queue, e) /\ queue \in Seq(Statement)
  BY DEF Submit, Base, TypeOK
<1>2. /\ queue' \in Seq(Statement) /\ Len(queue') = Len(queue) + 1 /\ Len(queue) \in Nat
      /\ \A i \in 1 .. Len(queue) : queue'[i] = queue[i] /\ queue[i] \in Statement
      /\ queue'[Len(queue) + 1] = e
  BY <1>1, Appended
<1>3. /\ execution[e].status = "none" /\ execution'[e].status = "pending"
      /\ \A x \in Statement \ {e} : execution'[x] = execution[x]
  BY DEF Submit, Base, TypeOK
<1>4. Held'
  <2>1. \A u \in Thread : thread[u].sql # None => thread[u].sql \in Statement \ {e}
    BY <1>3 DEF Base, TypeOK, Held
  <2> QED
    BY <1>1, <1>3, <2>1 DEF Base, Held
<1>5. Queued'
  <2>1. \A i \in 1 .. Len(queue) : queue[i] # e
    BY <1>3 DEF Base, Queued
  <2>2. \A t \in Thread : thread[t].sql # e
    BY <1>3, Nothing DEF Base, Held
  <2>3. ASSUME NEW i \in 1 .. Len(queue')
        PROVE  /\ execution'[queue'[i]].status = "pending"
               /\ \A j \in 1 .. Len(queue') : queue'[j] = queue'[i] => j = i
               /\ \A t \in Thread : thread[t].sql # queue'[i]
    <3>1. CASE i = Len(queue) + 1
      BY <1>2, <1>3, <2>1, <2>2, <3>1
    <3>2. CASE i \in 1 .. Len(queue)
      BY <1>2, <1>3, <2>1, <3>2 DEF Base, Queued
    <3> QED
      BY <1>2, <3>1, <3>2
  <2> QED
    BY <1>1, <2>3 DEF Queued
<1> QED
  BY <1>2, <1>4, <1>5

LEMMA QueryKeeps ==
    ASSUME Base, NEW e \in Statement, NEW s \in SessionId, Query(e, s)
    PROVE  Held' /\ Queued' /\ queue' \in Seq(Statement)
<1>1. queue' = queue /\ queue \in Seq(Statement) /\ Loop \in Thread
  BY DEF Query, Base, TypeOK, Thread
<1>2. /\ execution[e].status = "none"
      /\ execution'[e].status = "pending" /\ execution'[e].sid = s
      /\ \A x \in Statement \ {e} : execution'[x] = execution[x]
  BY DEF Query, Base, TypeOK
<1>3. /\ thread'[Loop].sql = e /\ thread'[Loop].sid = s
      /\ \A u \in Thread \ {Loop} : thread'[u] = thread[u]
  BY <1>1 DEF Query, Base, TypeOK
<1>4. \A u \in Thread : thread[u].sql # None => thread[u].sql \in Statement \ {e}
  BY <1>2 DEF Base, TypeOK, Held
<1>5. Held'
  BY <1>2, <1>3, <1>4, Nothing DEF Base, Held
<1>6. \A i \in 1 .. Len(queue) : queue[i] \in Statement /\ queue[i] # e
  BY <1>1, <1>2 DEF Base, Queued
<1>7. Queued'
  BY <1>1, <1>2, <1>3, <1>6 DEF Base, Queued
<1> QED
  BY <1>1, <1>5, <1>7

LEMMA TakeKeeps ==
    ASSUME Base, NEW t \in Thread, Take(t)
    PROVE  Held' /\ Queued' /\ queue' \in Seq(Statement)
<1> DEFINE e == Head(queue)
<1>1. queue \in Seq(Statement) /\ queue # <<>> /\ queue' = Tail(queue) /\ execution' = execution
  BY DEF Take, Base, TypeOK
<1>2. /\ e = queue[1] /\ e \in Statement /\ 1 \in 1 .. Len(queue) /\ Len(queue) \in Nat
      /\ queue' \in Seq(Statement) /\ Len(queue') = Len(queue) - 1
      /\ \A i \in 1 .. Len(queue) - 1 : queue'[i] = queue[i + 1]
  BY <1>1, Dequeued
<1>3. /\ thread'[t].sql = e /\ thread'[t].sid = execution[e].sid
      /\ \A u \in Thread \ {t} : thread'[u] = thread[u]
  BY DEF Take, Base, TypeOK
<1>4. execution[e].status = "pending" /\ \A u \in Thread : thread[u].sql # e
  BY <1>2 DEF Base, Queued
<1>5. Held'
  BY <1>1, <1>3, <1>4 DEF Base, Held
<1>6. \A i \in 1 .. Len(queue') : i + 1 \in 1 .. Len(queue) /\ queue'[i] = queue[i + 1]
                                   /\ queue[i + 1] # e
  BY <1>2 DEF Base, Queued
<1>7. Queued'
  <2>1. ASSUME NEW i \in 1 .. Len(queue')
        PROVE  /\ execution[queue'[i]].status = "pending"
               /\ \A j \in 1 .. Len(queue') : queue'[j] = queue'[i] => j = i
               /\ \A u \in Thread : thread'[u].sql # queue'[i]
    <3>1. i + 1 \in 1 .. Len(queue) /\ queue'[i] = queue[i + 1] /\ queue[i + 1] # e
      BY <1>6
    <3>2. execution[queue'[i]].status = "pending"
      BY <3>1 DEF Base, Queued
    <3>3. ASSUME NEW j \in 1 .. Len(queue'), queue'[j] = queue'[i]
          PROVE  j = i
      <4>1. j + 1 \in 1 .. Len(queue) /\ queue[j + 1] = queue[i + 1]
        BY <1>6, <3>1, <3>3
      <4>2. j + 1 = i + 1
        BY <3>1, <4>1 DEF Base, Queued
      <4> QED
        BY <1>2, <4>2
    <3>4. \A u \in Thread : thread'[u].sql # queue'[i]
      BY <1>3, <3>1 DEF Base, Queued
    <3> QED
      BY <3>2, <3>3, <3>4
  <2> QED
    BY <1>1, <2>1 DEF Queued
<1> QED
  BY <1>2, <1>5, <1>7

LEMMA SettleKeeps ==
    ASSUME Base, NEW t \in Thread, Settles(t)
    PROVE  Held' /\ Queued' /\ queue' \in Seq(Statement)
<1> DEFINE e == thread[t].sql
<1>1. PICK status \in {"pending", "complete", "error"} :
        execution' = [execution EXCEPT ![e] = Settled(@, status)]
  BY DEF Settles, Settle, Settled
<1>2. queue' = queue /\ queue \in Seq(Statement) /\ e \in Statement
  BY DEF Settles, Settle, Base, TypeOK, Whereabouts, Answering, Executing
<1>3. \A x \in Statement \ {e} : execution'[x] = execution[x]
  BY <1>1 DEF Base, TypeOK
<1>4. /\ thread'[t].sql = None
      /\ \A u \in Thread \ {t} : thread'[u] = thread[u]
  BY DEF Settles, Settle, Done, AtRest, Base, TypeOK
<1>5. \A u \in Thread \ {t} : thread[u].sql # e
  BY <1>2, Nothing DEF Base, Held
<1>6. Held'
  <2>1. \A u \in Thread : thread'[u].sql # None =>
            u # t /\ thread[u].sql \in Statement \ {e} /\ thread'[u] = thread[u]
    BY <1>4, <1>5 DEF Base, TypeOK
  <2> QED
    BY <1>3, <2>1 DEF Base, Held
<1>7. \A i \in 1 .. Len(queue) : queue[i] \in Statement /\ queue[i] # e
  BY <1>2 DEF Base, Queued
<1>8. Queued'
  BY <1>2, <1>3, <1>4, <1>7, Nothing DEF Base, Queued
<1> QED
  BY <1>2, <1>6, <1>8

LEMMA Placement ==
    ASSUME Base, Next
    PROVE  Held' /\ Queued' /\ queue' \in Seq(Statement)
BY StepKinds, MostAreQuiet, QuietKeeps, SubmitKeeps, QueryKeeps, TakeKeeps, SettleKeeps
   DEF Submits, Queries
-----------------------------------------------------------------------------
LEMMA Initially == Init => Base
<1> SUFFICES ASSUME Init PROVE Base
  OBVIOUS
<1>1. FirstConnection \in [SessionId -> Connection]
  BY EnoughConnections DEF FirstConnection
<1>2. /\ session \in [SessionId -> Object] /\ duckdb \in [Connection -> Handle]
      /\ row \in [SessionId -> {"NONE", "ACTIVE", "SUSPENDED"}]
  BY <1>1, Handles DEF Init, Object
<1>3. thread \in [Thread -> ThreadRecord] /\ \A t \in Thread : thread[t] = AtRest
  BY RestIsPlaced DEF Init
<1>4. execution \in [Statement -> Record] /\ Traceless
  BY DEF Init, Record, Traceless
<1>5. queue \in Seq(Statement) /\ Len(queue) = 0 /\ raced \in SUBSET SessionId
      /\ unsaved \in SUBSET SessionId /\ unwritten \in SUBSET Statement
  BY DEF Init
<1>6. TypeOK
  BY <1>2, <1>3, <1>4, <1>5 DEF TypeOK, ThreadRecord, Record
<1>7. Whereabouts
  BY <1>3, RestIsPlaced DEF Whereabouts, Placed
<1>8. Held
  BY <1>3 DEF Held, AtRest
<1>9. Queued
  BY <1>5 DEF Queued
<1> QED
  BY <1>4, <1>6, <1>7, <1>8, <1>9 DEF Base

LEMMA BaseStep == Base /\ [Next]_vars => Base'
<1>1. ASSUME Base, Next PROVE Base'
  <2>1. TypeOK'
    BY <1>1, StepKinds, LossesTyped, ThreadSteps, ExecutionSteps, Placement
       DEF TypeOK, Tables, ThreadRecord, Record
  <2> QED
    BY <1>1, <2>1, ThreadSteps, ExecutionSteps, Placement DEF Base
<1>2. ASSUME Base, UNCHANGED vars PROVE Base'
  BY <1>2 DEF Base, vars, TypeOK, Whereabouts, Held, Queued, Traceless
<1> QED
  BY <1>1, <1>2

LEMMA Steady == Spec => []Base
<1> QED
  BY Initially, BaseStep, PTL DEF Spec

\* Whatever threads, sessions and statements there are, every variable keeps its
\* type: no thread works without a session, executes without a statement, or
\* fetches without a connection.
THEOREM TypeCorrect == Spec => []TypeOK
<1>1. Base => TypeOK
  BY DEF Base
<1> QED
  BY <1>1, Steady, PTL

\* The pool and the loop execute a statement once: an answer that was given is
\* never replaced, since whoever writes a row holds its statement, and then it is
\* pending still.
THEOREM AnswersAreFinal == Spec => SettledIsFinal
<1>1. ASSUME Base, [Next]_vars
      PROVE  \A e \in Statement :
                execution[e].status \in {"complete", "error"} => execution'[e] = execution[e]
  <2>1. CASE UNCHANGED execution
    BY <2>1
  <2>2. CASE Next /\ ~ UNCHANGED execution
    <3>1. PICK e \in Statement, r \in Record :
            /\ Records(e, r)
            /\ execution[e].status = "none" \/ \E t \in Thread : thread[t].sql = e
      BY <1>1, <2>2, Writes
    <3>2. execution[e].status \in {"none", "pending"}
      BY <1>1, <3>1, Nothing DEF Base, Held
    <3>3. \A x \in Statement \ {e} : execution'[x] = execution[x]
      BY <1>1, <3>1 DEF Records, Base, TypeOK
    <3> QED
      BY <3>2, <3>3
  <2> QED
    BY <1>1, <2>1, <2>2 DEF vars
<1>2. Base /\ [Next]_vars =>
        [\A e \in Statement :
            execution[e].status \in {"complete", "error"} => execution'[e] = execution[e]]_vars
  BY <1>1
<1> QED
  BY <1>2, Steady, PTL DEF Spec, SettledIsFinal
-----------------------------------------------------------------------------
\* Connections, who uses them and what is on them.

\* Only execute() makes a thread refer to a connection.
LEMMA References ==
    ASSUME Base, Next, NEW u \in Thread, thread'[u].rel # None,
           \A t \in Thread : ~ Runs(t)
    PROVE  thread'[u].rel = thread[u].rel /\ thread'[u].sid = thread[u].sid
<1>1. thread \in [Thread -> ThreadRecord] /\ Loop \in Thread
  BY DEF Base, TypeOK, ThreadRecord, Thread
<1>2. ASSUME NEW t \in Thread, Done(t)
      PROVE  thread'[u].rel = thread[u].rel /\ thread'[u].sid = thread[u].sid
  BY <1>1, <1>2 DEF Done, AtRest
<1>3. ASSUME NEW t \in Thread, NEW at, Goto(t, at)
      PROVE  thread'[u].rel = thread[u].rel /\ thread'[u].sid = thread[u].sid
  BY <1>1, <1>3 DEF Goto
<1>4. ASSUME NEW t \in Thread, thread[t] = AtRest, \A v \in Thread \ {t} : thread'[v] = thread[v],
             thread'[t].rel = thread[t].rel
      PROVE  thread'[u].rel = thread[u].rel /\ thread'[u].sid = thread[u].sid
  BY <1>4 DEF AtRest
<1>5. CASE Submits
  BY <1>5 DEF Submits, Submit
<1>6. CASE Queries \/ Requests
  <2>1. thread[Loop] = AtRest
    BY <1>6 DEF Queries, Requests, Query, Request
  <2> DEFINE Same == /\ thread'[Loop].rel = thread[Loop].rel
                     /\ \A v \in Thread \ {Loop} : thread'[v] = thread[v]
  <2>2. Same
    <3>1. ASSUME NEW e, NEW s,
                 thread' = [thread EXCEPT ![Loop].at = "lookup", ![Loop].sql = e, ![Loop].sid = s]
          PROVE  Same
      BY <1>1, <3>1 DEF ThreadRecord
    <3>2. ASSUME NEW what, NEW s,
                 thread' = [thread EXCEPT ![Loop].at = what, ![Loop].sid = s]
          PROVE  Same
      BY <1>1, <3>2 DEF ThreadRecord
    <3> QED
      BY <1>6, <3>1, <3>2 DEF Queries, Requests, Query, Request
  <2> QED
    BY <1>1, <1>4, <2>1, <2>2
<1>7. ASSUME NEW t \in Thread, Take(t)
      PROVE  thread'[u].rel = thread[u].rel /\ thread'[u].sid = thread[u].sid
  <2>1. thread[t] = AtRest /\ \A v \in Thread \ {t} : thread'[v] = thread[v]
    BY <1>1, <1>7 DEF Take
  <2>2. thread'[t].rel = thread[t].rel
    BY <1>1, <1>7 DEF Take
  <2> QED
    BY <1>4, <2>1, <2>2
<1> QED
  BY <1>2, <1>3, <1>5, <1>6, <1>7, StepKinds DEF Moves, Opens, Describe, Fetches, Settles, Settle

\* Uses that were there before are of the same session; a result still on a
\* connection is still of its session.
LEMMA ResultsStay ==
    ASSUME Base, Next, Separate, NEW c \in Connection, NEW s \in SessionId, Uses(s, c),
           duckdb'[c].result \in {duckdb[c].result, None}, duckdb'[c].result # None
    PROVE  execution'[duckdb'[c].result].sid = s
<1>1. duckdb[c].result \in Statement
  BY DEF Base, TypeOK, Handle
<1>2. execution[duckdb[c].result].sid = s /\ s # None
  BY Nothing DEF Separate
<1>3. execution[duckdb[c].result].status # "none"
  BY <1>1, <1>2 DEF Base, Traceless
<1> QED
  BY <1>1, <1>2, <1>3, ExecutionSteps

LEMMA SeparateStep == Base /\ Separate /\ [Next]_vars => Separate'
<1>1. CASE UNCHANGED vars
  BY <1>1 DEF vars, Separate, Uses
<1>2. ASSUME Base, Separate, Next, NEW t \in Thread, Runs(t)
      PROVE  Separate'
  <2> DEFINE own == thread[t].sid
             e == thread[t].sql
  <2>1. PICK d \in Connection :
          /\ d = session[own].conn
          /\ duckdb' = [duckdb EXCEPT ![d].result = e, ![d].rowsLeft = TRUE]
          /\ thread' = [thread EXCEPT ![t].at = "describe", ![t].rel = d]
          /\ UNCHANGED <<session, execution>> /\ thread[t].at = "run"
    BY <1>2 DEF Runs
  <2>2. own \in SessionId /\ e \in Statement /\ execution[e].sid = own
    BY <1>2, <2>1, Nothing DEF Base, Whereabouts, Held, Answering, Executing
  <2>3. /\ thread'[t].rel = d /\ thread'[t].sid = own
        /\ \A u \in Thread \ {t} : thread'[u] = thread[u]
    <3>1. thread \in [Thread -> [at : At, sql : Statement \cup {None},
                                 sid : SessionId \cup {None}, rel : Connection \cup {None}]]
      BY <1>2 DEF Base, TypeOK
    <3>2. thread' = [thread EXCEPT ![t].at = "describe", ![t].rel = d]
      BY <2>1
    <3> QED
      BY <3>1, <3>2
  <2>4. \A c \in Connection, s \in SessionId : Uses(s, c)' => Uses(s, c)
    BY <2>1, <2>3 DEF Uses
  <2>5. Uses(own, d)
    BY <2>1 DEF Uses
  <2>6. duckdb'[d].result = e /\ \A c \in Connection \ {d} : duckdb'[c] = duckdb[c]
    <3>1. duckdb \in [Connection -> Handle]
      BY <1>2 DEF Base, TypeOK
    <3> QED
      BY <2>1, <3>1 DEF Handle
  <2>7. ASSUME NEW c \in Connection, NEW s \in SessionId, Uses(s, c)'
        PROVE  /\ \A u \in SessionId : Uses(u, c)' => u = s
               /\ duckdb'[c].result # None => execution'[duckdb'[c].result].sid = s
    <3>1. Uses(s, c) /\ \A u \in SessionId : Uses(u, c)' => u = s
      BY <1>2, <2>4, <2>7 DEF Separate
    <3>2. CASE c = d
      BY <1>2, <2>1, <2>2, <2>5, <2>6, <3>1, <3>2 DEF Separate
    <3>3. CASE c # d
      BY <1>2, <2>6, <3>1, <3>3, ResultsStay
    <3> QED
      BY <3>1, <3>2, <3>3
  <2> QED
    BY <2>7 DEF Separate
<1>3. ASSUME Base, Separate, Next, NEW t \in Thread, Opens(t), \A v \in Thread : ~ Runs(v)
      PROVE  Separate'
  <2> DEFINE own == thread[t].sid
  <2>1. PICK d \in Unused : /\ duckdb' = [duckdb EXCEPT ![d] = Opened]
                            /\ session' = [session EXCEPT ![own].conn = d]
    BY <1>3 DEF Opens
  <2>2. d \in Connection /\ own \in SessionId
    BY <1>3, SomeUnused DEF Base, Whereabouts, Opens
  <2>3. \A s \in SessionId : ~ Uses(s, d)
    BY <2>1 DEF Unused, Referenced, Uses
  <2>4. ASSUME NEW c \in Connection, NEW s \in SessionId, Uses(s, c)'
        PROVE  Uses(s, c) \/ (c = d /\ s = own)
    <3>1. CASE session'[s].conn = c
      BY <1>3, <2>1, <2>2, <3>1 DEF Base, TypeOK, Object, Uses
    <3>2. CASE \E v \in Thread : thread'[v].rel = c /\ thread'[v].sid = s
      BY <1>3, <3>2, References, Nothing DEF Uses
    <3> QED
      BY <2>4, <3>1, <3>2 DEF Uses
  <2>5. duckdb'[d].result = None /\ \A c \in Connection \ {d} : duckdb'[c] = duckdb[c]
    BY <1>3, <2>1, <2>2 DEF Base, TypeOK, Opened
  <2>6. ASSUME NEW c \in Connection, NEW s \in SessionId, Uses(s, c)'
        PROVE  /\ \A u \in SessionId : Uses(u, c)' => u = s
               /\ duckdb'[c].result # None => execution'[duckdb'[c].result].sid = s
    <3>1. CASE c = d
      BY <2>3, <2>4, <2>5, <2>6, <3>1
    <3>2. CASE c # d
      <4>1. Uses(s, c) /\ \A u \in SessionId : Uses(u, c)' => u = s
        BY <1>3, <2>4, <2>6, <3>2 DEF Separate
      <4> QED
        BY <1>3, <2>5, <3>2, <4>1, ResultsStay
    <3> QED
      BY <3>1, <3>2
  <2> QED
    BY <2>6 DEF Separate
<1>4. ASSUME Base, Separate, Next,
             \A t \in Thread : ~ Runs(t) /\ ~ Opens(t)
      PROVE  Separate'
  <2> DEFINE Less == /\ \A s \in SessionId : session'[s].conn \in {session[s].conn, None}
                     /\ \A c \in Connection : duckdb'[c].result \in {duckdb[c].result, None}
  <2>1. Less
    <3>1. CASE UNCHANGED <<session, duckdb>>
      BY <3>1
    <3>2. ASSUME NEW t \in Thread, Moves(t)
          PROVE  Less
      BY <3>2 DEF Moves
    <3>3. ASSUME NEW t \in Thread, Fetches(t)
          PROVE  Less
      BY <1>4, <3>3 DEF Fetches, Base, TypeOK, Handle
    <3>4. CASE Submits \/ Queries \/ Requests
      BY <3>4 DEF Submits, Submit, Queries, Query, Requests, Request
    <3>5. ASSUME NEW t \in Thread, Take(t) \/ Describe(t) \/ Settles(t)
          PROVE  Less
      BY <3>5 DEF Take, Describe, Settles, Settle
    <3> QED
      BY <1>4, <3>1, <3>2, <3>3, <3>4, <3>5, StepKinds
  <2>2. \A c \in Connection, s \in SessionId : Uses(s, c)' => Uses(s, c)
    BY <1>4, <2>1, References, Nothing DEF Uses
  <2>3. ASSUME NEW c \in Connection, NEW s \in SessionId, Uses(s, c)'
        PROVE  /\ \A u \in SessionId : Uses(u, c)' => u = s
               /\ duckdb'[c].result # None => execution'[duckdb'[c].result].sid = s
    <3>1. Uses(s, c) /\ \A u \in SessionId : Uses(u, c)' => u = s
      BY <1>4, <2>2, <2>3 DEF Separate
    <3> QED
      BY <1>4, <2>1, <3>1, ResultsStay
  <2> QED
    BY <2>3 DEF Separate
<1> QED
  BY <1>1, <1>2, <1>3, <1>4

\* What an execution shows anew is on the connection its thread refers to.
LEMMA Shown ==
    ASSUME Base, Next, NEW e \in Statement,
           NEW shown \in {execution'[e].columns, execution'[e].rows} \ {None}
    PROVE  \/ shown \in {execution[e].columns, execution[e].rows} /\ execution[e].status # "none"
           \/ \E t \in Thread : /\ thread[t].at \in {"describe", "fetch"} /\ thread[t].sql = e
                                /\ shown = duckdb[thread[t].rel].result
<1>1. execution \in [Statement -> Record]
  BY DEF Base, TypeOK, Record
<1>2. shown \in {execution[e].columns, execution[e].rows} => execution[e].status # "none"
  BY DEF Base, Traceless
<1>3. CASE UNCHANGED execution
  BY <1>2, <1>3
<1>4. ASSUME NEW x \in Statement, NEW s \in SessionId, Submit(x, s) \/ Query(x, s)
      PROVE  shown \in {execution[e].columns, execution[e].rows}
  <2>1. execution' = [execution EXCEPT ![x].status = "pending", ![x].sid = s]
    BY <1>4 DEF Submit, Query
  <2> QED
    BY <1>1, <2>1 DEF Record
<1>5. ASSUME NEW t \in Thread, Settles(t)
      PROVE  shown \in {execution[e].columns, execution[e].rows}
  <2>1. PICK status \in {"pending", "complete", "error"} :
          execution' = [execution EXCEPT ![thread[t].sql] = Settled(@, status)]
    BY <1>5 DEF Settles, Settle, Settled
  <2>2. \A r \in Record : /\ Settled(r, status).columns \in {r.columns, None}
                          /\ Settled(r, status).rows \in {r.rows, None}
    BY DEF Settled, Record
  <2> QED
    BY <1>1, <2>1, <2>2
<1>6. ASSUME NEW t \in Thread, Describe(t)
      PROVE  \/ shown \in {execution[e].columns, execution[e].rows}
             \/ /\ thread[t].at \in {"describe", "fetch"} /\ thread[t].sql = e
                /\ shown = duckdb[thread[t].rel].result
  <2>1. thread[t].at = "describe" /\ execution' =
            [execution EXCEPT ![thread[t].sql].columns = duckdb[thread[t].rel].result]
    BY <1>6 DEF Describe
  <2> QED
    BY <1>1, <2>1 DEF Record
<1>7. ASSUME NEW t \in Thread, Fetches(t)
      PROVE  \/ shown \in {execution[e].columns, execution[e].rows}
             \/ /\ thread[t].at \in {"describe", "fetch"} /\ thread[t].sql = e
                /\ shown = duckdb[thread[t].rel].result
  <2>1. PICK rows \in {duckdb[thread[t].rel].result, None} :
          thread[t].at = "fetch" /\ execution' = [execution EXCEPT ![thread[t].sql].rows = rows]
    BY <1>7 DEF Fetches
  <2> QED
    BY <1>1, <2>1 DEF Record
<1>8. ASSUME NEW t \in Thread, Moves(t) \/ Take(t) \/ Opens(t) \/ Runs(t)
      PROVE  UNCHANGED execution
  BY <1>8 DEF Moves, Take, Opens, Runs
<1>9. CASE Requests
  BY <1>3, <1>9 DEF Requests, Request
<1> QED
  BY <1>2, <1>3, <1>4, <1>5, <1>6, <1>7, <1>8, <1>9, StepKinds DEF Submits, Queries

LEMMA IsolationStep == Base /\ Separate /\ SessionIsolation /\ [Next]_vars => SessionIsolation'
<1>1. CASE UNCHANGED vars
  BY <1>1 DEF vars, SessionIsolation
<1>2. ASSUME Base, Separate, SessionIsolation, Next, NEW e \in Statement,
             NEW shown \in {execution'[e].columns, execution'[e].rows} \ {None}
      PROVE  execution'[shown].sid = execution'[e].sid
  <2>1. CASE shown \in {execution[e].columns, execution[e].rows} /\ execution[e].status # "none"
    <3>1. execution[shown].sid = execution[e].sid /\ shown \in Statement
      BY <1>2, <2>1 DEF SessionIsolation, Base, TypeOK
    <3>2. execution[e].sid # None
      BY <1>2, <2>1, Nothing DEF Base, Traceless
    <3>3. execution[shown].status # "none"
      BY <1>2, <3>1, <3>2 DEF Base, Traceless
    <3> QED
      BY <1>2, <2>1, <3>1, <3>3, ExecutionSteps
  <2>2. ASSUME NEW t \in Thread, thread[t].at \in {"describe", "fetch"}, thread[t].sql = e,
               shown = duckdb[thread[t].rel].result
        PROVE  execution'[shown].sid = execution'[e].sid
    <3>1. /\ thread[t].rel \in Connection /\ thread[t].sid \in SessionId
          /\ execution[e].status = "pending" /\ execution[e].sid = thread[t].sid
      BY <1>2, <2>2, Nothing DEF Base, Whereabouts, Held
    <3>2. Uses(thread[t].sid, thread[t].rel)
      BY <2>2 DEF Uses
    <3>3. shown \in Statement /\ execution[shown].sid = thread[t].sid
      BY <1>2, <2>2, <3>1, <3>2 DEF Separate, Base, TypeOK, Handle
    <3>4. execution[shown].status # "none"
      BY <1>2, <3>1, <3>3, Nothing DEF Base, Traceless
    <3> QED
      BY <1>2, <3>1, <3>3, <3>4, ExecutionSteps
  <2> QED
    BY <1>2, <2>1, <2>2, Shown
<1> QED
  BY <1>1, <1>2 DEF SessionIsolation

LEMMA SeparateAtFirst == Init => Separate /\ SessionIsolation
<1> SUFFICES ASSUME Init PROVE Separate /\ SessionIsolation
  OBVIOUS
<1>1. /\ FirstConnection \in [SessionId -> Connection]
      /\ \A s, u \in SessionId : s # u => FirstConnection[s] # FirstConnection[u]
  BY EnoughConnections DEF FirstConnection
<1>2. \A c \in Connection, s \in SessionId : Uses(s, c) => FirstConnection[s] = c
  BY Nothing DEF Init, Uses, AtRest
<1>3. \A c \in Connection : duckdb[c].result = None
  BY DEF Init, Opened, Closed
<1>4. Separate
  BY <1>1, <1>2, <1>3 DEF Separate
<1>5. SessionIsolation
  BY DEF Init, SessionIsolation
<1> QED
  BY <1>4, <1>5

\* However pool threads, suspends and resumes interleave, no execution shows the
\* columns or rows of another session's statement: a connection that anyone
\* refers to is one session's, and what is on it is a result of that session.
THEOREM Isolation == Spec => []SessionIsolation
<1>1. Base /\ Separate /\ SessionIsolation /\ [Next]_vars => (Separate /\ SessionIsolation)'
  BY SeparateStep, IsolationStep
<1> QED
  BY <1>1, SeparateAtFirst, Steady, PTL DEF Spec
-----------------------------------------------------------------------------
\* Sessions that are being changed.
Changes == Resuming \cup Suspending \cup Destroying

LEMMA TwoAreMore ==
    ASSUME NEW S, IsFiniteSet(S), NEW x \in S, NEW y \in S, x # y
    PROVE  Cardinality(S) > 1
<1>1. IsFiniteSet({x}) /\ Cardinality({x}) = 1
  BY FS_Singleton
<1>2. IsFiniteSet({x, y}) /\ Cardinality({x, y}) = 2
  <2>1. IsFiniteSet({x} \cup {y}) /\ Cardinality({x} \cup {y}) = Cardinality({x}) + 1
    BY <1>1, FS_AddElement
  <2>2. {x} \cup {y} = {x, y}
    OBVIOUS
  <2> QED
    BY <1>1, <2>1, <2>2
<1>3. Cardinality({x, y}) <= Cardinality(S)
  BY <1>2, FS_Subset
<1> QED
  BY <1>2, <1>3, FS_CardinalityType

\* Two threads at a session leave it among those that were raced for.
LEMMA RacesNoted ==
    ASSUME NoteRaces, NEW s \in SessionId, s \notin raced'
    PROVE  s \notin raced /\ \A t, u \in Changing(s)' : t = u
<1>1. IsFiniteSet(Thread)
  <2>1. IsFiniteSet({Loop})
    BY FS_Singleton
  <2> QED
    BY <2>1, FS_Union, PondApiAssumption DEF Thread
<1>2. IsFiniteSet(Changing(s)')
  BY <1>1, FS_Subset DEF Changing
<1>3. s \notin raced /\ ~(Cardinality(Changing(s)') > 1)
  BY DEF NoteRaces
<1> QED
  BY <1>2, <1>3, TwoAreMore

\* A thread that changes a session, begins to or ceases to: what Stage says of the
\* session before must make it true afterwards.
LEMMA Advance ==
    ASSUME Base, Staged, NoteRaces, NEW t \in Thread, NEW s \in SessionId, NEW next,
           thread[t].sid = s, thread'[t].at = next,
           next \in Changes => thread'[t].sid = s,
           \A u \in Thread \ {t} : thread'[u] = thread[u],
           \A u \in SessionId \ {s} : session'[u] = session[u] /\ row'[u] = row[u],
           unsaved' \ {s} = unsaved \ {s},
           thread[t].at \in Changes \/ next \in Changes,
           /\ s \notin raced
           /\ thread[t].at \in Changes => Stage(s, thread[t].at)
           /\ thread[t].at \notin Changes => Coherent(s)
           => IF next \in Changes THEN Stage(s, next)' ELSE Coherent(s)'
    PROVE  Staged'
<1>1. ASSUME NEW u \in SessionId, u \notin raced'
      PROVE  /\ \A v, w \in Changing(u)' : v = w
             /\ \A v \in Changing(u)' : Stage(u, thread[v].at)'
             /\ Changing(u)' = {} => Coherent(u)'
  <2>1. u \notin raced /\ \A v, w \in Changing(u)' : v = w
    BY <1>1, RacesNoted
  <2>2. CASE u # s
    <3>1. Changing(u)' = Changing(u)
      BY <2>2 DEF Changing, Changes
    <3>2. \A v \in Changing(u) : v # t
      BY <2>2 DEF Changing
    <3>3. \A v \in Changing(u) : thread'[v].at = thread[v].at /\ v \in Thread
      BY <3>2 DEF Changing
    <3>4. session'[u] = session[u] /\ row'[u] = row[u] /\ (u \in unsaved' <=> u \in unsaved)
      BY <2>2
    <3> QED
      BY <2>1, <3>1, <3>3, <3>4 DEF Staged, Stage, Coherent
  <2>3. CASE u = s
    <3>1. \A v \in Changing(s) : v = t
      <4>1. CASE thread[t].at \in Changes
        <5>1. t \in Changing(s)
          BY <4>1 DEF Changing, Changes
        <5> QED
          BY <2>1, <2>3, <5>1 DEF Staged
      <4>2. CASE next \in Changes
        <5>1. t \in Changing(s)'
          BY <4>2 DEF Changing, Changes
        <5>2. \A v \in Changing(s) \ {t} : v \in Changing(s)'
          BY DEF Changing
        <5> QED
          BY <2>1, <2>3, <5>1, <5>2
      <4> QED
        BY <4>1, <4>2
    <3>2. /\ thread[t].at \in Changes => Stage(s, thread[t].at)
          /\ thread[t].at \notin Changes => Coherent(s)
      BY <2>1, <2>3, <3>1 DEF Staged, Changing, Changes
    <3>3. IF next \in Changes THEN Stage(s, next)' ELSE Coherent(s)'
      BY <2>1, <2>3, <3>2
    <3>4. Changing(s)' = IF next \in Changes THEN {t} ELSE {}
      BY <3>1 DEF Changing, Changes
    <3> QED
      BY <2>1, <2>3, <3>3, <3>4 DEF Stage
  <2> QED
    BY <2>2, <2>3
<1> QED
  BY <1>1 DEF Staged

\* A thread that neither was changing a session nor is now.
LEMMA Aside ==
    ASSUME Staged, NoteRaces, NEW t \in Thread,
           thread[t].at \notin Changes, thread'[t].at \notin Changes,
           \A u \in Thread \ {t} : thread'[u] = thread[u],
           UNCHANGED <<session, row, unsaved>>
    PROVE  Staged'
<1>1. \A s : Changing(s)' = Changing(s)
  BY DEF Changing, Changes
<1>2. ASSUME NEW s \in SessionId, s \notin raced'
      PROVE  /\ \A v, w \in Changing(s)' : v = w
             /\ \A v \in Changing(s)' : Stage(s, thread[v].at)'
             /\ Changing(s)' = {} => Coherent(s)'
  <2>1. s \notin raced /\ \A v, w \in Changing(s)' : v = w
    BY <1>2, RacesNoted
  <2>2. \A v \in Changing(s) : thread'[v].at = thread[v].at
    BY DEF Changing, Changes
  <2> QED
    BY <1>1, <2>1, <2>2 DEF Staged, Stage, Coherent
<1> QED
  BY <1>2 DEF Staged

\* A thread is sent somewhere, or to rest.
LEMMA Moved ==
    ASSUME Base, NEW t \in Thread, NEW at
    PROVE  /\ Goto(t, at) => /\ thread'[t].at = at /\ thread'[t].sid = thread[t].sid
                             /\ \A u \in Thread \ {t} : thread'[u] = thread[u]
           /\ Done(t) => /\ thread'[t].at = "idle"
                         /\ \A u \in Thread \ {t} : thread'[u] = thread[u]
BY DEF Base, TypeOK, Goto, Done, AtRest

LEMMA RaiseMoved ==
    ASSUME Base, NEW t \in Thread, Raise(t)
    PROVE  /\ thread'[t].at \in {"idle", "failed"}
           /\ \A u \in Thread \ {t} : thread'[u] = thread[u]
BY Moved DEF Raise

LEMMA NotChanges ==
    /\ "idle" \notin Changes /\ "suspend" \notin Changes /\ "resume" \notin Changes
    /\ "destroy" \notin Changes /\ "lookup" \notin Changes /\ "run" \notin Changes
    /\ "describe" \notin Changes /\ "fetch" \notin Changes /\ "complete" \notin Changes
    /\ "failed" \notin Changes
BY DEF Changes, Resuming, Suspending, Destroying

\* One assignment to the session's object, one write of its row.
LEMMA Assigned ==
    ASSUME Base, NEW t \in Thread, NEW s \in SessionId, s = thread[t].sid,
           NEW here, NEW next, NEW object, Assign(t, here, next, object)
    PROVE  /\ thread[t].at = here /\ thread'[t].at = next /\ thread'[t].sid = s
           /\ \A u \in Thread \ {t} : thread'[u] = thread[u]
           /\ session'[s] = object /\ row'[s] = row[s] /\ unsaved' = unsaved
           /\ \A u \in SessionId \ {s} : session'[u] = session[u] /\ row'[u] = row[u]
BY Moved DEF Assign, Base, TypeOK, losses

LEMMA Saved ==
    ASSUME Base, NEW t \in Thread, NEW s \in SessionId, s = thread[t].sid,
           NEW here, NEW next, NEW state, SaveRow(t, here, next, state)
    PROVE  /\ thread[t].at = here /\ thread'[t].at \in {next, "idle", "failed"}
           /\ \A u \in Thread \ {t} : thread'[u] = thread[u]
           /\ session' = session
           /\ s \notin unsaved' => row'[s] = state
           /\ \A u \in SessionId \ {s} : row'[u] = row[u]
           /\ unsaved' \ {s} = unsaved \ {s}
<1>1. thread[t].at = here /\ session' = session
  BY DEF SaveRow
<1>2. CASE /\ row' = [row EXCEPT ![s] = state] /\ unsaved' = unsaved \ {s}
           /\ IF next = "idle" THEN Done(t) ELSE Goto(t, next)
  BY <1>1, <1>2, Moved DEF Base, TypeOK
<1>3. CASE unsaved' = unsaved \cup {s} /\ Raise(t) /\ UNCHANGED row
  BY <1>1, <1>3, RaiseMoved
<1> QED
  BY <1>2, <1>3 DEF SaveRow

LEMMA StagedBySuspend ==
    ASSUME Base, Staged, NoteRaces, NEW t \in Thread, Suspend(t) \/ FinishSuspend(t)
    PROVE  Staged'
<1>0. session \in [SessionId -> Object]
  BY DEF Base, TypeOK
<1>1. PICK s \in SessionId : s = thread[t].sid
  BY DEF Base, Whereabouts, Suspend, FinishSuspend, Assign, SaveRow
<1>2. CASE Suspend(t)
  <2>1. UNCHANGED <<session, row, unsaved>> /\ thread[t].at = "suspend"
    BY <1>2 DEF Suspend, losses
  <2>2. CASE Raise(t)
    BY <2>1, <2>2, RaiseMoved, NotChanges, Aside
  <2>3. ASSUME ~ Raise(t)
        PROVE  /\ session[s].registered /\ session[s].status # "SUSPENDED"
               /\ \/ session[s].conn = None /\ Goto(t, "mark")
                  \/ session[s].conn # None /\ Goto(t, "unset")
    BY <1>1, <1>2, <2>3 DEF Suspend
  <2>4. CASE session[s].registered /\ session[s].status # "SUSPENDED" /\ session[s].conn = None
             /\ Goto(t, "mark")
    <3>1. ~ Coherent(s)
      BY <1>0, <1>1, <2>4 DEF Coherent, Object
    <3>2. /\ thread'[t].at = "mark" /\ thread'[t].sid = s
          /\ \A u \in Thread \ {t} : thread'[u] = thread[u]
      BY <1>1, <2>4, Moved
    <3>3. "mark" \in Changes
      BY DEF Changes, Suspending
    <3> QED
      BY <1>0, <1>1, <2>1, <3>1, <3>2, <3>3, NotChanges, Advance
  <2>5. CASE session[s].registered /\ session[s].status # "SUSPENDED" /\ session[s].conn # None
             /\ Goto(t, "unset")
    <3>1. Coherent(s) => Stage(s, "unset")'
      BY <1>0, <1>1, <2>1, <2>5 DEF Coherent, Object, Stage, Resuming, Destroying
    <3>2. /\ thread'[t].at = "unset" /\ thread'[t].sid = s
          /\ \A u \in Thread \ {t} : thread'[u] = thread[u]
      BY <1>1, <2>5, Moved
    <3>3. "unset" \in Changes
      BY DEF Changes, Suspending
    <3> QED
      BY <1>0, <1>1, <2>1, <3>1, <3>2, <3>3, NotChanges, Advance
  <2> QED
    BY <2>2, <2>3, <2>4, <2>5
<1> DEFINE this == session[s]
<1>3. {"unset", "mark", "stamp", "saveSuspended"} \subseteq Changes
  BY DEF Changes, Suspending
<1>4. CASE Assign(t, "unset", "mark", [this EXCEPT !.conn = None])
  <2>1. Stage(s, "unset") => Stage(s, "mark")'
    BY <1>0, <1>1, <1>4, Assigned DEF Stage, Object, Resuming, Destroying
  <2> QED
    BY <1>1, <1>3, <1>4, <2>1, Assigned, Advance
<1>5. CASE Assign(t, "mark", "stamp", [this EXCEPT !.status = "SUSPENDED"])
  <2>1. Stage(s, "mark") => Stage(s, "stamp")'
    BY <1>0, <1>1, <1>5, Assigned DEF Stage, Object, Resuming, Destroying
  <2> QED
    BY <1>1, <1>3, <1>5, <2>1, Assigned, Advance
<1>6. CASE Assign(t, "stamp", "saveSuspended", [this EXCEPT !.stamped = TRUE])
  <2>1. Stage(s, "stamp") => Stage(s, "saveSuspended")'
    BY <1>0, <1>1, <1>6, Assigned DEF Stage, Object, Resuming, Destroying
  <2> QED
    BY <1>1, <1>3, <1>6, <2>1, Assigned, Advance
<1>7. CASE SaveRow(t, "saveSuspended", "idle", "SUSPENDED")
  <2>1. /\ thread[t].at = "saveSuspended" /\ session' = session
        /\ s \notin unsaved' => row'[s] = "SUSPENDED"
        /\ \A u \in SessionId \ {s} : row'[u] = row[u]
        /\ unsaved' \ {s} = unsaved \ {s}
    BY <1>1, <1>7, Saved
  <2>2. PICK place : /\ place \in {"idle", "run", "failed"} /\ thread'[t].at = place
                     /\ \A u \in Thread \ {t} : thread'[u] = thread[u]
    BY <1>1, <1>7, Saved
  <2>3. Stage(s, "saveSuspended") => Coherent(s)'
    <3>1. session[s].status \in {"ACTIVE", "SUSPENDED"}
      BY <1>0, <1>1 DEF Object
    <3>2. Stage(s, "saveSuspended") => /\ session[s].registered /\ session[s].stamped
                                       /\ session[s].status # "ACTIVE" /\ session[s].conn = None
      BY DEF Stage, Resuming, Destroying
    <3>3. session'[s] = session[s]
      BY <2>1
    <3> QED
      BY <2>1, <3>1, <3>2, <3>3 DEF Coherent
  <2> QED
    BY <1>0, <1>1, <1>3, <2>1, <2>2, <2>3, NotChanges, Advance
<1> QED
  BY <1>1, <1>2, <1>4, <1>5, <1>6, <1>7 DEF FinishSuspend

LEMMA StagedByResume ==
    ASSUME Base, Staged, NoteRaces, NEW t \in Thread,
           Resume(t) \/ Connect(t) \/ FinishResume(t)
    PROVE  Staged'
<1>0. session \in [SessionId -> Object]
  BY DEF Base, TypeOK
<1>1. PICK s \in SessionId : s = thread[t].sid
  BY DEF Base, Whereabouts, Resume, Connect, FinishResume, Assign, SaveRow
<1> DEFINE this == session[s]
<1>2. {"connect", "activate", "unstamp", "saveActive"} \subseteq Changes
  BY DEF Changes, Resuming
<1>3. CASE Resume(t)
  <2>1. UNCHANGED <<session, row, unsaved>> /\ thread[t].at = "resume"
    BY <1>3 DEF Resume, losses
  <2>2. CASE Raise(t)
    BY <2>1, <2>2, RaiseMoved, NotChanges, Aside
  <2>3. CASE ~ Raise(t)
    <3>1. this.registered /\ this.status # "ACTIVE" /\ Goto(t, "connect")
      BY <1>1, <1>3, <2>3 DEF Resume
    <3>2. /\ thread'[t].at = "connect" /\ thread'[t].sid = s
          /\ \A u \in Thread \ {t} : thread'[u] = thread[u]
      BY <1>1, <3>1, Moved
    <3>3. Coherent(s) => Stage(s, "connect")'
      BY <1>0, <1>1, <2>1, <3>1 DEF Coherent, Object, Stage, Resuming, Destroying
    <3> QED
      BY <1>1, <1>2, <2>1, <3>2, <3>3, NotChanges, Advance
  <2> QED
    BY <2>2, <2>3
<1>4. CASE Connect(t)
  <2>1. thread[t].at = "connect" /\ UNCHANGED <<row, unsaved>>
    BY <1>4 DEF Connect, losses
  <2>2. CASE Raise(t) /\ UNCHANGED session
    <3>1. Stage(s, "connect") => Coherent(s)'
      <4>1. Stage(s, "connect") => /\ this.registered /\ this.stamped
                                   /\ s \notin unsaved => row[s] = "SUSPENDED"
                                   /\ this.status # "ACTIVE" /\ this.conn = None
        BY DEF Stage, Resuming, Destroying
      <4>2. this.status \in {"ACTIVE", "SUSPENDED"}
        BY <1>0, <1>1 DEF Object
      <4> QED
        BY <2>1, <2>2, <4>1, <4>2 DEF Coherent
    <3>2. PICK next : thread'[t].at = next /\ next \in {"idle", "failed"}
      BY <2>2, RaiseMoved
    <3> QED
      BY <1>1, <1>2, <2>1, <2>2, <3>1, <3>2, RaiseMoved, NotChanges, Advance
  <2>3. ASSUME NEW c \in NewConnection, session' = [session EXCEPT ![thread[t].sid].conn = c],
               Goto(t, "activate")
        PROVE  Staged'
    <3>1. c # None
      BY SomeUnused, Nothing DEF Base
    <3>2. /\ thread'[t].at = "activate" /\ thread'[t].sid = s
          /\ \A u \in Thread \ {t} : thread'[u] = thread[u]
      BY <1>1, <2>3, Moved
    <3>3. /\ session'[s] = [this EXCEPT !.conn = c]
          /\ \A u \in SessionId \ {s} : session'[u] = session[u]
      BY <1>0, <1>1, <2>3
    <3>4. Stage(s, "connect") => Stage(s, "activate")'
      BY <1>0, <1>1, <2>1, <3>1, <3>3 DEF Stage, Object, Resuming, Destroying
    <3> QED
      BY <1>1, <1>2, <2>1, <3>2, <3>3, <3>4, Advance
  <2> QED
    BY <1>4, <2>2, <2>3 DEF Connect
<1>5. CASE Assign(t, "activate", "unstamp", [this EXCEPT !.status = "ACTIVE"])
  <2>1. Stage(s, "activate") => Stage(s, "unstamp")'
    BY <1>0, <1>1, <1>5, Assigned DEF Stage, Object, Resuming, Destroying
  <2> QED
    BY <1>1, <1>2, <1>5, <2>1, Assigned, Advance
<1>6. CASE Assign(t, "unstamp", "saveActive", [this EXCEPT !.stamped = FALSE])
  <2>1. Stage(s, "unstamp") => Stage(s, "saveActive")'
    BY <1>0, <1>1, <1>6, Assigned DEF Stage, Object, Resuming, Destroying
  <2> QED
    BY <1>1, <1>2, <1>6, <2>1, Assigned, Advance
<1>7. ASSUME NEW next \in {"idle", "run"}, SaveRow(t, "saveActive", next, "ACTIVE")
      PROVE  Staged'
  <2>1. /\ thread[t].at = "saveActive" /\ session' = session
        /\ s \notin unsaved' => row'[s] = "ACTIVE"
        /\ \A u \in SessionId \ {s} : row'[u] = row[u]
        /\ unsaved' \ {s} = unsaved \ {s}
    BY <1>1, <1>7, Saved
  <2>2. PICK place : /\ place \in {"idle", "run", "failed"} /\ thread'[t].at = place
                     /\ \A u \in Thread \ {t} : thread'[u] = thread[u]
    BY <1>1, <1>7, Saved
  <2>3. Stage(s, "saveActive") => Coherent(s)'
    <3>1. Stage(s, "saveActive") => /\ this.registered /\ ~ this.stamped
                                    /\ this.status = "ACTIVE" /\ this.conn # None
      BY DEF Stage, Resuming, Destroying
    <3>2. session'[s] = session[s]
      BY <2>1
    <3> QED
      BY <2>1, <3>1, <3>2 DEF Coherent
  <2> QED
    BY <1>1, <1>2, <2>1, <2>2, <2>3, NotChanges, Advance
<1>8. CASE FinishResume(t)
  BY <1>1, <1>5, <1>6, <1>7, <1>8 DEF FinishResume
<1> QED
  BY <1>3, <1>4, <1>8

LEMMA StagedByDestroy ==
    ASSUME Base, Staged, NoteRaces, NEW t \in Thread, Destroy(t)
    PROVE  Staged'
<1>0. session \in [SessionId -> Object]
  BY DEF Base, TypeOK
<1>1. PICK s \in SessionId : s = thread[t].sid
  BY DEF Base, Whereabouts, Destroy, SaveRow
<1>2. {"close", "deleteRow"} \subseteq Changes
  BY DEF Changes, Destroying
<1>3. CASE thread[t].at = "destroy" /\ UNCHANGED <<session, row, unsaved>> /\ Raise(t)
  BY <1>3, RaiseMoved, NotChanges, Aside
<1>4. CASE /\ thread[t].at = "destroy" /\ UNCHANGED <<row, unsaved>>
           /\ session' = [session EXCEPT ![s].registered = FALSE] /\ Goto(t, "close")
  <2>1. /\ ~ session'[s].registered
        /\ \A u \in SessionId \ {s} : session'[u] = session[u]
    BY <1>0, <1>4 DEF Object
  <2>2. /\ thread'[t].at = "close" /\ thread'[t].sid = s
        /\ \A u \in Thread \ {t} : thread'[u] = thread[u]
    BY <1>1, <1>4, Moved
  <2>3. Stage(s, "close")'
    BY <2>1 DEF Stage, Destroying
  <2> QED
    BY <1>1, <1>2, <1>4, <2>1, <2>2, <2>3, Advance
<1>5. CASE thread[t].at = "close" /\ UNCHANGED <<session, row, unsaved>> /\ Goto(t, "deleteRow")
  <2>1. /\ thread'[t].at = "deleteRow" /\ thread'[t].sid = s
        /\ \A u \in Thread \ {t} : thread'[u] = thread[u]
    BY <1>1, <1>5, Moved
  <2>2. Stage(s, "close") => Stage(s, "deleteRow")'
    BY <1>5 DEF Stage, Destroying
  <2> QED
    BY <1>1, <1>2, <1>5, <2>1, <2>2, Advance
<1>6. CASE SaveRow(t, "deleteRow", "idle", "NONE")
  <2>1. /\ thread[t].at = "deleteRow" /\ session' = session
        /\ s \notin unsaved' => row'[s] = "NONE"
        /\ \A u \in SessionId \ {s} : row'[u] = row[u]
        /\ unsaved' \ {s} = unsaved \ {s}
    BY <1>1, <1>6, Saved
  <2>2. PICK place : /\ place \in {"idle", "run", "failed"} /\ thread'[t].at = place
                     /\ \A u \in Thread \ {t} : thread'[u] = thread[u]
    BY <1>1, <1>6, Saved
  <2>3. Stage(s, "deleteRow") => Coherent(s)'
    BY <2>1 DEF Stage, Coherent, Destroying
  <2> QED
    BY <1>1, <1>2, <2>1, <2>2, <2>3, NotChanges, Advance
<1> QED
  BY <1>1, <1>3, <1>4, <1>5, <1>6 DEF Destroy, losses

LEMMA StagedByOthers ==
    ASSUME Base, Staged, NoteRaces, NEW t \in Thread,
           Take(t) \/ Lookup(t) \/ Run(t) \/ Describe(t) \/ Fetch(t) \/ Persist(t)
    PROVE  Staged'
<1>1. thread \in [Thread -> ThreadRecord]
  BY DEF Base, TypeOK, ThreadRecord
<1>2. UNCHANGED <<session, row, unsaved>>
  BY DEF Take, Lookup, Run, Describe, Fetch, Persist, WriteResult, WriteError, WriteFails,
         Settle, losses
<1>3. thread[t].at \notin Changes
  <2>1. CASE Take(t)
    BY <2>1, NotChanges DEF Take, AtRest
  <2>2. CASE ~ Take(t)
    BY <2>2, NotChanges DEF Lookup, Run, Describe, Fetch, Persist, WriteResult, WriteError,
                             WriteFails, Settle
  <2> QED
    BY <2>1, <2>2
<1>4. thread'[t].at \notin Changes /\ \A u \in Thread \ {t} : thread'[u] = thread[u]
  <2> DEFINE Elsewhere == /\ thread'[t].at \notin Changes
                          /\ \A u \in Thread \ {t} : thread'[u] = thread[u]
  <2>1. CASE Raise(t)
    BY <2>1, RaiseMoved, NotChanges
  <2>2. CASE Done(t)
    BY <2>2, Moved, NotChanges
  <2>3. ASSUME NEW at \in {"resume", "run", "fetch", "complete"}, Goto(t, at)
        PROVE  Elsewhere
    BY <2>3, Moved, NotChanges
  <2>4. CASE Take(t)
    BY <1>1, <2>4, NotChanges DEF Take, ThreadRecord
  <2>5. ASSUME NEW c, thread' = [thread EXCEPT ![t].at = "describe", ![t].rel = c]
        PROVE  Elsewhere
    BY <1>1, <2>5, NotChanges DEF ThreadRecord
  <2>6. CASE Lookup(t)
    BY <2>1, <2>3, <2>6 DEF Lookup
  <2>7. CASE Run(t)
    BY <2>1, <2>5, <2>7 DEF Run
  <2>8. CASE Describe(t) \/ Fetch(t) \/ Persist(t)
    BY <2>1, <2>2, <2>3, <2>8 DEF Describe, Fetch, Persist, WriteResult, WriteError,
                                     WriteFails, Settle
  <2> QED
    BY <2>4, <2>6, <2>7, <2>8
<1> QED
  BY <1>2, <1>3, <1>4, Aside

LEMMA StagedStep == Base /\ Staged /\ [Next]_vars => Staged'
<1> SUFFICES ASSUME Base, Staged, [Next]_vars PROVE Staged'
  OBVIOUS
<1>1. CASE UNCHANGED vars
  BY <1>1 DEF vars, Staged, Changing, Stage, Coherent
<1>2. CASE LoopStarts
  <2>1. thread \in [Thread -> ThreadRecord] /\ Loop \in Thread
    BY DEF Base, TypeOK, ThreadRecord, Thread
  <2>2. NoteRaces /\ UNCHANGED <<session, row, unsaved>> /\ thread[Loop].at = "idle"
    <3>1. NoteRaces
      BY <1>2 DEF LoopStarts
    <3>2. UNCHANGED <<session, row, unsaved>> /\ thread[Loop] = AtRest
      BY <1>2 DEF LoopStarts, Submit, Query, Request, losses
    <3> QED
      BY <3>1, <3>2 DEF AtRest
  <2> DEFINE Elsewhere == /\ thread'[Loop].at \notin Changes
                          /\ \A u \in Thread \ {Loop} : thread'[u] = thread[u]
  <2>3. ASSUME UNCHANGED thread
        PROVE  Elsewhere
    BY <2>2, <2>3, NotChanges
  <2>4. ASSUME NEW e \in Statement, NEW s \in SessionId, Query(e, s)
        PROVE  Elsewhere
    <3>1. thread' = [thread EXCEPT ![Loop].at = "lookup", ![Loop].sql = e, ![Loop].sid = s]
      BY <2>4 DEF Query
    <3> QED
      BY <2>1, <3>1, NotChanges DEF ThreadRecord
  <2>5. ASSUME NEW s \in SessionId, NEW what \in {"suspend", "resume", "destroy"},
               Request(s, what)
        PROVE  Elsewhere
    <3>1. thread' = [thread EXCEPT ![Loop].at = what, ![Loop].sid = s]
      BY <2>5 DEF Request
    <3> QED
      BY <2>1, <3>1, NotChanges DEF ThreadRecord
  <2>6. Elsewhere
    BY <1>2, <2>2, <2>3, <2>4, <2>5, NotChanges, PondApiAssumption DEF LoopStarts, Submit
  <2> QED
    BY <2>1, <2>2, <2>6, NotChanges, Aside
<1>3. ASSUME NEW t \in Thread, Step(t)
      PROVE  Staged'
  <2>1. NoteRaces
    BY <1>3 DEF Step
  <2> QED
    BY <1>3, <2>1, StagedBySuspend, StagedByResume, StagedByDestroy, StagedByOthers DEF Step
<1> QED
  BY <1>1, <1>2, <1>3 DEF Next

LEMMA StagedAtFirst == Init => Staged
<1> SUFFICES ASSUME Init PROVE Staged
  OBVIOUS
<1>1. \A s : Changing(s) = {}
  BY NotChanges DEF Init, Changing, AtRest, Changes
<1>2. \A s \in SessionId : Coherent(s)
  <2>1. FirstConnection \in [SessionId -> Connection]
    BY EnoughConnections DEF FirstConnection
  <2> QED
    BY <2>1, Nothing DEF Init, Coherent
<1> QED
  BY <1>1, <1>2 DEF Staged

\* Suspending, resuming and destroying tear a session only where two threads are at
\* it at the same time: a thread alone takes it through the stages in order, and
\* leaves it in one piece even when the store refuses its row, which is then the
\* only thing that disagrees, until a later write.
THEOREM OnlyRacesTear == Spec => []TornOnlyByRaces
<1>1. Staged => TornOnlyByRaces
  BY DEF Staged, TornOnlyByRaces
<1> QED
  BY <1>1, StagedAtFirst, StagedStep, Steady, PTL DEF Spec
=============================================================================
