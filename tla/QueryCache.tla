----------------------------- MODULE QueryCache -----------------------------
(***************************************************************************)
(* POST /query and the ResultCache behind it.  An answer is kept under the *)
(* SQL text, the caller's tenant and a version number that app.py counts   *)
(* for each session and raises before every statement its regular          *)
(* expression takes for a write.  What the answer depends on, however, is  *)
(* the content of the session's in-memory connection, which other paths    *)
(* change too: /pondapi, suspends and restarts, which lose it, statements  *)
(* the expression does not recognise, and uploads and deletions of         *)
(* datasets, which a connection is given when it is opened.                *)
(*                                                                         *)
(* Every handler is one action (no await suspends); what pool threads do   *)
(* in between is the subject of PondApi.  The engine appears through       *)
(* SessionLifecycle and the content of its connections.                    *)
(***************************************************************************)
EXTENDS Naturals

CONSTANTS
    SessionId, Tenant,
    Read,           \* SELECT statements over the session's tables
    Recognised,     \* writes that _WRITE_RE matches
    Unrecognised,   \* writes it does not: a CTE before INSERT, a second statement
    Registry,       \* what the dataset manager may have registered
    NoDatasets,     \* nothing: what it has at the start
    None,
    TTL,            \* ttl_seconds
    MaxRows,        \* bound: rows written on one connection
    MaxVersion      \* bound: writes counted for one session

ASSUME QueryCacheAssumption ==
    /\ TTL \in Nat /\ MaxRows \in Nat /\ MaxVersion \in Nat
    /\ Read \cap Recognised = {} /\ Read \cap Unrecognised = {}
    /\ Recognised \cap Unrecognised = {}
    /\ NoDatasets \in Registry

VARIABLES
    phase,      \* the engine: where each session is in its life
    content,    \* what its connection holds; without one, what it would hold
    datasets,   \* DatasetManager._datasets
    version,    \* app.py's _dataset_versions
    cache,      \* ResultCache._store
    bypassed    \* history: content changed since the version last did

vars == <<phase, content, datasets, version, cache, bypassed>>

Engine == INSTANCE SessionLifecycle

Cacheable == Read \cup Unrecognised
Statement == Cacheable \cup Recognised

\* The datasets a connection was given, and the rows written since it was opened.
Content == [given : Registry, rows : 0 .. MaxRows]
Key == Cacheable \X Tenant \X (0 .. MaxVersion)

\* An entry carries its age instead of expires_at.  One older than TTL is no
\* entry: get deletes it and reports a miss.  origin is history: the session whose
\* content the answer shows.
NoEntry == [origin |-> None, answer |-> None, age |-> TTL + 1]
Entry == [origin : SessionId \cup {None}, answer : Content \cup {None}, age : 0 .. TTL]

\* _create_hardened_connection: an in-memory database with the registered datasets.
Opened == [given |-> datasets, rows |-> 0]
Registered == {s \in SessionId : phase[s] \in {"ACTIVE", "SUSPENDED"}}

TypeOK ==
    /\ phase \in [SessionId -> Engine!Phase]
    /\ content \in [SessionId -> Content]
    /\ datasets \in Registry
    /\ version \in [SessionId -> 0 .. MaxVersion]
    /\ cache \in [Key -> Entry \cup {NoEntry}]
    /\ bypassed \in SUBSET SessionId

Init ==
    /\ Engine!Init
    /\ datasets = NoDatasets
    /\ content = [s \in SessionId |-> Opened]
    /\ version = [s \in SessionId |-> 0]
    /\ cache = [k \in Key |-> NoEntry]
    /\ bypassed = {}
-----------------------------------------------------------------------------
\* The session has other content, and its version stays.
NoteBypass(s) ==
    bypassed' = IF content'[s] = content[s] THEN bypassed ELSE bypassed \cup {s}

\* POST /session.
Create(s) ==
    /\ Engine!Open(s)
    /\ content' = [content EXCEPT ![s] = Opened]
    /\ UNCHANGED <<datasets, version, cache, bypassed>>

\* The watchdog or a request: the connection is closed and its tables are gone.
Suspend(s) ==
    /\ Engine!Sweep({s}, {})
    /\ content' = [content EXCEPT ![s] = Opened]
    /\ NoteBypass(s)
    /\ UNCHANGED <<datasets, version, cache>>

\* POST /htmx/session/{id}/resume.
Resume(s) ==
    /\ Engine!Resume(s)
    /\ content' = [content EXCEPT ![s] = Opened]
    /\ UNCHANGED <<datasets, version, cache, bypassed>>

\* DELETE /session or the reaper; _dataset_versions and the entries stay.
Destroy(s) ==
    /\ Engine!Close(s)
    /\ content' = [content EXCEPT ![s] = Opened]
    /\ UNCHANGED <<datasets, version, cache, bypassed>>
-----------------------------------------------------------------------------
\* execute_query wakes a suspended session, then DuckDB executes the statement.
Wake(s) == phase' = [phase EXCEPT ![s] = "ACTIVE"]

\* A write adds to what the session holds.  One that fails may have done so too:
\* its first statements are not undone.
Success(sql, c) == IF sql \in Read THEN {c} ELSE {[c EXCEPT !.rows = @ + 1]} \cap Content
Failure(sql, c) == {c} \cup Success(sql, c)
Answer(sql, c) == IF sql \in Read THEN c ELSE None      \* what it counts
Origin(sql, s) == IF sql \in Read THEN s ELSE None

\* make_key.
CacheKey(sql, t, v) == <<sql, t, v>>

Servable(k) == cache[k] # NoEntry

\* ResultCache.set, after a success only.
Remember(k, s, sql, c) ==
    cache' = [cache EXCEPT ![k] = [origin |-> Origin(sql, s), answer |-> Answer(sql, c),
                                   age |-> 0]]

\* Every hit prolongs the entry.
FaultyHit(s, t, sql) ==
    LET k == CacheKey(sql, t, version[s]) IN
    /\ Servable(k)
    /\ cache' = [cache EXCEPT ![k].age = 0]
    /\ UNCHANGED <<phase, content, datasets, version, bypassed>>

\* POST /query answers from the cache: the engine is not asked, a suspended
\* session stays suspended.
Hit(s, t, sql) ==
    LET k == CacheKey(sql, t, version[s]) IN
    /\ Servable(k)
    /\ UNCHANGED vars

\* POST /query executes what does not look like a write.
Miss(s, t, sql) ==
    LET k == CacheKey(sql, t, version[s]) IN
    /\ ~Servable(k)
    /\ \/ \* the sandbox refuses it
          UNCHANGED <<phase, content, cache, bypassed>>
       \/ /\ Wake(s)
          /\ \/ \E c \in Success(sql, content[s]) :
                  /\ content' = [content EXCEPT ![s] = c]
                  /\ Remember(k, s, sql, c)
             \/ \E c \in Failure(sql, content[s]) :
                  content' = [content EXCEPT ![s] = c] /\ UNCHANGED cache
          /\ NoteBypass(s)
    /\ UNCHANGED <<datasets, version>>

\* Writes are executed under the version they found.
FaultyBump(s) == UNCHANGED version

\* The version of the session goes up before the statement runs.
Bump(s) ==
    /\ version[s] < MaxVersion
    /\ version' = [version EXCEPT ![s] = @ + 1]

\* POST /query with a recognised write, whether it is refused, fails or succeeds.
Write(s, sql) ==
    /\ Bump(s)
    /\ bypassed' = bypassed \ {s}
    /\ \/ UNCHANGED <<phase, content>>
       \/ /\ Wake(s)
          /\ \E c \in Failure(sql, content[s]) :       \* or success
                content' = [content EXCEPT ![s] = c]
    /\ UNCHANGED <<datasets, cache>>

Query(s, t) ==
    /\ s \in Registered
    /\ \/ \E sql \in Cacheable : Hit(s, t, sql) \/ Miss(s, t, sql)
       \/ \E sql \in Recognised : Write(s, sql)

\* The same statement through /pondapi goes round version and cache.
PondApiExecute(s, sql) ==
    /\ s \in Registered
    /\ Wake(s)
    /\ \E c \in Failure(sql, content[s]) :
          content' = [content EXCEPT ![s] = c]
    /\ NoteBypass(s)
    /\ UNCHANGED <<datasets, version, cache>>

\* POST and DELETE /datasets: open connections keep what they were given, a suspended
\* session will be given the new datasets when it wakes.
ChangeDatasets(registered) ==
    /\ datasets' = registered
    /\ content' = [s \in SessionId |->
                     IF phase[s] = "ACTIVE" THEN content[s] ELSE Opened']
    /\ bypassed' = bypassed \cup {s \in Registered : content'[s] # content[s]}
    /\ UNCHANGED <<phase, version, cache>>
-----------------------------------------------------------------------------
\* Versions, cache and registry are in memory; active sessions get an empty
\* connection when load_from_store restores them.
Restart ==
    /\ datasets' = NoDatasets
    /\ content' = [s \in SessionId |-> Opened']
    /\ version' = [s \in SessionId |-> 0]
    /\ cache' = [k \in Key |-> NoEntry]
    /\ bypassed' = {}
    /\ UNCHANGED phase

\* get forgets to compare with expires_at.
FaultyTick ==
    /\ cache' = [k \in Key |-> IF Servable(k) THEN [cache[k] EXCEPT !.age = @ + 1]
                               ELSE NoEntry]
    /\ UNCHANGED <<phase, content, datasets, version, bypassed>>

\* Entries age until they have expired.
Tick ==
    /\ cache' = [k \in Key |-> IF cache[k].age < TTL THEN [cache[k] EXCEPT !.age = @ + 1]
                               ELSE NoEntry]
    /\ UNCHANGED <<phase, content, datasets, version, bypassed>>

Next ==
    \/ \E s \in SessionId :
        \/ Create(s) \/ Suspend(s) \/ Resume(s) \/ Destroy(s)
        \/ \E t \in Tenant : Query(s, t)
        \/ \E sql \in Statement : PondApiExecute(s, sql)
    \/ \E registered \in Registry : ChangeDatasets(registered)
    \/ Restart
    \/ Tick

Spec == Init /\ [][Next]_vars
-----------------------------------------------------------------------------
\* What the session would answer if the statement were executed now.
Executed(s, sql) == Answer(sql, content[s])

\* An answer a session cached itself is served again only while executing the
\* statement would give it, unless the session's tables changed behind the
\* endpoint's back: a recognised write always gets the session away from them.
OwnEntriesFresh ==
    \A s \in Registered \ bypassed, t \in Tenant, sql \in Read :
        LET k == CacheKey(sql, t, version[s]) IN
        Servable(k) /\ cache[k].origin = s => cache[k].answer = Executed(s, sql)

\* However stale, an answer is not served for longer than TTL: as long as it is,
\* it stays the same answer and only gets older, however often it is asked for and
\* whatever else is executed.
NeverRenewed ==
    [][\A k \in Key : Servable(k) /\ Servable(k)' =>
            /\ cache'[k].age >= cache[k].age
            /\ [cache'[k] EXCEPT !.age = 0] = [cache[k] EXCEPT !.age = 0]]_vars
=============================================================================
