# PondDB in TLA+

PondDB serves in-memory DuckDB sessions over HTTP: one uvicorn process, one event
loop, a SQLite file for what has to survive a restart, and a pool of eight threads
that executes the SQL of `/pondapi`. This directory models the parts of it where
several actors or several pieces of state have to agree, checks the models with
TLC and proves what matters most of them with TLAPS.

Paths below are relative to `src/src/ponddb/` unless they start with `src/`.

## How to run

    tlc -workers 2 -config SessionManager.cfg MCSessionManager    # every run: see "Runs"
    tlc -workers 2 -config SubprocessRunner.cfg SubprocessRunner  # no MC module needed
    tlapm SessionManagerProofs.tla                                # every ...Proofs module

`PROJECT.json` lists the runs, the source lines every definition translates, the
hazards the properties aim at, and for every property a wrong variant of one
definition (named `Faulty...` in the modules) under which it fails.

## How the program executes

Almost every handler is `async def` and awaits nothing that really suspends: SQLite
is called synchronously, `_drive` runs the store's coroutines to their end, and the
watchdog's two passes contain no await. Handlers, the watchdog and the memory tasks
are therefore atomic with respect to each other, and one handler is one action of a
model. Three things are not on the loop: the pool threads of `/pondapi`
(`pondapi/executor.py`), the threads in which FastAPI runs `BackgroundTasks` (the
memory access log), and the child processes of `engine/subprocess_runner.py`. Where
those share state with the loop, the step of the model is one statement.

## Inventory

**Session engine** (`engine/session_manager.py`). State: `_sessions`, a dict of
`_Session` objects (status, connection, last_active, suspended_at, workgroup).
Operations: create (with an optional quota), destroy, suspend, resume, execute,
the watchdog and the reaper, load_from_store at start. Called by app.py, the HTMX
routes and the PondAPI threads; calls the metadata store on every change of status.
Hard: restarts, writes that fail after the memory has changed, the sweep, threads.
Correct when a connection is open exactly for active sessions, a restart is
invisible, idle sessions are suspended, suspended ones are reaped, destroyed ones
stay destroyed.

**Metadata store** (`store/metadata_store.py`). State: SQLite tables of sessions,
query history, users, invites, saved queries. Upserts, deletes, reads, one shared
connection. Hard: transactions left open on an error, several connections on one
file. Correct when a session's row is what a restart should see.

**Workgroups, namespaces, quota** (`app.py` `_workgroups`, `_namespaces`,
`_session_workgroups`; `api/namespace_routes.py`, `api/admin_routes.py`,
`api/website_routes.py`, `api/htmx_partials.py`). State: three dicts, in memory only.
POST /session charges a counter, DELETE /session discharges it, reconciliation
recomputes it, pages overwrite it. Hard: five files write one counter, and
sessions end in ways that do not touch it. Correct when a workgroup never gets more
sessions than its quota and a deleted session gives its slot back.

**PondAPI** (`pondapi/executor.py`, `pondapi/htmx.py`). State: a thread pool, a
queue, the table `pondapi_executions` in a `:memory:` database. Submit, execute in
a thread, poll. Hard: threads on shared sessions without a lock. Correct when every
submission is answered once, with the result of its own SQL.

**Query endpoint and cache** (`app.py` POST /query, `pondapi/result_cache.py`,
`security/sql_sandbox.py`). State: a cache keyed by SQL, tenant and a version number
kept per session; entries expire. Hard: writes that do not change the version,
restarts of the counting, two sessions with equal versions. Correct when a cached
answer is the one executing would give.

**Subprocess runner** (`engine/subprocess_runner.py`). A child process, a queue over
a pipe, a join with a timeout. Hard: the parent joins before it reads; three limits
that end the child in different ways. Correct when every query is answered and what
is reported is what happened.

**Shared memory** (`memory/*`). State: memories with causal links, grants, access log.
Create (an upsert by key), update, soft delete, utility feedback, search, grants,
cleanup, decay. Hard: two definitions of who may read what, expiry against a
periodic cleanup, a rate limit over rows written after the response. Correct when
search and single access agree, private content stays private, causal links have
no cycle, and what is deleted stays as it is.

**Tokens** (`auth/jwt_auth.py`, `auth/token_blocklist.py`, /auth routes). State: the
secrets (environment or a file that is read each time), the blocklist in memory.
Issue, refresh, revoke, rotate. Hard: two functions look for secrets in two ways,
revocation in a third. Correct when a revoked token is refused.

**Guards and limiters** (`auth/brute_force.py`, the windows of PondAPI, shared links and
memory writes). Counts and lockouts in memory or in the access log. Hard:
boundaries, and counting what is recorded late. `security/rate_limit.py` is not
installed by `app.py`.

**Invites, users, OAuth** (`store/invite_store.py`, `api/invite_routes.py`,
`api/admin_routes.py`, `store/user_store.py`, `auth/oauth_state.py`). Hard: three
connections to one file, transactions nobody rolls back, a callback that calls the
provider between its check and its write. Correct when an invite yields one token at
most, and rows that are settled stay.

**Saved queries and shared links** (`store/query_store.py`, `api/share_routes.py`).
Correct when a slug stays its first owner's and a failed insert blocks nobody.

**Datasets** (`store/dataset_manager.py`). A registry in memory, files on disk, tables
copied into each session when its connection is made. Hard: files outlive their
registration, several file names claim one dataset. Correct when a session sees what
was uploaded.

**Clients** (`client.py`, `src/src/sdk/duckcloud/client.py`, which is the same client).
Token caching, retries. Correct when a token in use is fresh enough, every query
ends, and a statement is delivered a bounded number of times.

Compute tracking, security headers, CORS, the audit log (which never gets a pool),
the command line, the MCP server, templates, examples and benchmarks keep no state
a property could be about.

## Modules

| module | models | state and how it corresponds |
|---|---|---|
| `SessionLifecycle` | what the engine promises: COLD, ACTIVE, SUSPENDED, DESTROYED (ARCHITECTURE.md:76) | `phase` |
| `SessionManager` | `engine/session_manager.py` and the sessions table | `status conn idle suspAge workgroup` are the fields of `_Session`; `rowState rowIdle` the row; `dirty` a history variable: whose last write was lost |
| `SessionManagerProofs` | theorems about `SessionManager` | |
| `WorkgroupQuota` | the quota across five files; uses `SessionLifecycle` for the engine | `phase sessionWg` the engine, the others the three dicts; `viewed uncounted` history: workgroups a page has overwritten, live sessions a reconciliation did not count |
| `PondApi` | the pool and the event loop on the same sessions, statement by statement | `session` the `_Session` objects, `row` SQLite, `duckdb` the connections, `thread` each thread's program counter and locals, `queue`, `execution` the table; `raced unsaved unwritten` history: sessions two threads changed at once, sessions whose row and executions whose outcome could not be written |
| `PondApiProofs` | theorems about `PondApi` | |
| `QueryCache` | POST /query and `pondapi/result_cache.py`, with every path that changes what a cached answer should say; uses `SessionLifecycle` for the engine | `version` is `_dataset_versions`, `cache` is `ResultCache._store`; `phase content` the engine; `bypassed` and an entry's `origin` are history |
| `QueryCacheProofs` | theorems about `QueryCache` | |
| `AgentMemory` | the routes, both ways of reading and both tasks of `memory/` | `memories utility grants` the tables; a memory's `wanted` and `adopted` are history: the scope its content was written for, and whether into a row that was there |
| `AgentMemoryProofs` | theorems about `AgentMemory` | |
| `SqliteFile` | external: one SQLite file and its connections | `mode` of each connection: is a transaction open, what has it seen, does it hold the lock |
| `Directory` | OAuth sign-in, users, API keys, invites, saved queries over `SqliteFile` | `queries users keys invites` the tables; `states callbacks` sign-ins under way; `issued duplicate unbound` history |
| `DirectoryProofs` | theorems about `Directory` | |
| `Tokens` | `auth/jwt_auth.py`, the blocklist, the /auth routes | `setup` the environment and the secret file, `tokens` all ever issued, `blocklist` |
| `Client` | `PondClient` of `client.py` against `Tokens` | `access refresh acquired` its fields, `call` the query under way; `call.since` and `call.delivered` are history |
| `ClientProofs` | theorems about `Client` with `Tokens` | |
| `SubprocessRunner` | `engine/subprocess_runner.py` | `parent child` where each is, `pipe` what the queue's pipe holds, `call` the arguments |
| `Limits` | the four sliding windows | `admitted` what each window let in and when that was recorded; `unseen` is history |
| `Lockout` | `auth/brute_force.py` as its tests use it | `guard` is `_IpState`, `trying` logins under way; `failures` is history |
| `QuotasAndLimitsProofs` | theorems about `WorkgroupQuota`, `Limits` and `Lockout`; the last two say `LimitsSpec`, `LockoutSpec` and so on to be read together with the first | |
| `Datasets` | `store/dataset_manager.py` with the connections of sessions | `registry` is `_datasets`, `files` the data root, `tables` each session's copies; `changed` is history |
| `DatasetsAndRunnerProofs` | theorems about `Datasets` and `SubprocessRunner`, whose `TypeOK`, `Init`, `Next`, `Spec` and `vars` are called `Runner...` for that | |

The `MC` modules only add symmetry sets and values of constants for TLC; `MCLimits` runs `Limits` and
`Lockout`, which have nothing in common, one while the other rests.

`SessionManager`. One action per method: `CreateSession`, `CreateByResuming` (the
quota branch of `create_session`), `DestroySession`, `SuspendSession`,
`ResumeSession`, `ExecuteActive`, `ExecuteSuspended`, `WatchdogTurn` (one turn of
`start_watchdog`, both passes), `LoadFromStore` (a stop at any moment and the next
start). `SaveSession` and `DeleteSession` are the store's; with `StoreMayFail` each
of them may raise instead, after the memory has changed, and in the sweep that
ends the turn. Instants are kept as ages that stop one past the timeout
they are compared with, so nothing the code can tell apart is lost. Uuids are used
once: a destroyed session comes back only through `LoadFromStore`.

`WorkgroupQuota`. `CreateCharged` is POST /session with a workgroup; when
`create_session` raises, the charge stays (`CreateFailsEarly`, `CreateFailsLate`), and after the
late failure, that of the save, so does the session, which is live and has no entry.
`Delete` is DELETE /session, `DeleteFromDashboard` the route that does not know the
counter, `View` the pages that overwrite it with a count by *name*, `Reconcile` the
administrator's route, `Restart` empties the dicts. Bounds: `MaxQuota`, and
`MaxCounter` where the counter stops growing (only failing creations push it there).

`PondApi`. A thread is at a statement that reads or writes shared state; `Suspend`
to `Destroy` are the statements of `suspend_session`, `resume_session` and
`destroy_session`, `Lookup` to `Fetch` those of `execute_query`, `Persist` the row
`_run_query_sync` writes. The store may refuse any row: `SaveRow` then raises, with the object
already changed. So may the `:memory:` database, on whose one connection all threads execute
and commit: `WriteFails` is the exception `_run_query_sync` swallows, for this reason or because
`json.dumps` raised, and the execution stays pending. A DuckDB connection is an external component: `execute`
returns the connection and leaves the result on it, so `description` and `fetchall`
read the last result left there, by whichever thread. `last_active` is left out: it
only decides when the watchdog lists a session, and `Request` may suspend or
destroy a session of `Managed` at any moment. Each statement is submitted once; the
executions table and the answers of POST /query are kept in one variable.

`QueryCache`. `Query` is POST /query: a `Hit`, a `Miss` that executes and remembers, or
a `Write`, which raises the version before it executes. Statements are of three
kinds: reads, writes that `_WRITE_RE` recognises, and writes it does not (a CTE in
front, a second statement). What a connection holds is the datasets it was given and the
number of rows written since it was opened, none after a suspend or a restart; a read
answers both. For a session without a connection `content` is what it will be given, so
that `ChangeDatasets` (an upload or a deletion) changes it at once, while open connections
keep the copies they have.
An entry carries its age instead of `expires_at`, and an expired one is the same
as none, because `get` deletes it on sight. `PondApiExecute` is the same statement by
the other route. The engine's steps are whole handlers here; the threads are
PondApi's subject, how datasets become tables that of Datasets.

`AgentMemory`. An action per route that writes and one per task; `Readable` (GET) and
`Found` (search) are operators of the state, as these routes change nothing the
properties see. A claim has the workgroup, subject, agent and role that `_wg`, `_agent` and the
admin checks look at. `CreateMemory` is an `Upsert` when the key is taken and an
`Insert` otherwise. A blank key is not looked up but is in the unique index, so a workgroup's second
`Insert` with one is refused (`IndexAdmits`). The parent of a memory is checked by the walk of
`check_causal_cycle` (`Ancestors`). A create may be refused by the write limit at any moment, so its
action is optional. Utilities are in hundredths.

`SqliteFile` and `Directory`. The three stores open the same file (`POND_SQLITE_PATH`) and
Python's sqlite3 begins a transaction before a write which only `commit()` ends. A write
ends in one of four ways: `WriteCommitted`; `WriteRefused`, when a constraint
fails and the transaction stays open with the lock; `WriteBusy`, when another
connection has the lock or this one's snapshot is stale; `WriteUnbound`, when a value cannot be
bound (a string with half of a surrogate pair, in the content of a memory or in what a provider
reports) and the transaction stays open without the lock. `WriteMemory` is `create_memory` and
`update_memory` with all four outcomes; the blank keys of AgentMemory are what a constraint refuses
there. `Directory` has an operator for each
store method that writes and an action for the route that calls it; all other users of the
connections are `OtherWrite` and `OtherRead`. `OauthCallback` and `ProvisionUser`
are the parts of one handler before and after the calls of the provider.

`Tokens` and `Client`. `Tokens` has what the server does to tokens, as operators that
`Client` composes with the requests of one `PondClient`: a request is sent, served
(`ServeLogin`, `ServeRefresh`, `ServePost`) and its reply taken (`TakeTokens`,
`TakeReply`), with any time passing in between: the `timeout` httpx is given ends a wait (to
connect, for the next bytes) and not the request. `Retry` is the
loop of `_post_with_retry`, `again` the second round after a 401. Others may revoke
the client's tokens, write the secret file, or restart the server.

`SubprocessRunner`. `Put` is what the child's `queue.put` starts; the queue's feeder
thread is `Flush`; a child exits only when its feeder is done. `Join`, `Kill`, `Read` and
`Raise` are the parent's. The child may be killed at any moment and abort while it executes
(`WorkerVanishes`), with limits or without. The pipe's capacity is counted in writes, as an item larger than
16 KiB is written in two (its length first).

`Limits`. A window keeps, of what it admitted, the time and when its row was recorded:
at once in memory, later by `Log` or never in the access log. What no window covers any
more is forgotten at the next admission, so that a few slots are enough.

`Lockout`. `Attempt` is the middleware's check before a login, `RecordFailure` and
`RecordSuccess` what follows when the login has been answered, `GetFailureCount` the reading
that ends an expired lock, `NewGuard` a new process. A `lockout_ttl_seconds` is given; without one
a lock never ends.

`Datasets`. `Upload` and `Delete` are the routes, `Registered` is `register_in_session`
and `Connect` the making of a connection that calls it; `UploadFails` is a
write that breaks off and leaves some other content: broken, or a CSV file with fewer rows.

## Runs

| run | module, config | checks | shows |
|---|---|---|---|
| sessions | MCSessionManager, SessionManager.cfg | TypeOK, RefinesLifecycle, IdleSessionsCool, StampedSessionsLeave | with a store that keeps its writes the engine implements the life cycle, restarts included; idle sessions are suspended, suspended ones are reaped or used again |
| sessions_lossy_store | MCSessionManager, SessionManagerFaults.cfg | ConnMatchesStatus, DurableAgreement, RowNotAhead, OnlyLostDeletesResurrect | when any write may be lost, connections match statuses, and only a session whose own last write was lost can come back different |
| quota | MCWorkgroupQuota, WorkgroupQuota.cfg | TypeOK, EntriesMatchSessions, CounterCoversEntries, NoOverAdmission | between two overwrites by a page, POST /session takes the live sessions of a workgroup no further than the quota, through failures, deletions, reconciliations and restarts, but for live sessions without an entry that a reconciliation stopped counting |
| pondapi | MCPondApi, PondApi.cfg | TypeOK, SessionIsolation, TornOnlyByRaces, SettledIsFinal, ResultsArrive | no rows cross between sessions, sessions come apart only when two threads change one at once, whatever rows the store refuses, an answer is never replaced, and every submission is answered unless writing the answer failed |
| query_cache | MCQueryCache, QueryCache.cfg | TypeOK, OwnEntriesFresh, NeverRenewed | a session whose tables are changed only by recognised writes never gets an outdated answer of its own, and no answer outlives its TTL however often it is asked for |
| memory | MCAgentMemory, AgentMemory.cfg | TypeOK, KeysUnique, ReadableIsFound, PrivateContent, CausesAcyclic, DeletedIsFinal, CleanupTakesTheHidden | keys stay unique, what GET shows a search finds, private content stays with its agent unless its key was taken, causes form no circle, deleted rows stay as they are |
| directory | MCDirectory, Directory.cfg | OnlyRefusalsLock, InviteOnce, SettledRows | only a refused row leaves the file locked, only that or a value that cannot be bound leaves a transaction open; an invite yields one token at most; slugs, users and revocations stay |
| client | MCClient, Client.cfg | StaleOnlyWhenSlow, DeliveriesBounded, QueriesEnd, ShutOutStays | a statement is under way with an expired token only when delays have used up the threshold, each is delivered at most twice per retry and once more, every query ends, revoking both tokens shuts the client out until a restart |
| subprocess | SubprocessRunner, SubprocessRunner.cfg | NothingLost, CallsEnd | what the parent reports is what the child did; a call ends if its result fits into the pipe or it has a limit, unless the child died in the middle of a result |
| limits | MCLimits, Limits.cfg | WindowsHold, GuessesBounded | a window is exceeded only by what came before earlier rows were written; the lockout by the logins under way, at its beginning and at its end |
| datasets | MCDatasets, Datasets.cfg | TablesShowUploads | leftover files never show in a session |
| pondapi_own_result | MCPondApi, PondApiOwnResult.cfg | OwnResult (violated) | two statements of one session at once: one gets the other's columns or loses its rows |

**Bounds.** Sessions interact only through the shared sweep, the shared counter of a
workgroup and the identity of connections, so two or three suffice: in the sweep one
can be cooled, one reaped and one untouched, or one lost, one done before it and one
not reached. Timeouts of 1 and 2 ticks give every order of "below, at, above" for the
two ages. `MaxQuota = 1` with two sessions has the over-admission in reach, and the
counter may pass the quota by two through failed creations; two workgroups make
entries that point to the wrong one possible, one of them called "default" makes the
count by name match something. In PondApi two pool threads and the loop give three
writers on one session; there are six connections, so that with each session and each thread
holding one there is one to be new (`EnoughConnections`, five in the violated run, which
has one session less). The second session of `PondApi.cfg` is never suspended or
destroyed (`Managed`); its connection is there to be confused with the first's. `Asked` says
which requests the loop serves: there suspends and destroys, which keeps the run short (sessions
are resumed by the statements that find them suspended), all three in the violated run.
In QueryCache two sessions share every key,
with one statement of each kind; one tenant is enough, as keys of different tenants
have nothing in common. `TTL = 1` has an entry fresh, about to expire and gone; `MaxRows = 1`
tells a session as it was opened from one with rows, two states of the registry are enough
for a connection to have been given another than the current one, and `MaxVersion = 1` lets
a session leave a version and the other one reach it. No run limits the number of restarts.

In AgentMemory, three callers (two agents of one workgroup and one of another), two memories
and two grants give an owner, a stranger in the workgroup, a grantee, a key that two agents
want, two grants that say different things, and a circle of causes if there could be one; the
second instant is the one at which memories and grants expire. One of the four request bodies has
a blank key. In Directory two tenants
want one slug and two identities of one provider share one email, as those do who hide it: every constraint can be violated, and with
three connections one holds the lock, one waits and one has a stale snapshot. A
state token may be used in the second it was made and no longer (`MaxStateAge = 0`),
so one can be used twice and one can expire. In Client there is one retry, and a token lasts 4,
twice as long as the threshold: the delays can stay below it, reach it, and outlast it and
the token; with a slack larger by 1 StaleOnlyWhenSlow is violated. `MaxTokens = 4`
admits a login and two refreshes. SubprocessRunner runs every combination of
limits with a result of one write, of two, and of more than the pipe holds (3 writes,
`Capacity = 2`). In Limits a window admits two, so that the third is the one
too many, and there is a third slot for it. In Lockout three logins may be under way, and
the clock is long enough for three locks one after the other; one failure less than
the bound of GuessesBounded is violated. In Datasets three of the four
files claim one name (two with the same path), the fourth a name that is no
identifier, and one content cannot be read.

**Fairness.** SessionManager: weak fairness of `Tick` (the clock goes on) and of
`WatchdogTurn` (`start_watchdog` loops for ever and logs exceptions instead of
ending). Requests, crashes and lost writes get none. The liveness properties are checked
with a store that keeps its writes and in the presence of any number of restarts.
PondApi: weak fairness of each thread's next statement (the operating system
schedules every thread; DuckDB statements end); clients get none.
Client: weak fairness of `Progress`: a request is served, or comes to wait for longer than the
client's timeout, which ends it, a reply is taken, a sleep ends. (A server that sends a byte now and
then for ever is excluded by this: httpx would read on.) Revocations, restarts and new queries get none.
SubprocessRunner: weak fairness of the parent's steps and the child's feeder, and of
the child's put only for a statement that ends by itself; one that does not is ended by
a limit or never. The other modules have safety properties only and no fairness.
Deadlock is checked in every run but `subprocess`: there one call is followed, which is
done in the end, or waits for ever if its result does not fit or its child left a part of one. In the others a request, a
restart or a step of a finished thread is always possible.

**Disagreement found.** The violated run checks that an execution's result is that of its
own statement; `PROJECT.json` "findings" quotes the line and names the code that does
otherwise. What else was met is listed under "Departures from the docs".

## Proofs

`SessionManagerProofs` proves, for every set of sessions and workgroups, all
timeouts, and a store that may or may not lose writes:

| theorem | statement |
|---|---|
| TypeCorrect | `Spec => []TypeOK` |
| ConnectionsMatch | `Spec => []ConnMatchesStatus` |
| Durable | `Spec => []DurableAgreement` |
| RowsNotAhead | `Spec => []RowNotAhead` |
| ResurrectionNeedsLostDelete | `Spec => OnlyLostDeletesResurrect` |
| ImplementsLifecycle | with `StoreMayFail = FALSE`, every behaviour is one of `SessionLifecycle` |

They rest on `ConstantsAssumption` only (timeouts are naturals, the default workgroup
is a workgroup). The inductive invariant is the conjunction TypeOK, ConnMatchesStatus,
DurableAgreement, RowNotAhead. The parts need each other: a restart copies
rows into memory, so memory has its type because rows have theirs; ages saturate at
one past the timeout, so that a row's age stays at least the session's
needs both to have the same ceiling; a resurrection is excluded because a
destroyed session with no lost write has no row, which is DurableAgreement before the
step. The refinement adds `dirty = {}`, invariant when the store keeps its writes: then
DurableAgreement holds of every session and a restart maps to a stuttering step,
a sweep to one `Sweep`.

`QueryCacheProofs` proves, for every set of sessions, tenants and statements and every TTL:

| theorem | statement |
|---|---|
| TypeCorrect | `Spec => []TypeOK` |
| OwnAnswersStayFresh | `Spec => []OwnEntriesFresh` |
| AnswersAreNotRenewed | `Spec => NeverRenewed` |

They rest on `QueryCacheAssumption` (the bounds are naturals, the three kinds of
statements are disjoint). OwnEntriesFresh alone is not inductive: a write moves a session
to a new version, which is safe only if none of its answers is already filed under it.
`SessionInv` adds that (a session has reached the version of each of its answers), that a
session without a connection is expected to find what a new one is given (so that resuming
changes nothing), and that a session never opened has no answers. It is stated session by session, because the steps of one
session leave the others' answers alone (`Undisturbed`), except that they may
overwrite them with their own.

`QuotasAndLimitsProofs` proves about the quota, for every finite set of sessions (of which the program can
only have counted finitely many), every set of workgroups and all quotas:

| theorem | statement |
|---|---|
| TypeCorrect | `Spec => []TypeOK` (no counter goes below zero) |
| EntriesMatch | `Spec => []EntriesMatchSessions` |
| CounterCovers | `Spec => []CounterCoversEntries` |
| QuotaHolds | `Spec => NoOverAdmission` |

A counter is compared with what it owes (`Owed`): the entries, since only these are ever
discharged, and the live sessions, with an entry or without, except those `uncounted` by a
reconciliation, which counts entries only. `Untouched` carries the induction: what was never opened has no entry, so a
creation adds exactly one; what was never created is charged nothing, so a new workgroup may
count from zero. QuotaHolds then shows that every other step leaves the live sessions of a
workgroup as they are or takes some away, and that the one which adds to them has found
the counter below the quota: what a reconciliation leaves out stays left out, as it forgets no entry. `MaxCounter` only stops creations in the model; nothing in the
proofs depends on its value.

The same module proves two bounds, for all limits, thresholds, lengths of time and numbers of
concurrent logins:

| theorem | statement |
|---|---|
| LimitsHold | `LimitsSpec => []WindowsHold` |
| LockoutHolds | `LockoutSpec => []GuessesBounded` |

A window counts rows, WindowsHold admissions. What was admitted recently either has no row, and then
`unseen` counts it, or has a recent one, because a row is written after what it records
(`RowsFollow`). GuessesBounded is about failures, of which the guard counts only those since the last
lock; it is carried by `LockoutInv`. While nothing is locked, failures that are not
counted are late ones of the lock before, of which there are fewer than `MaxTrying`. While a lock lasts,
nobody is let through, so that its count and the logins under way together stay below
threshold plus `MaxTrying`, and what fails after it began is what the count has beyond the
threshold. These late failures are all that is recent when the lock has expired.

`AgentMemoryProofs` proves, for any callers, memories, grants and request bodies:

| theorem | statement |
|---|---|
| TypeCorrect | `Spec => []TypeOK` |
| KeysStayUnique | `Spec => []KeysUnique` |
| PrivateStaysPrivate | `Spec => []PrivateContent` |
| SearchCoversAccess | `Spec => []ReadableIsFound` |
| DeletedStays | `Spec => DeletedIsFinal` |
| CleanupIsLate | `Spec => CleanupTakesTheHidden` |
| CausesStayAcyclic | `Spec => []CausesAcyclic` |

What a step does to the rows is said once (`RowSteps`): a row appears whose key is free, a
live row changes without losing what identifies it, or live rows go. That the key of a new row is
free (`InsertedKeyFree`) the look-up ensures, and for blank keys, which are not looked up, the index;
for the others the index never has anything to refuse. PrivateContent speaks of
the scope a content was written for while access is decided by the scope of the
row; `WantedScope` says that they are the same in a row that was not taken over.
ReadableIsFound needs no induction beyond types: it compares two definitions of access.

CausesAcyclic speaks of the walk `check_causal_cycle` takes, and a walk that meets itself may be of any
length. The invariant is that of the inserts: there is an order of all rows in which each comes
after its parent (`Ordered`), since only an insert sets a parent and it names no row that is still
to come: no foreign key requires the parent to be there, but ids are drawn at random, and an
id that is nobody's stays so (the model has None for it, as it ends every walk). Up a walk the rows then come ever earlier. That a recursively defined walk exists
and that its steps add up is an induction over its length, which is done by looking at the shortest
one that is wrong (`Least`, from the library's theorem about well-founded relations), because
the induction theorems themselves take an operator. This needs `FiniteMemories`, as the
model's walk is as long as there are memory ids; `create_memory` stops at 50 steps.

`DirectoryProofs` proves, for any tenants, identities, keys, invites and connections:

| theorem | statement |
|---|---|
| TypeCorrect | types of the tables, sign-ins and connections |
| LocksNeedRefusals | `Spec => []OnlyRefusalsLock` |
| InvitesYieldOnce | `Spec => []InviteOnce` |
| RowsStaySettled | `Spec => SettledRows` |

InviteOnce is not inductive: an invite that has yielded its token must also have left
"pending" (`Spent`), which holds because the token is signed only after the row was
marked. OnlyRefusalsLock follows from the four outcomes a write has: it is inductive, as every
write that goes through ends its connection's transaction and clears it of `unbound`.

`DatasetsAndRunnerProofs` proves TypeCorrect and SessionsShowUploads (`Spec => []TablesShowUploads`) for any
files, contents and sessions and any way in which names normalise. A session's tables are
made from files, the property is about uploads; `FilesHold` closes the gap: the file of a
registered name has the content it was registered with. It survives other
uploads because a path begins with the name it belongs to.

The same module proves RunnerTypeCorrect and ResultsAreReported (`RunnerSpec => []NothingLost`) for
every capacity of the pipe and every size of results: the parent looks into the queue only
when no child is left to write (`Quiet`), so what it raised over an empty pipe stays true.

`PondApiProofs` proves, for every set of sessions, statements and workers of which the workers
are finitely many:

| theorem | statement |
|---|---|
| TypeCorrect | `Spec => []TypeOK` |
| Isolation | `Spec => []SessionIsolation` |
| OnlyRacesTear | `Spec => []TornOnlyByRaces` |
| AnswersAreFinal | `Spec => SettledIsFinal` |

Three invariants build on each other. `Base` says where things are: each thread's locals fit the
statement it is at (`Whereabouts`), what it refers to is there while it executes (`Held`), a
statement is in the queue once or with one thread and has no outcome while it is (`Queued`), and
one that was never submitted has left no trace (`Traceless`). AnswersAreFinal follows, because
only the thread that has a pending statement writes its outcome. `Separate` is what isolation
needs: whatever refers to a connection (a session's field, the variable of a thread that
executes for that session, the result left on the connection itself) refers to it for one
session only (`Uses`). It is here that a thread may go on with a connection its session
has let go of: `NewConnection` takes one that nothing refers to. `Staged` says, for each place
in `suspend_session`, `resume_session` and `destroy_session`, in what state the session is
while a single thread is there (`Stage`), its row excepted after the store has refused one
(`unsaved`); a session that two threads were at together is in
`raced` from the moment the second one joins, which is decided by the number of threads changing it,
and hence the finite set of workers. Besides `PondApiAssumption` these rest on
`EnoughConnections`: there is always a connection nobody refers to, as DuckDB can make
another.

`ClientProofs` proves, for any secrets, configurations and addresses, any number of retries,
any threshold and lifetimes:

| theorem | statement |
|---|---|
| TypeCorrect | `Spec => []TypeOK` |
| TokensLastTheSlack | `Spec => []StaleOnlyWhenSlow` |
| DeliveriesAreFew | `Spec => []DeliveriesBounded` |
| RevocationShutsOut | `Spec => ShutOutStays` |

StaleOnlyWhenSlow is kept by a budget. The client counts a token's age from the reply that brought
it, so it may be older by the time that reply took, and looks at it once: when the attempts of a
round begin, at least `Slack` of the lifetime is left by its count (`Budget`). What takes longer than
that, the reply with the token and the attempts and sleeps since the look, is `Delay`. No
assumption limits the time of a request, as nothing in the code does. `Counted`
does the same for deliveries: none by an attempt that ended in a 401, one at most by each
other. ShutOutStays needs `Sound`: a login is under way only for a client without a token, and only
a successful reply brings one.

Each rests on the named assumptions of its module only (that the bounds are natural numbers and
None is not a row, a workgroup and so on). The wrong variants named Faulty... play no part
in any proof.

Only model-checked: every liveness property (fairness is out of the prover's reach here).

## Departures from the docs

What the code does that its docs, comments or examples say otherwise, or that a reader would
hardly expect. The models do what the code does.

- A session restored as suspended has no `suspended_at` (the table has no such column), so
  the reaper never ends it, while the docstring says "suspended longer than
  max_suspend_age" (session_manager.py:294, 361, 371). `StampedSessionsLeave` excepts it.
- GET /dashboard and the workgroup pages overwrite the counter the quota is checked against
  with a count by workgroup *name*, while sessions carry ids (website_routes.py:138).
  `NoOverAdmission` is about workgroups no page has touched since.
- Reconciliation counts entries of sessions that ended without DELETE /session
  (namespace_routes.py:111).
- A cache hit may differ from what executing would return: the key lacks the session, and
  PondAPI, CTEs and second statements change data without changing the version, and so do
  datasets uploaded or deleted while a session is suspended.
- Two statements of one session at once mix their results (the violated run). GET /schema
  (app.py:608) uses the session's connection from the event loop in the same way; the model has
  POST /query for it.
- A memory's private scope lasts until its key is used again: an upsert keeps the row's scope,
  owner and expiry and replaces content, so an agent may publish another's key or have
  its own content shown under another's scope. `examples/google-adk/README.md:181` promises
  that private memories are for their agent. The write limit counts the agent named in
  the body, not the caller.
- `can_access_memory` looks at one grant per workgroup, search at all of them, so that a search
  may show what GET refuses (access.py:114).
- The child of the subprocess runner cannot exit before the parent reads a large result, and the
  parent reads only after the child has exited: without a limit the call never ends. With a
  limit the child is killed in the middle of the write, and `get_nowait` then waits for the rest,
  where the docstring announces SubprocessCpuError. Since the limits set soft and hard
  RLIMIT_CPU to the same value, Linux sends SIGKILL, which is reported as SubprocessMemoryError
  when a memory limit was given.
- Refresh tokens are verified with the signing secret only, access tokens with all, and
  revocation knows only POND_JWT_SECRET. `validate_startup_secret` is never called.
- docs/security.md:75 says that `POND_REDIS_URL` makes revocation persistent. `token_blocklist.py` has
  a set in memory and nothing else; a restart forgets every revocation (`ShutOutStays` excepts it).
- The `timeout` of PondClient (client.py:82) is httpx's, for each wait of a request; the refresh
  threshold (client.py:98) therefore bounds no attempt, and a retry may carry an expired token. The
  401 it gets is followed by one refresh.
- An outcome that cannot be written to `pondapi_executions` is dropped (executor.py:181-192): the
  execution stays pending and its client polls for ever. That is so for rows `json.dumps` rejects and for
  any error of the connection all threads share.
- PondClient never logs in again once its refresh token is refused, and the session id it makes
  up is not one the server has opened (404).
- A duplicate slug or email keeps the file's write lock until the next commit of the same
  connection, and a connection that reads in an open transaction keeps its snapshot, and
  fails to write, until a restart. So does a second memory with a blank key in a workgroup: `MemoryCreate`
  admits the key "" (memory/models.py:24), `create_memory` looks up `if memory_key:` only (memory/store.py:158)
  and the unique index has every key but NULL (memory/store.py:81-83), so the INSERT is refused, the answer is
  500 and the lock stays. A value that SQLite cannot store leaves a transaction open without the lock. With the default POND_SQLITE_PATH (`:memory:`) every store has a
  database of its own and none of this happens; the model is of a file.
- A POST /session that fails after the session was made leaves it live without an entry in
  `_session_workgroups` (app.py:433-436, session_manager.py:165-175). The next reconciliation does not count
  it, and from then on the workgroup may have more sessions than its quota, one for each such failure
  (`NoOverAdmission` names the exception).
- POST /pondapi/execute is limited, the HTMX route to the same pool is not (htmx.py:97).

## Not modelled

Failures of the disk under SQLite, other than as a write that is lost or raises (SessionManager, PondApi).
Names, descriptions, listing formats, HTML, logging, access checks that
change nothing. In the quota module the session's connection and row (they are
SessionManager's), and the renaming of a workgroup. In PondApi the tenant check of the
polling routes and a restart, which empties the `:memory:` table. Of the memory the
text match, order and limit of a search and the access counts. Organisation and workgroup members
of the user store, `security/rate_limit.py` and `validate_startup_secret`, which have no caller.
The session cookie of the website, which is signed and not stored. MetadataStore's mounts and
query history, which are written and listed only. The synchronous `PondDB` client, which forwards calls.
The components marked not_modelled in `PROJECT.json`: compute tracking, header and CORS
middlewares, the audit log, the command line, the MCP server, examples and benchmarks.

## Plan

What is left:

1. A restart in PondApi.
