---------------------------- MODULE AgentMemory ----------------------------
(***************************************************************************)
(* Shared agent memory: the rows of agent_memories and memory_grants, the  *)
(* eight routes of memory/routes.py over them, and the two background      *)
(* tasks, cleanup and utility decay.                                       *)
(*                                                                         *)
(* Handlers and tasks run on one event loop and await nothing between      *)
(* their reads and writes, so each is one action.  What a caller may read  *)
(* (GET, search) is an operator of the state.  The access log, which only  *)
(* feeds the write and feedback limits, is in module Limits; here a create *)
(* or a feedback may always be refused.  Of a content the model keeps the  *)
(* scope its writer asked for; the order and the limit of a search, the    *)
(* filters that only narrow it, and access counts are left out.            *)
(***************************************************************************)
EXTENDS Integers, FiniteSets

CONSTANTS
    MemoryId,       \* memory uuids
    GrantId,        \* grant uuids
    Claims,         \* claims of a caller: [tenant, workgroup, sub, agent, admin]
    MemoryBodies,   \* POST /memories: [agent, type, scope, key, importance, expires]
    GrantBodies,    \* POST /memory-grants: [grantor, workgroup, agent, type,
                    \*                       importance, permission, until]
    None,           \* an absent key, filter, claim, grantee, parent or row
    Blank,          \* the key ""
    MaxTime,        \* bound: the clock stops here
    MaxRatings      \* bound: how often utilities change

Never == 0          \* expires_at, valid_until IS NULL; times are positive
Scope == {"private", "workgroup", "namespace"}

\* _wg and _agent: the caller as the routes see it.  Tokens the program issues
\* have only a subject, the tenant; API keys and cookies not even that.
WgOf(c) == IF c.workgroup # None THEN c.workgroup ELSE c.tenant
AgentOf(c) == IF c.agent # None THEN c.agent
              ELSE IF c.sub # None THEN c.sub ELSE "unknown"

Importance == {b.importance : b \in MemoryBodies}

\* A row of agent_memories; wanted and adopted are history: the scope the content
\* was written for, and whether into a row that was there.
Memory ==
    [agent : {b.agent : b \in MemoryBodies}, workgroup : {WgOf(c) : c \in Claims},
     type : {b.type : b \in MemoryBodies}, scope : Scope, key : {b.key : b \in MemoryBodies},
     importance : Importance, parent : MemoryId \cup {None}, expires : 0 .. MaxTime,
     deleted : BOOLEAN, wanted : Scope, adopted : BOOLEAN]

ASSUME MemoryAssumption ==
    /\ MaxTime \in Nat \ {0} /\ MaxRatings \in Nat
    /\ None \notin MemoryId /\ None \notin Memory
    /\ \A c \in Claims : DOMAIN c = {"tenant", "workgroup", "sub", "agent", "admin"}
    /\ \A b \in MemoryBodies : b.scope \in Scope /\ b.expires \in 0 .. MaxTime

ASSUME BlankAssumption == Blank # None

\* Ids are drawn as needed; of finitely many all can be walked over.
ASSUME FiniteMemories == IsFiniteSet(MemoryId)

VARIABLES
    memories,   \* agent_memories
    utility,    \* its utility column, in hundredths
    grants,     \* memory_grants
    now,
    ratings

vars == <<memories, utility, grants, now, ratings>>

Rows == {m \in MemoryId : memories[m] # None}
Live == {m \in Rows : ~memories[m].deleted}

TypeOK ==
    /\ memories \in [MemoryId -> Memory \cup {None}]
    /\ utility \in [MemoryId -> 10 .. 90]
    /\ grants \in [GrantId -> GrantBodies \cup {None}]
    /\ now \in 1 .. MaxTime
    /\ ratings \in 0 .. MaxRatings

Init ==
    /\ memories = [m \in MemoryId |-> None]
    /\ utility = [m \in MemoryId |-> 50]
    /\ grants = [g \in GrantId |-> None]
    /\ now = 1
    /\ ratings = 0
-----------------------------------------------------------------------------
\* Who may read.  Faulty...: wrong variants, before what they would replace.

\* get_accessible_workgroups, without the caller's own: the grants in force.
Accessible(c) ==
    {g \in GrantId :
        /\ grants[g] # None
        /\ grants[g].until = Never \/ grants[g].until > now
        /\ grants[g].permission \in {"read", "read_write"}
        /\ grants[g].workgroup = WgOf(c) \/ grants[g].agent = AgentOf(c)}

FaultyAdmits(g, m) ==       \* private memories are not held back
    /\ grants[g].grantor = memories[m].workgroup
    /\ grants[g].type \in {None, memories[m].type}
    /\ memories[m].importance >= grants[g].importance

\* A grant lets a memory through.
Admits(g, m) ==
    /\ grants[g].grantor = memories[m].workgroup
    /\ memories[m].scope # "private"
    /\ grants[g].type \in {None, memories[m].type}
    /\ memories[m].importance >= grants[g].importance

\* can_access_memory.  Across workgroups the first grant of the SELECT decides,
\* whatever the others say; the SELECT has no ORDER BY, so it may be any.
CanAccess(c, m) ==
    IF memories[m].workgroup = WgOf(c)
    THEN memories[m].scope = "private" => memories[m].agent = AgentOf(c)
    ELSE \E g \in Accessible(c) : Admits(g, m)

\* GET /memories/{id}; expires_at is not looked at.
Readable(c) == {m \in Live : CanAccess(c, m)}

Hidden(m) == memories[m].type = "working" /\ memories[m].expires # Never
                                          /\ memories[m].expires <= now

\* _query_workgroup, but for the workgroup and who may see it.
Matches(m, type) == /\ ~Hidden(m)
                    /\ type \in {None, memories[m].type}

\* The type asked of a grantor's memories: the grant's filter takes its place.
GrantedType(g, type) == IF grants[g].type # None THEN grants[g].type ELSE type

FaultyFound(c, type) ==     \* only the most important grant
    {m \in Live : \/ /\ memories[m].workgroup = WgOf(c)
                     /\ memories[m].scope = "private" => memories[m].agent = AgentOf(c)
                     /\ Matches(m, type)
                  \/ \E g \in Accessible(c) :
                        /\ \A h \in Accessible(c) : grants[h].importance <= grants[g].importance
                        /\ Admits(g, m)
                        /\ Matches(m, GrantedType(g, type))}

\* search_memories: the caller's workgroup and, for every grant, the grantor's.
Found(c, type) ==
    {m \in Live : \/ /\ memories[m].workgroup = WgOf(c)
                     /\ memories[m].scope = "private" => memories[m].agent = AgentOf(c)
                     /\ Matches(m, type)
                  \/ \E g \in Accessible(c) :
                        /\ Admits(g, m)
                        /\ Matches(m, GrantedType(g, type))}

\* check_causal_cycle, as POST /memories calls it: with no id of its own to look
\* for, it can only find a cycle that is there already.
Ancestors(p) ==
    LET Depth == Cardinality(MemoryId) + 1        \* 50 in the code
        up[n \in 0 .. Depth] ==
            IF n = 0 THEN p
            ELSE IF up[n - 1] \notin Rows THEN None ELSE memories[up[n - 1]].parent
    IN up

CausalCycle(p) ==
    LET up == Ancestors(p) IN
    \E i, j \in DOMAIN up : i < j /\ up[i] = up[j] /\ up[i] # None
-----------------------------------------------------------------------------
FaultyKeyed(wg, key) ==     \* deleted_at IS NULL forgotten
    IF key \in {None, Blank} THEN {}
    ELSE {m \in Rows : memories[m].workgroup = wg /\ memories[m].key = key}

\* The memories a key of the workgroup stands for, as create_memory looks them up:
\* if memory_key, so not for a blank one.
Keyed(wg, key) ==
    IF key \in {None, Blank} THEN {}
    ELSE {m \in Live : memories[m].workgroup = wg /\ memories[m].key = key}

FaultyUpsert(c, body, parent) ==    \* the causal parent is taken over as well
    \E m \in Keyed(WgOf(c), body.key) :
        memories' = [memories EXCEPT ![m].importance = body.importance,
                                     ![m].parent = parent,
                                     ![m].wanted = body.scope,
                                     ![m].adopted = TRUE]

\* The key is taken: the row gets the new content and importance and keeps its
\* owner, scope, type, parent and expiry, whatever the body says.
Upsert(c, body, parent) ==
    \E m \in Keyed(WgOf(c), body.key) :
        memories' = [memories EXCEPT ![m].importance = body.importance,
                                     ![m].wanted = body.scope,
                                     ![m].adopted = TRUE]

\* The unique index is over blank keys too: of these a workgroup has one at a time.
IndexAdmits(wg, key) ==
    key = Blank => \A m \in Live : memories[m].workgroup = wg => memories[m].key # Blank

FaultyInsert(c, body, parent) ==    \* the key is looked up by its owner too
    /\ IndexAdmits(WgOf(c), body.key)
    /\ {m \in Keyed(WgOf(c), body.key) : memories[m].agent = body.agent} = {}
    /\ \E m \in MemoryId \ Rows :
        memories' = [memories EXCEPT ![m] =
            [agent |-> body.agent, workgroup |-> WgOf(c), type |-> body.type,
             scope |-> body.scope, key |-> body.key, importance |-> body.importance,
             parent |-> parent, expires |-> body.expires, deleted |-> FALSE,
             wanted |-> body.scope, adopted |-> FALSE]]

\* The key was looked up in vain, or was not looked up.  When the index refuses the
\* row the answer is 500 and nothing is stored; what that leaves of the connection
\* is in module Directory.  Other keys than "" the index could refuse as well, but
\* never has to (KeysUnique).
Insert(c, body, parent) ==
    /\ Keyed(WgOf(c), body.key) = {}
    /\ IndexAdmits(WgOf(c), body.key)
    /\ \E m \in MemoryId \ Rows :
        memories' = [memories EXCEPT ![m] =
            [agent |-> body.agent, workgroup |-> WgOf(c), type |-> body.type,
             scope |-> body.scope, key |-> body.key, importance |-> body.importance,
             parent |-> parent, expires |-> body.expires, deleted |-> FALSE,
             wanted |-> body.scope, adopted |-> FALSE]]

\* POST /memories.  The agent is the body's; the token only gives the workgroup.
\* Nothing requires that the parent is there: None stands for an id of no memory as
\* well, where every walk ends (ids are drawn at random: it will be nobody's later).
CreateMemory(c, body, parent) ==
    /\ parent # None => ~CausalCycle(parent)
    /\ Upsert(c, body, parent) \/ Insert(c, body, parent)
    /\ UNCHANGED <<utility, grants, now, ratings>>

\* can_modify_memory.
CanModify(c, m) ==
    /\ memories[m].workgroup = WgOf(c)
    /\ c.admin \/ memories[m].agent = AgentOf(c)

\* update_memory, soft_delete_memory of the store.
Revised(m, importance) ==
    [memories[m] EXCEPT !.importance = importance, !.wanted = memories[m].scope]
Removed(m) == [memories[m] EXCEPT !.deleted = TRUE]

\* PUT /memories/{id}.
UpdateMemory(c, m, importance) ==
    /\ m \in Live
    /\ CanModify(c, m)
    /\ memories' = [memories EXCEPT ![m] = Revised(m, importance)]
    /\ UNCHANGED <<utility, grants, now, ratings>>

\* DELETE /memories/{id}: the row stays, for the causal links of others.
DeleteMemory(c, m) ==
    /\ m \in Live
    /\ CanModify(c, m)
    /\ memories' = [memories EXCEPT ![m] = Removed(m)]
    /\ UNCHANGED <<utility, grants, now, ratings>>

\* update_utility: a tenth of the way to the reward, within 0.1 and 0.9.
Clamp(u) == IF u < 10 THEN 10 ELSE IF u > 90 THEN 90 ELSE u
Learned(old, reward) == Clamp(old + (reward - old) \div 10)
Decayed(old) == Clamp((old * 99) \div 100)

\* POST /memories/{id}/feedback: nobody asks who the caller is.
Feedback(m, reward) ==
    /\ m \in Live
    /\ ratings < MaxRatings
    /\ utility' = [utility EXCEPT ![m] = Learned(@, reward)]
    /\ ratings' = ratings + 1
    /\ UNCHANGED <<memories, grants, now>>

\* create_grant, of memory/grants.py.
InsertGrant(g, body) == grants[g] = None /\ grants' = [grants EXCEPT ![g] = body]

\* POST /memory-grants.
CreateGrant(c, g, body) ==
    /\ c.admin \/ WgOf(c) = body.grantor
    /\ body.workgroup # None \/ body.agent # None
    /\ body.workgroup # body.grantor
    /\ InsertGrant(g, body)
    /\ UNCHANGED <<memories, utility, now, ratings>>

FaultyRevokeGrant(c, g) ==      \* ended instead of deleted
    /\ grants[g] # None
    /\ c.admin \/ WgOf(c) = grants[g].grantor
    /\ grants' = [grants EXCEPT ![g].until = now]
    /\ UNCHANGED <<memories, utility, now, ratings>>

\* DELETE /memory-grants/{id}.
RevokeGrant(c, g) ==
    /\ grants[g] # None
    /\ c.admin \/ WgOf(c) = grants[g].grantor
    /\ grants' = [grants EXCEPT ![g] = None]
    /\ UNCHANGED <<memories, utility, now, ratings>>
-----------------------------------------------------------------------------
FaultyExpired == {m \in Live : memories[m].expires # Never /\ memories[m].expires < now}

Expired == {m \in Live : /\ memories[m].type = "working"
                         /\ memories[m].expires # Never /\ memories[m].expires < now}

\* MemoryCleanupTask.run_once.
Cleanup ==
    /\ Expired # {}
    /\ memories' = [m \in MemoryId |-> IF m \in Expired THEN Removed(m) ELSE memories[m]]
    /\ UNCHANGED <<utility, grants, now, ratings>>

\* UtilityDecayTask.run_once, for the memories no search returned for a week.
Decay(unused) ==
    /\ unused # {} /\ unused \subseteq Live
    /\ ratings < MaxRatings
    /\ ratings' = ratings + 1
    /\ utility' = [m \in MemoryId |-> IF m \in unused THEN Decayed(utility[m])
                                      ELSE utility[m]]
    /\ UNCHANGED <<memories, grants, now>>

Tick ==
    /\ now < MaxTime
    /\ now' = now + 1
    /\ UNCHANGED <<memories, utility, grants, ratings>>

Next ==
    \/ \E c \in Claims :
        \/ \E body \in MemoryBodies, parent \in Rows \cup {None} : CreateMemory(c, body, parent)
        \/ \E m \in MemoryId :
            \/ \E importance \in Importance : UpdateMemory(c, m, importance)
            \/ DeleteMemory(c, m)
        \/ \E g \in GrantId : RevokeGrant(c, g) \/ \E body \in GrantBodies : CreateGrant(c, g, body)
    \/ \E m \in MemoryId, reward \in {-100, 100} : Feedback(m, reward)
    \/ Cleanup \/ \E unused \in SUBSET MemoryId : Decay(unused)
    \/ Tick

Spec == Init /\ [][Next]_vars
-----------------------------------------------------------------------------
\* (workgroup, key) is unique among live memories although owners, deletes and
\* cleanups interfere, by the lookup of create_memory alone but for blank keys: a
\* create under any other key is never answered with the unique index's refusal.
KeysUnique ==
    \A m, n \in Live :
        m # n /\ memories[m].key # None /\ memories[m].workgroup = memories[n].workgroup
            => memories[m].key # memories[n].key

\* The two ways to a memory are two pieces of code (can_access_memory and the
\* query builder of search).  What GET shows, a search finds, unless it expired.
ReadableIsFound ==
    \A c \in Claims : {m \in Readable(c) : ~Hidden(m)} \subseteq Found(c, None)

\* Content written for the "private" scope is shown, by either way and under any
\* grants, only to the agent whose memory it is, unless it was written under a
\* key that was taken.
PrivateContent ==
    \A c \in Claims : \A m \in Readable(c) \cup Found(c, None) :
        memories[m].wanted = "private" /\ ~memories[m].adopted =>
            WgOf(c) = memories[m].workgroup /\ AgentOf(c) = memories[m].agent

\* Causal links never run in a circle: the walks over them end, and the check of
\* POST /memories never refuses.
CausesAcyclic == \A m \in Rows : ~CausalCycle(m)

\* A deleted memory stays as it is: nothing writes to its row any more, and its
\* utility is final.
DeletedIsFinal ==
    [][\A m \in Rows : memories[m].deleted =>
            memories'[m] = memories[m] /\ utility'[m] = utility[m]]_vars

\* The cleanup takes only memories that searches had stopped to show.
CleanupTakesTheHidden ==
    [][Cleanup => \A m \in Live : memories'[m].deleted => Hidden(m)]_vars
=============================================================================
