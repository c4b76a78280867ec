-------------------------- MODULE QueryCacheProofs --------------------------
(***************************************************************************)
(* What QueryCache guarantees for every set of sessions, tenants and       *)
(* statements, and every TTL.                                              *)
(*                                                                         *)
(* OwnEntriesFresh is not inductive.  A version number protects a session  *)
(* from its own old answers only because the numbers of its entries never  *)
(* run ahead of it, a session without a connection is expected to find     *)
(* what a new one is given, and an identifier never used has no entry:     *)
(* SessionInv, for every session.                                          *)
(***************************************************************************)
EXTENDS QueryCache, TLAPS

\* The answers that show what s held.
OwnedBy(s) == {k \in Key : k[1] \in Read /\ Servable(k) /\ cache[k].origin = s}

\* The answers of s at its current version are what it would answer now.
FreshFor(s) ==
    \A k \in OwnedBy(s) : k[3] = version[s] => cache[k].answer = content[s]

\* Of one session: it has reached the version of each of its answers, without a
\* connection it is about to be given a new one, it has answered nothing before it
\* was opened, and its answers are fresh while nothing goes round the version.
SessionInv(s) ==
    /\ \A k \in OwnedBy(s) : k[3] <= version[s]
    /\ phase[s] # "ACTIVE" => content[s] = Opened
    /\ phase[s] = "COLD" => OwnedBy(s) = {}
    /\ s \in Registered \ bypassed => FreshFor(s)

Inv == TypeOK /\ \A s \in SessionId : SessionInv(s)

\* An entry is told from no entry by its age.
LEMMA EntryIsServable == NoEntry \notin Entry
BY QueryCacheAssumption DEF NoEntry, Entry

\* What executing a statement leaves is something a connection may hold.
LEMMA ContentFacts ==
    /\ datasets \in Registry => Opened \in Content
    /\ \A sql, c : c \in Content => Success(sql, c) \subseteq Content
    /\ \A sql, c : c \in Content => Failure(sql, c) \subseteq Content
BY QueryCacheAssumption DEF Opened, Content, Success, Failure
-----------------------------------------------------------------------------
\* What a miss remembers is an entry under a key.
LEMMA RememberTypeOK ==
    ASSUME TypeOK, NEW s \in SessionId, NEW t \in Tenant, NEW sql \in Cacheable,
           NEW c \in Content, Remember(CacheKey(sql, t, version[s]), s, sql, c)
    PROVE  /\ CacheKey(sql, t, version[s]) \in Key
           /\ cache' \in [Key -> Entry \cup {NoEntry}]
<1>1. CacheKey(sql, t, version[s]) \in Key
  BY DEF TypeOK, CacheKey, Key
<1>2. [origin |-> Origin(sql, s), answer |-> Answer(sql, c), age |-> 0] \in Entry
  BY QueryCacheAssumption DEF Origin, Answer, Entry
<1> QED
  BY <1>1, <1>2 DEF TypeOK, Remember

\* An aged entry is an entry, or no longer one.
LEMMA TickTypeOK ==
    ASSUME TypeOK, Tick
    PROVE  cache' \in [Key -> Entry \cup {NoEntry}]
<1>1. ASSUME NEW k \in Key, cache[k].age < TTL
      PROVE  [cache[k] EXCEPT !.age = @ + 1] \in Entry
  <2>1. cache[k] \in Entry
    BY <1>1, QueryCacheAssumption DEF TypeOK, NoEntry
  <2> QED
    BY <1>1, <2>1, QueryCacheAssumption DEF Entry
<1> QED
  BY <1>1 DEF Tick

\* What each kind of step does to phase and content.
LEMMA EngineTypeOK ==
    ASSUME TypeOK, NEW s \in SessionId,
           Create(s) \/ Suspend(s) \/ Resume(s) \/ Destroy(s)
    PROVE  TypeOK'
<1>1. phase' \in [SessionId -> Engine!Phase]
  BY DEF TypeOK, Create, Suspend, Resume, Destroy, Engine!Open, Engine!Sweep,
         Engine!Resume, Engine!Close, Engine!Phase
<1>2. content' \in [SessionId -> Content]
  BY ContentFacts DEF TypeOK, Create, Suspend, Resume, Destroy
<1>3. /\ version' \in [SessionId -> 0 .. MaxVersion]
      /\ cache' \in [Key -> Entry \cup {NoEntry}]
      /\ bypassed' \in SUBSET SessionId
      /\ datasets' \in Registry
  BY DEF TypeOK, Create, Suspend, Resume, Destroy, NoteBypass
<1> QED
  BY <1>1, <1>2, <1>3 DEF TypeOK

\* A session that wakes is in a phase of its life.
LEMMA WakeTypeOK ==
    ASSUME TypeOK, NEW s \in SessionId, Wake(s)
    PROVE  phase' \in [SessionId -> Engine!Phase]
BY DEF TypeOK, Wake, Engine!Phase

\* A miss keeps the types, whether it is refused, fails or remembers.
LEMMA MissTypeOK ==
    ASSUME TypeOK, NEW s \in SessionId, NEW t \in Tenant, NEW sql \in Cacheable,
           Miss(s, t, sql)
    PROVE  TypeOK'
<1> DEFINE k == CacheKey(sql, t, version[s])
<1>0. content[s] \in Content
  BY DEF TypeOK
<1>1. CASE UNCHANGED <<phase, content, cache, bypassed>>
  BY <1>1 DEF Miss, TypeOK
<1>2. CASE /\ Wake(s)
           /\ \E c \in Success(sql, content[s]) :
                 content' = [content EXCEPT ![s] = c] /\ Remember(k, s, sql, c)
           /\ NoteBypass(s)
  <2>1. PICK c \in Content :
            content' = [content EXCEPT ![s] = c] /\ Remember(k, s, sql, c)
    BY <1>0, <1>2, ContentFacts
  <2>2. cache' \in [Key -> Entry \cup {NoEntry}]
    BY <2>1, RememberTypeOK
  <2> QED
    BY <1>2, <2>1, <2>2, WakeTypeOK DEF Miss, TypeOK, NoteBypass
<1>3. CASE /\ Wake(s)
           /\ \E c \in Failure(sql, content[s]) :
                 content' = [content EXCEPT ![s] = c] /\ UNCHANGED cache
           /\ NoteBypass(s)
  <2>1. PICK c \in Content : content' = [content EXCEPT ![s] = c] /\ UNCHANGED cache
    BY <1>0, <1>3, ContentFacts
  <2> QED
    BY <1>3, <2>1, WakeTypeOK DEF Miss, TypeOK, NoteBypass
<1> QED
  BY <1>1, <1>2, <1>3 DEF Miss

\* Nothing is cached at the start.
LEMMA InitInv == Init => Inv
<1> SUFFICES ASSUME Init PROVE Inv
  OBVIOUS
<1>1. TypeOK
  BY ContentFacts, QueryCacheAssumption DEF Init, TypeOK, Engine!Init, Engine!Phase
<1>2. \A s \in SessionId : OwnedBy(s) = {}
  BY DEF Init, OwnedBy, Servable
<1> QED
  BY <1>1, <1>2 DEF Inv, SessionInv, FreshFor, Init

\* Every step keeps the types.
LEMMA NextTypeOK == TypeOK /\ [Next]_vars => TypeOK'
<1> SUFFICES ASSUME TypeOK, [Next]_vars PROVE TypeOK'
  OBVIOUS
<1>1. ASSUME NEW s \in SessionId, Create(s) \/ Suspend(s) \/ Resume(s) \/ Destroy(s)
      PROVE  TypeOK'
  BY <1>1, EngineTypeOK
<1>2. ASSUME NEW s \in SessionId, NEW t \in Tenant, Query(s, t)
      PROVE  TypeOK'
  <2>1. ASSUME NEW sql \in Cacheable, Hit(s, t, sql) PROVE TypeOK'
    BY <2>1 DEF Hit, vars, TypeOK
  <2>2. ASSUME NEW sql \in Cacheable, Miss(s, t, sql) PROVE TypeOK'
    BY <2>2, MissTypeOK
  <2>3. ASSUME NEW sql \in Recognised, Write(s, sql) PROVE TypeOK'
    <3>1. version' \in [SessionId -> 0 .. MaxVersion]
      BY <2>3, QueryCacheAssumption DEF Write, Bump, TypeOK
    <3>2. content' \in [SessionId -> Content] /\ phase' \in [SessionId -> Engine!Phase]
      BY <2>3, ContentFacts, WakeTypeOK DEF Write, TypeOK
    <3> QED
      BY <2>3, <3>1, <3>2 DEF Write, TypeOK
  <2> QED
    BY <1>2, <2>1, <2>2, <2>3 DEF Query
<1>3. ASSUME NEW s \in SessionId, NEW sql \in Statement, PondApiExecute(s, sql)
      PROVE  TypeOK'
  BY <1>3, ContentFacts, WakeTypeOK DEF PondApiExecute, NoteBypass, TypeOK
<1>4. CASE Restart
  BY <1>4, QueryCacheAssumption DEF Restart, TypeOK, Opened, Content
<1>5. CASE Tick
  BY <1>5, TickTypeOK DEF Tick, TypeOK
<1>6. ASSUME NEW registered \in Registry, ChangeDatasets(registered)
      PROVE  TypeOK'
  BY <1>6, QueryCacheAssumption DEF ChangeDatasets, TypeOK, Opened, Content, Registered
<1>7. CASE UNCHANGED vars
  BY <1>7 DEF vars, TypeOK
<1> QED
  BY <1>1, <1>2, <1>3, <1>4, <1>5, <1>6, <1>7 DEF Next

\* The type invariant: every value stays in the range the code's dicts give it.
THEOREM TypeCorrect == Spec => []TypeOK
<1>1. Init => TypeOK
  BY InitInv DEF Inv
<1> QED
  BY <1>1, NextTypeOK, PTL DEF Spec
-----------------------------------------------------------------------------
\* The invariant says what OwnEntriesFresh says, by sessions.
LEMMA InvImpliesFresh == Inv => OwnEntriesFresh
<1> SUFFICES ASSUME Inv, NEW s \in Registered \ bypassed, NEW t \in Tenant,
                    NEW sql \in Read,
                    Servable(CacheKey(sql, t, version[s])),
                    cache[CacheKey(sql, t, version[s])].origin = s
             PROVE  cache[CacheKey(sql, t, version[s])].answer = Executed(s, sql)
  BY DEF OwnEntriesFresh
<1> DEFINE k == CacheKey(sql, t, version[s])
<1>1. s \in SessionId /\ TypeOK /\ FreshFor(s)
  BY DEF Inv, SessionInv, Registered
<1>2. k \in OwnedBy(s) /\ k[3] = version[s]
  BY <1>1 DEF OwnedBy, CacheKey, Key, Cacheable, TypeOK
<1> QED
  BY <1>1, <1>2 DEF FreshFor, Executed, Answer
-----------------------------------------------------------------------------
\* The answers in a later cache are answers in this one.
OnlyAges ==
    \A k \in Key : k[1] \in Read /\ Servable(k)' =>
        /\ Servable(k)
        /\ cache'[k].origin = cache[k].origin
        /\ cache'[k].answer = cache[k].answer

\* So a session's answers are some of those it had.
LEMMA OnlyAgesOwned ==
    ASSUME OnlyAges, NEW u \in SessionId, NEW k \in OwnedBy(u)'
    PROVE  k \in OwnedBy(u) /\ cache'[k].answer = cache[k].answer
BY DEF OnlyAges, OwnedBy, Servable

\* The clock changes no answer.
LEMMA TickOnlyAges ==
    ASSUME TypeOK, Tick
    PROVE  OnlyAges
<1> SUFFICES ASSUME NEW k \in Key, Servable(k)'
             PROVE  /\ Servable(k)
                    /\ cache'[k].origin = cache[k].origin
                    /\ cache'[k].answer = cache[k].answer
  BY DEF OnlyAges
<1>1. cache[k].age < TTL /\ cache'[k] = [cache[k] EXCEPT !.age = @ + 1]
  BY DEF Tick, Servable
<1>2. cache[k] \in Entry
  BY <1>1, QueryCacheAssumption DEF TypeOK, NoEntry
<1> QED
  BY <1>1, <1>2, EntryIsServable DEF Entry, Servable

\* A step keeps a session's part of the invariant if it leaves the session's
\* version alone and its content too, or notes that it does not.
LEMMA Undisturbed ==
    ASSUME NEW u \in SessionId, SessionInv(u), OnlyAges,
           version'[u] = version[u],
           phase'[u] = "COLD" => phase[u] = "COLD",
           phase'[u] # "ACTIVE" => content'[u] = Opened',
           u \in Registered' => u \in Registered,
           u \in Registered' \ bypassed' => u \notin bypassed /\ content'[u] = content[u]
    PROVE  SessionInv(u)'
<1>1. \A k \in OwnedBy(u)' : k[3] <= version'[u]
  BY OnlyAgesOwned DEF SessionInv
<1>2. phase'[u] = "COLD" => OwnedBy(u)' = {}
  BY OnlyAgesOwned DEF SessionInv
<1>3. u \in Registered' \ bypassed' => FreshFor(u)'
  BY OnlyAgesOwned DEF SessionInv, FreshFor
<1> QED
  BY <1>1, <1>2, <1>3 DEF SessionInv

\* What it means to note it.
LEMMA Noted ==
    ASSUME TypeOK, NEW s \in SessionId, NEW u \in SessionId, NoteBypass(s),
           u # s => content'[u] = content[u], u \notin bypassed'
    PROVE  u \notin bypassed /\ content'[u] = content[u]
BY DEF TypeOK, NoteBypass
-----------------------------------------------------------------------------
\* The engine's actions, on the session they are about and on the others.
LEMMA EngineKeepsInv ==
    ASSUME TypeOK, NEW s \in SessionId, NEW u \in SessionId, SessionInv(u),
           Create(s) \/ Suspend(s) \/ Resume(s) \/ Destroy(s)
    PROVE  SessionInv(u)'
<1>0. OnlyAges /\ version' = version /\ Opened' = Opened
  BY DEF Create, Suspend, Resume, Destroy, OnlyAges, Servable, Opened
<1>1. CASE Create(s) /\ u = s
  <2>1. OwnedBy(u)' = {}
    BY <1>1, <1>0, OnlyAgesOwned DEF Create, Engine!Open, SessionInv
  <2>2. phase'[u] = "ACTIVE"
    BY <1>1 DEF Create, Engine!Open, TypeOK
  <2> QED
    BY <2>1, <2>2 DEF SessionInv, FreshFor
<1>2. CASE Create(s) /\ u # s
  <2>1. phase'[u] = phase[u] /\ content'[u] = content[u] /\ bypassed' = bypassed
    BY <1>2 DEF Create, Engine!Open, TypeOK
  <2> QED
    BY <1>0, <2>1, Undisturbed DEF Registered, SessionInv
<1>3. CASE Suspend(s)
  <2>1. /\ phase[s] = "ACTIVE"
        /\ phase'[u] = (IF u = s THEN "SUSPENDED" ELSE phase[u])
        /\ content'[u] = (IF u = s THEN Opened ELSE content[u])
    BY <1>3 DEF Suspend, Engine!Sweep, TypeOK
  <2>2. u \notin bypassed' => u \notin bypassed /\ content'[u] = content[u]
    BY <1>3, <2>1, Noted DEF Suspend
  <2> QED
    BY <1>0, <2>1, <2>2, Undisturbed DEF Registered, SessionInv
<1>4. CASE Resume(s)
  <2>1. /\ phase[s] = "SUSPENDED"
        /\ phase'[u] = (IF u = s THEN "ACTIVE" ELSE phase[u])
        /\ content'[u] = (IF u = s THEN Opened ELSE content[u])
        /\ bypassed' = bypassed
    BY <1>4 DEF Resume, Engine!Resume, TypeOK
  <2>2. content'[u] = content[u]
    BY <2>1 DEF SessionInv
  <2> QED
    BY <1>0, <2>1, <2>2, Undisturbed DEF Registered, SessionInv
<1>5. CASE Destroy(s)
  <2>1. /\ phase'[u] = (IF u = s THEN "DESTROYED" ELSE phase[u])
        /\ content'[u] = (IF u = s THEN Opened ELSE content[u])
        /\ bypassed' = bypassed
    BY <1>5 DEF Destroy, Engine!Close, TypeOK
  <2> QED
    BY <1>0, <2>1, Undisturbed DEF Registered, SessionInv
<1> QED
  BY <1>1, <1>2, <1>3, <1>4, <1>5

\* Executing a statement on s, with the cache as it was.
LEMMA ExecutionKeepsInv ==
    ASSUME TypeOK, NEW s \in Registered, NEW u \in SessionId, SessionInv(u),
           Wake(s), NEW c \in Content, content' = [content EXCEPT ![s] = c],
           NoteBypass(s), UNCHANGED <<datasets, version, cache>>
    PROVE  SessionInv(u)'
<1>1. /\ phase'[u] = (IF u = s THEN "ACTIVE" ELSE phase[u])
      /\ content'[u] = (IF u = s THEN c ELSE content[u])
  BY DEF Wake, TypeOK, Registered
<1>2. u \notin bypassed' => u \notin bypassed /\ content'[u] = content[u]
  BY <1>1, Noted DEF Registered
<1>3. OnlyAges /\ Opened' = Opened
  BY DEF OnlyAges, Servable, Opened
<1> QED
  BY <1>1, <1>2, <1>3, Undisturbed DEF Registered, SessionInv

\* A miss remembers what s shows now, under a version s has reached.
LEMMA RememberedReadKeepsInv ==
    ASSUME TypeOK, NEW s \in Registered, NEW u \in SessionId, SessionInv(u),
           NEW t \in Tenant, NEW sql \in Read,
           Remember(CacheKey(sql, t, version[s]), s, sql, content[s]),
           Wake(s), UNCHANGED <<content, datasets, version, bypassed>>
    PROVE  SessionInv(u)'
<1> DEFINE K == CacheKey(sql, t, version[s])
<1>1. phase'[u] = (IF u = s THEN "ACTIVE" ELSE phase[u])
  BY DEF Wake, TypeOK, Registered
<1>2. K \in Key /\ K[3] = version[s] /\ sql \in Cacheable
  BY DEF TypeOK, CacheKey, Key, Cacheable, Registered
<1>3. /\ cache'[K].origin = s /\ cache'[K].answer = content[s]
      /\ \A k \in Key : k # K => cache'[k] = cache[k]
  BY <1>2 DEF TypeOK, Remember, Origin, Answer
<1>4. ASSUME NEW k \in OwnedBy(u)'
      PROVE  \/ k = K /\ u = s
             \/ k \in OwnedBy(u) /\ cache'[k] = cache[k]
  BY <1>3, <1>4 DEF OwnedBy, Servable
<1>5. version[s] \in Nat /\ version' = version /\ content' = content
  BY QueryCacheAssumption DEF TypeOK, Registered
<1>6. \A k \in OwnedBy(u)' : k[3] <= version'[u]
  BY <1>2, <1>4, <1>5 DEF SessionInv
<1>7. phase'[u] = "COLD" => OwnedBy(u)' = {}
  BY <1>1, <1>4 DEF SessionInv
<1>8. phase'[u] # "ACTIVE" => content'[u] = Opened'
  BY <1>1, <1>5 DEF SessionInv, Opened
<1>9. u \in Registered' \ bypassed' => FreshFor(u)'
  <2>1. u \in Registered' \ bypassed' => u \in Registered \ bypassed
    BY <1>1 DEF Registered
  <2> QED
    BY <1>3, <1>4, <1>5, <2>1 DEF SessionInv, FreshFor
<1> QED
  BY <1>6, <1>7, <1>8, <1>9 DEF SessionInv

\* A miss keeps the invariant: a read is remembered as it is now, any other
\* statement under a key that no read has.
LEMMA MissKeepsInv ==
    ASSUME TypeOK, NEW s \in Registered, NEW u \in SessionId, SessionInv(u),
           NEW t \in Tenant, NEW sql \in Cacheable, Miss(s, t, sql)
    PROVE  SessionInv(u)'
<1> DEFINE K == CacheKey(sql, t, version[s])
<1>0. /\ content[s] \in Content /\ s \in SessionId
      /\ UNCHANGED <<datasets, version>> /\ Opened' = Opened
  BY DEF TypeOK, Registered, Miss, Opened
<1>1. CASE UNCHANGED <<phase, content, cache, bypassed>>
  BY <1>0, <1>1 DEF SessionInv, OwnedBy, FreshFor, Servable, Registered
<1>2. CASE /\ Wake(s)
           /\ \E c \in Success(sql, content[s]) :
                 content' = [content EXCEPT ![s] = c] /\ Remember(K, s, sql, c)
           /\ NoteBypass(s)
  <2>1. PICK c \in Success(sql, content[s]) :
            content' = [content EXCEPT ![s] = c] /\ Remember(K, s, sql, c)
    BY <1>2
  <2>2. CASE sql \in Read
    <3>1. c = content[s]
      BY <2>1, <2>2 DEF Success
    <3>2. content' = content
      BY <2>1, <3>1 DEF TypeOK
    <3>3. bypassed' = bypassed
      BY <1>2, <3>2 DEF NoteBypass
    <3> QED
      BY <1>0, <1>2, <2>1, <2>2, <3>1, <3>2, <3>3, RememberedReadKeepsInv
  <2>3. CASE sql \notin Read
    <3>1. OnlyAges
      BY <2>1, <2>3 DEF OnlyAges, Remember, CacheKey, Servable, TypeOK
    <3>2. /\ phase'[u] = (IF u = s THEN "ACTIVE" ELSE phase[u])
          /\ content'[u] = (IF u = s THEN c ELSE content[u])
      BY <1>2, <2>1 DEF Wake, TypeOK
    <3>3. u \notin bypassed' => u \notin bypassed /\ content'[u] = content[u]
      BY <1>0, <1>2, <3>2, Noted
    <3> QED
      BY <1>0, <3>1, <3>2, <3>3, Undisturbed DEF Registered, SessionInv
  <2> QED
    BY <2>2, <2>3
<1>3. CASE /\ Wake(s)
           /\ \E c \in Failure(sql, content[s]) :
                 content' = [content EXCEPT ![s] = c] /\ UNCHANGED cache
           /\ NoteBypass(s)
  <2>1. PICK c \in Content : content' = [content EXCEPT ![s] = c] /\ UNCHANGED cache
    BY <1>0, <1>3, ContentFacts
  <2> QED
    BY <1>0, <1>3, <2>1, ExecutionKeepsInv
<1> QED
  BY <1>1, <1>2, <1>3 DEF Miss

\* A recognised write takes s past the versions of all its answers.
LEMMA WriteKeepsInv ==
    ASSUME TypeOK, NEW s \in Registered, NEW u \in SessionId, SessionInv(u),
           NEW sql \in Recognised, Write(s, sql)
    PROVE  SessionInv(u)'
<1>1. /\ version[s] \in Nat
      /\ version'[u] = (IF u = s THEN version[s] + 1 ELSE version[u])
      /\ bypassed' = bypassed \ {s}
  BY QueryCacheAssumption DEF Write, Bump, TypeOK, Registered
<1>2. /\ OwnedBy(u)' = OwnedBy(u) /\ \A k \in Key : cache'[k] = cache[k] /\ k[3] \in Nat
      /\ Opened' = Opened
  BY QueryCacheAssumption DEF Write, OwnedBy, Servable, Key, Opened
<1>3. \/ phase'[u] = phase[u] /\ content'[u] = content[u]
      \/ u = s /\ phase'[u] = "ACTIVE"
  BY DEF Write, Wake, TypeOK, Registered
<1>4. CASE u # s
  BY <1>1, <1>2, <1>3, <1>4 DEF SessionInv, FreshFor, Registered, OwnedBy
<1>5. CASE u = s
  <2>1. \A k \in OwnedBy(u)' : k[3] < version'[u] /\ k[3] \in Nat
    BY <1>1, <1>2, <1>5 DEF SessionInv, OwnedBy
  <2>2. version'[u] \in Nat
    BY <1>1, <1>5
  <2>3. FreshFor(u)' /\ \A k \in OwnedBy(u)' : k[3] <= version'[u]
    BY <2>1, <2>2 DEF FreshFor
  <2>4. /\ phase'[u] # "ACTIVE" => content'[u] = Opened'
        /\ phase'[u] = "COLD" => OwnedBy(u)' = {}
    BY <1>2, <1>3 DEF SessionInv
  <2> QED
    BY <2>3, <2>4 DEF SessionInv
<1> QED
  BY <1>4, <1>5
\* Other datasets are found by sessions that have no connection, which is noted.
LEMMA DatasetsKeepInv ==
    ASSUME TypeOK, NEW u \in SessionId, SessionInv(u),
           NEW registered \in Registry, ChangeDatasets(registered)
    PROVE  SessionInv(u)'
<1>1. OnlyAges /\ version' = version /\ phase' = phase
  BY DEF ChangeDatasets, OnlyAges, Servable
<1>2. content'[u] = IF phase[u] = "ACTIVE" THEN content[u] ELSE Opened'
  BY DEF ChangeDatasets
<1>3. u \in Registered' \ bypassed' => u \notin bypassed /\ content'[u] = content[u]
  BY <1>1 DEF ChangeDatasets, Registered
<1> QED
  BY <1>1, <1>2, <1>3, Undisturbed DEF Registered
-----------------------------------------------------------------------------
\* Every step keeps the invariant.
LEMMA NextInv == Inv /\ [Next]_vars => Inv'
<1> SUFFICES ASSUME Inv, [Next]_vars PROVE Inv'
  OBVIOUS
<1>1. TypeOK /\ TypeOK'
  BY NextTypeOK DEF Inv
<1> SUFFICES ASSUME NEW u \in SessionId PROVE SessionInv(u)'
  BY <1>1 DEF Inv
<1>2. SessionInv(u)
  BY DEF Inv
<1>3. ASSUME NEW s \in SessionId, Create(s) \/ Suspend(s) \/ Resume(s) \/ Destroy(s)
      PROVE  SessionInv(u)'
  BY <1>1, <1>2, <1>3, EngineKeepsInv
<1>4. ASSUME NEW s \in SessionId, NEW t \in Tenant, Query(s, t)
      PROVE  SessionInv(u)'
  <2>1. ASSUME NEW sql \in Cacheable, Hit(s, t, sql) PROVE SessionInv(u)'
    BY <1>2, <2>1 DEF Hit, vars, SessionInv, OwnedBy, FreshFor, Servable, Registered, Opened
  <2>2. ASSUME NEW sql \in Cacheable, Miss(s, t, sql) PROVE SessionInv(u)'
    BY <1>1, <1>2, <1>4, <2>2, MissKeepsInv DEF Query
  <2>3. ASSUME NEW sql \in Recognised, Write(s, sql) PROVE SessionInv(u)'
    BY <1>1, <1>2, <1>4, <2>3, WriteKeepsInv DEF Query
  <2> QED
    BY <1>4, <2>1, <2>2, <2>3 DEF Query
<1>5. ASSUME NEW s \in SessionId, NEW sql \in Statement, PondApiExecute(s, sql)
      PROVE  SessionInv(u)'
  <2>1. content[s] \in Content
    BY <1>1 DEF TypeOK
  <2>2. PICK c \in Content : content' = [content EXCEPT ![s] = c]
    BY <1>5, <2>1, ContentFacts DEF PondApiExecute
  <2> QED
    BY <1>1, <1>2, <1>5, <2>2, ExecutionKeepsInv DEF PondApiExecute
<1>6. CASE Restart
  <2>1. \A v \in SessionId : OwnedBy(v)' = {}
    BY <1>6 DEF Restart, OwnedBy, Servable
  <2> QED
    BY <1>2, <1>6, <2>1 DEF Restart, SessionInv, FreshFor, Opened
<1>7. CASE Tick
  BY <1>1, <1>2, <1>7, TickOnlyAges, Undisturbed DEF Tick, Registered, SessionInv, Opened
<1>8. ASSUME NEW registered \in Registry, ChangeDatasets(registered)
      PROVE  SessionInv(u)'
  BY <1>1, <1>2, <1>8, DatasetsKeepInv
<1>9. CASE UNCHANGED vars
  BY <1>2, <1>9 DEF vars, SessionInv, OwnedBy, FreshFor, Servable, Registered, Opened
<1> QED
  BY <1>3, <1>4, <1>5, <1>6, <1>7, <1>8, <1>9 DEF Next

\* A session is never given its own answer of before a recognised write, across
\* suspends, restarts and whatever other sessions of its tenant cache.
THEOREM OwnAnswersStayFresh == Spec => []OwnEntriesFresh
BY InvImpliesFresh, InitInv, NextInv, PTL DEF Spec
-----------------------------------------------------------------------------
\* No request prolongs an answer or replaces one that is still served.
THEOREM AnswersAreNotRenewed == Spec => NeverRenewed
<1> DEFINE Ages(k) ==
        Servable(k) /\ Servable(k)' =>
            /\ cache'[k].age >= cache[k].age
            /\ [cache'[k] EXCEPT !.age = 0] = [cache[k] EXCEPT !.age = 0]
<1>1. ASSUME TypeOK, Next, NEW k \in Key PROVE Ages(k)
  <2>1. ASSUME Servable(k) PROVE cache[k].age \in Nat /\ cache[k] \in Entry
    BY <1>1, <2>1, QueryCacheAssumption DEF TypeOK, Servable, Entry
  <2>2. CASE cache'[k] = cache[k]
    BY <2>1, <2>2
  <2>3. CASE Restart
    BY <2>3 DEF Restart, Servable
  <2>4. CASE Tick
    <3>1. ASSUME Servable(k), Servable(k)'
          PROVE  cache'[k] = [cache[k] EXCEPT !.age = @ + 1]
      BY <2>4, <3>1 DEF Tick, Servable
    <3> QED
      BY <2>1, <3>1, QueryCacheAssumption DEF Entry
  <2>5. ASSUME NEW s \in SessionId, NEW t \in Tenant, NEW sql \in Cacheable, Miss(s, t, sql)
        PROVE  Servable(k) => cache'[k] = cache[k]
    BY <1>1, <2>5 DEF Miss, Remember, Servable, TypeOK
  <2>6. Restart \/ Tick \/ (Servable(k) => cache'[k] = cache[k])
    BY <1>1, <2>5 DEF Next, Create, Suspend, Resume, Destroy, Query, Hit, Write,
                      PondApiExecute, ChangeDatasets, vars
  <2> QED
    BY <2>2, <2>3, <2>4, <2>6
<1>2. TypeOK /\ [Next]_vars => [\A k \in Key : Ages(k)]_vars
  BY <1>1
<1> QED
  BY <1>2, TypeCorrect, PTL DEF Spec, NeverRenewed
=============================================================================
