--------------------------- MODULE DirectoryProofs ---------------------------
(***************************************************************************)
(* What the stores of module Directory keep, for any number of tenants,    *)
(* users, keys and invites, whatever is refused, locked or restarted.      *)
(*                                                                         *)
(* InviteOnce is not inductive: an invite that has yielded its token must  *)
(* also not be pending, or it would be accepted again (Spent).             *)
(***************************************************************************)
EXTENDS Directory, TLAPS

Spent == \A i \in InviteId :
    issued[i] # 0 => invites[i] # None /\ invites[i].status # "pending"

Inv == TypeOK /\ OnlyRefusalsLock /\ InviteOnce /\ Spent
-----------------------------------------------------------------------------
\* What a call of the store leaves of the connections.
LEMMA Modes ==
    ASSUME mode \in [Connection -> File!Mode], NEW c \in Connection,
           \/ File!Read(c) \/ File!WriteRefused(c) \/ File!WriteCommitted(c)
           \/ \E reads \in BOOLEAN : File!LeaveOpen(c, reads)
    PROVE  mode' \in [Connection -> File!Mode]
BY DEF File!Read, File!WriteRefused, File!WriteCommitted, File!LeaveOpen, File!Mode

\* A read, and a write that finds the file locked, leave nobody in the middle of a
\* transaction who was not there, or would not be without a refusal.
LEMMA Calm ==
    ASSUME TypeOK, OnlyRefusalsLock, NEW c \in Connection,
           UNCHANGED history,
           File!Read(c) \/ \E reads \in BOOLEAN : File!WriteBusy(c, reads)
    PROVE  OnlyRefusalsLock'
BY DEF TypeOK, OnlyRefusalsLock, File!Mode, File!Read, File!WriteBusy, File!LeaveOpen,
       File!Locked, history

\* The outcomes of a write.
Outcome(c) == \/ \E reads \in BOOLEAN : Fails(c, reads) \/ Unbound(c, reads)
              \/ Refused(c) \/ Done(c)

LEMMA Outcomes ==
    ASSUME TypeOK, OnlyRefusalsLock, NEW c \in Connection, Outcome(c)
    PROVE  /\ mode' \in [Connection -> File!Mode]
           /\ duplicate' \in BOOLEAN
           /\ unbound' \subseteq Connection
           /\ OnlyRefusalsLock'
<1>1. ASSUME NEW reads \in BOOLEAN, Fails(c, reads)
      PROVE  /\ mode' \in [Connection -> File!Mode]
             /\ UNCHANGED history
             /\ OnlyRefusalsLock'
  BY <1>1, Modes, Calm DEF Fails, TypeOK, File!WriteBusy
<1>2. ASSUME NEW reads \in BOOLEAN, Unbound(c, reads)
      PROVE  /\ mode' \in [Connection -> File!Mode]
             /\ duplicate' = duplicate /\ unbound' = unbound \cup {c}
             /\ OnlyRefusalsLock'
  <2>1. mode' \in [Connection -> File!Mode]
    BY <1>2, Modes DEF Unbound, TypeOK, File!WriteUnbound
  <2> QED
    BY <1>2, <2>1 DEF Unbound, TypeOK, OnlyRefusalsLock, File!WriteUnbound, File!LeaveOpen,
                      File!Mode
<1>3. CASE Refused(c)
  BY <1>3, Modes DEF Refused, TypeOK, OnlyRefusalsLock
<1>4. CASE Done(c)
  <2>1. mode' \in [Connection -> File!Mode]
    BY <1>4, Modes DEF Done, TypeOK
  <2> QED
    BY <1>4, <2>1 DEF Done, TypeOK, OnlyRefusalsLock, File!WriteCommitted, File!Mode
<1> QED
  BY <1>1, <1>2, <1>3, <1>4 DEF Outcome, TypeOK, history
-----------------------------------------------------------------------------
\* What a step does to the tables: one row of one table at most, in one of the
\* ways the routes have.
Saves == \E t \in Tenant, s \in Slug, v \in {"public", "private"} :
    /\ queries[s] = None
    /\ queries' = [queries EXCEPT ![s] = [tenant |-> t, visibility |-> v]]
    /\ UNCHANGED <<users, keys, invites, issued>>

SignsUp == \E u \in Identity, email \in Email :
    /\ users[u] = None
    /\ users' = [users EXCEPT ![u] = email]
    /\ UNCHANGED <<queries, keys, invites, issued>>

AddsKey == \E u \in Identity, k \in KeyId, expires \in {Never, 1} :
    /\ keys[k] = None
    /\ keys' = [keys EXCEPT ![k] = [user |-> u, revoked |-> FALSE, expires |-> expires]]
    /\ UNCHANGED <<queries, users, invites, issued>>

RevokesKey == \E k \in KeyId :
    /\ keys[k] # None
    /\ keys' = [keys EXCEPT ![k].revoked = TRUE]
    /\ UNCHANGED <<queries, users, invites, issued>>

Invites == \E i \in InviteId, email \in Email :
    /\ invites[i] = None
    /\ invites' = [invites EXCEPT ![i] =
            [email |-> email, status |-> "pending", expires |-> 1]]
    /\ UNCHANGED <<queries, users, keys, issued>>

Revokes == \E i \in InviteId :
    /\ invites[i] # None
    /\ invites' = [invites EXCEPT ![i].status = "revoked"]
    /\ UNCHANGED <<queries, users, keys, issued>>

Accepts == \E i \in InviteId :
    /\ invites[i] # None
    /\ invites[i].status \notin {"accepted", "revoked"}
    /\ invites' = [invites EXCEPT ![i].status = "accepted"]
    /\ issued' = [issued EXCEPT ![i] = @ + 1]
    /\ UNCHANGED <<queries, users, keys>>

TablesStep ==
    \/ UNCHANGED tables
    \/ Saves \/ SignsUp \/ AddsKey \/ RevokesKey \/ Invites \/ Revokes \/ Accepts

\* Every step does one of these to the tables, and leaves the connections, the
\* sign-ins and the clock in order.
LEMMA Steps ==
    ASSUME TypeOK, OnlyRefusalsLock, [Next]_vars
    PROVE  /\ TablesStep
           /\ OnlyRefusalsLock'
           /\ mode' \in [Connection -> File!Mode]
           /\ states' \subseteq [provider : Provider, ts : 1 .. MaxTime]
           /\ callbacks' \subseteq Identity
           /\ duplicate' \in BOOLEAN
           /\ unbound' \subseteq Connection
           /\ now' \in 1 .. MaxTime
<1> DEFINE Goal == /\ TablesStep
                   /\ OnlyRefusalsLock'
                   /\ mode' \in [Connection -> File!Mode]
                   /\ states' \subseteq [provider : Provider, ts : 1 .. MaxTime]
                   /\ callbacks' \subseteq Identity
                   /\ duplicate' \in BOOLEAN
                   /\ unbound' \subseteq Connection
                   /\ now' \in 1 .. MaxTime
<1>c. {"metadata", "users", "memory"} \subseteq Connection
  BY DEF Connection
<1>1. ASSUME NEW t \in Tenant, NEW s \in Slug, NEW v \in {"public", "private"},
             SaveQuery(t, s, v)
      PROVE  Goal
  <2>1. TablesStep
    BY <1>1 DEF SaveQuery, InsertQuery, Fails, Unbound, Refused, TablesStep, Saves, tables
  <2>2. Outcome("metadata")
    BY <1>1 DEF Outcome, SaveQuery, InsertQuery
  <2> QED
    BY <1>1, <1>c, <2>1, <2>2, Outcomes DEF SaveQuery, TypeOK
<1>2. ASSUME NEW p \in Provider, InitiateOauth(p)
      PROVE  Goal
  BY <1>2 DEF InitiateOauth, TypeOK, history, OnlyRefusalsLock, TablesStep
<1>3. ASSUME NEW u \in Identity, NEW state \in states, OauthCallback(u, state)
      PROVE  Goal
  BY <1>3 DEF OauthCallback, TypeOK, history, OnlyRefusalsLock, TablesStep
<1>4. ASSUME NEW u \in Identity, ProviderFails(u)
      PROVE  Goal
  BY <1>4 DEF ProviderFails, TypeOK, history, OnlyRefusalsLock, TablesStep
<1>5. ASSUME NEW u \in Identity, NEW email \in Email, ProvisionUser(u, email)
      PROVE  Goal
  <2>1. TablesStep
    BY <1>5 DEF ProvisionUser, UpsertUser, CreateUser, Fails, Unbound, Refused, TablesStep, SignsUp, tables
  <2>2. Outcome("users")
    BY <1>5 DEF Outcome, ProvisionUser, UpsertUser, CreateUser
  <2> QED
    BY <1>5, <1>c, <2>1, <2>2, Outcomes DEF ProvisionUser, TypeOK
<1>6. ASSUME NEW u \in Identity, NEW k \in KeyId, NEW expires \in {Never, 1},
             CreateApiKey(u, k, expires)
      PROVE  Goal
  <2>1. TablesStep
    BY <1>6 DEF CreateApiKey, InsertKey, Fails, Unbound, TablesStep, AddsKey, tables
  <2>2. Outcome("users")
    BY <1>6 DEF Outcome, CreateApiKey, InsertKey
  <2> QED
    BY <1>6, <1>c, <2>1, <2>2, Outcomes DEF CreateApiKey, TypeOK
<1>7. ASSUME NEW u \in Identity, NEW k \in KeyId, RevokeApiKey(u, k)
      PROVE  Goal
  <2>1. TablesStep
    BY <1>7 DEF RevokeApiKey, MarkKeyRevoked, Fails, Unbound, TablesStep, RevokesKey, tables
  <2>2. Outcome("users")
    BY <1>7 DEF Outcome, RevokeApiKey, MarkKeyRevoked
  <2> QED
    BY <1>7, <1>c, <2>1, <2>2, Outcomes DEF RevokeApiKey, TypeOK
<1>8. ASSUME NEW i \in InviteId, NEW email \in Email, CreateInvite(i, email, 1)
      PROVE  Goal
  <2>1. TablesStep
    BY <1>8 DEF CreateInvite, InsertInvite, Fails, Unbound, TablesStep, Invites, tables
  <2>2. Outcome("metadata")
    BY <1>8 DEF Outcome, CreateInvite, InsertInvite
  <2> QED
    BY <1>8, <1>c, <2>1, <2>2, Outcomes DEF CreateInvite, TypeOK
<1>9. ASSUME NEW i \in InviteId, NEW email \in Email, AcceptInvite(i, email)
      PROVE  Goal
  <2>1. TablesStep
    BY <1>9 DEF AcceptInvite, Acceptable, Fails, Unbound, TablesStep, Accepts, tables
  <2>2. Outcome("metadata")
    BY <1>9 DEF Outcome, AcceptInvite
  <2> QED
    BY <1>9, <1>c, <2>1, <2>2, Outcomes DEF AcceptInvite, TypeOK
<1>10. ASSUME NEW i \in InviteId, RevokeInvite(i)
       PROVE  Goal
  <2>1. TablesStep
    BY <1>10 DEF RevokeInvite, MarkRevoked, Fails, Unbound, TablesStep, Revokes, tables
  <2>2. Outcome("metadata")
    BY <1>10 DEF Outcome, RevokeInvite, MarkRevoked
  <2> QED
    BY <1>10, <1>c, <2>1, <2>2, Outcomes DEF RevokeInvite, TypeOK
<1>11. ASSUME NEW c \in Connection, OtherWrite(c)
       PROVE  Goal
  <2>1. TablesStep
    BY <1>11 DEF OtherWrite, Fails, Unbound, TablesStep
  <2>2. Outcome(c)
    BY <1>11 DEF Outcome, OtherWrite
  <2> QED
    BY <1>11, <2>1, <2>2, Outcomes DEF OtherWrite, TypeOK
<1>12. ASSUME NEW c \in Connection, OtherRead(c)
       PROVE  Goal
  BY <1>12, Modes, Calm DEF OtherRead, TypeOK, history, TablesStep
<1>13. CASE WriteMemory
  <2>1. TablesStep
    BY <1>13 DEF WriteMemory, Fails, Unbound, Refused, TablesStep
  <2>2. Outcome("memory")
    BY <1>13 DEF Outcome, WriteMemory
  <2> QED
    BY <1>13, <1>c, <2>1, <2>2, Outcomes DEF WriteMemory, TypeOK
<1>14. CASE Restart
  BY <1>14 DEF Restart, TypeOK, history, OnlyRefusalsLock, TablesStep, File!Mode
<1>15. CASE Tick
  BY <1>15, DirectoryAssumption DEF Tick, TypeOK, history, OnlyRefusalsLock, TablesStep
<1>16. CASE UNCHANGED vars
  BY <1>16 DEF vars, TypeOK, history, OnlyRefusalsLock, TablesStep
<1> QED
  BY <1>1, <1>2, <1>3, <1>4, <1>5, <1>6, <1>7, <1>8, <1>9, <1>10, <1>11, <1>12, <1>13,
     <1>14, <1>15, <1>16 DEF Next
-----------------------------------------------------------------------------
LEMMA TablesKeepTypes ==
    ASSUME TypeOK, TablesStep
    PROVE  /\ queries' \in [Slug -> Query \cup {None}]
           /\ users' \in [Identity -> Email \cup {None}]
           /\ keys' \in [KeyId -> Key \cup {None}]
           /\ invites' \in [InviteId -> Invite \cup {None}]
           /\ issued' \in [InviteId -> Nat]
<1> USE DirectoryAssumption
<1>1. CASE UNCHANGED tables
  BY <1>1 DEF tables, TypeOK
<1>2. CASE Saves
  BY <1>2 DEF Saves, TypeOK, Query
<1>3. CASE SignsUp
  BY <1>3 DEF SignsUp, TypeOK
<1>4. CASE AddsKey
  <2>1. PICK u \in Identity, k \in KeyId, expires \in {Never, 1} :
          /\ keys' = [keys EXCEPT ![k] = [user |-> u, revoked |-> FALSE, expires |-> expires]]
          /\ UNCHANGED <<queries, users, invites, issued>>
    BY <1>4, Zenon DEF AddsKey
  <2>2. [user |-> u, revoked |-> FALSE, expires |-> expires] \in Key
    BY DEF Key, Never
  <2>3. keys' \in [KeyId -> Key \cup {None}]
    BY <2>1, <2>2 DEF TypeOK
  <2> QED
    BY <2>1, <2>3 DEF TypeOK
<1>5. CASE RevokesKey
  BY <1>5 DEF RevokesKey, TypeOK, Key
<1>6. CASE Invites
  BY <1>6 DEF Invites, TypeOK, Invite
<1>7. CASE Revokes
  BY <1>7 DEF Revokes, TypeOK, Invite
<1>8. CASE Accepts
  BY <1>8 DEF Accepts, TypeOK, Invite
<1> QED
  BY <1>1, <1>2, <1>3, <1>4, <1>5, <1>6, <1>7, <1>8 DEF TablesStep

LEMMA InvitesSpent ==
    ASSUME TypeOK, InviteOnce, Spent, TablesStep
    PROVE  InviteOnce' /\ Spent'
<1>1. CASE Invites
  BY <1>1 DEF Invites, TypeOK, InviteOnce, Spent
<1>2. CASE Revokes
  <2>1. PICK i \in InviteId :
            /\ invites[i] \in Invite
            /\ invites' = [invites EXCEPT ![i].status = "revoked"]
            /\ UNCHANGED issued
    BY <1>2 DEF Revokes, TypeOK
  <2>2. invites'[i] \in Invite /\ invites'[i].status = "revoked"
    BY <2>1 DEF Invite, TypeOK
  <2>3. \A j \in InviteId \ {i} : invites'[j] = invites[j]
    BY <2>1 DEF TypeOK
  <2> QED
    BY <2>1, <2>2, <2>3, DirectoryAssumption DEF InviteOnce, Spent
<1>3. CASE Accepts
  <2>1. PICK i \in InviteId :
            /\ invites[i] \in Invite
            /\ invites[i].status \notin {"accepted", "revoked"}
            /\ invites' = [invites EXCEPT ![i].status = "accepted"]
            /\ issued' = [issued EXCEPT ![i] = @ + 1]
    BY <1>3 DEF Accepts, TypeOK
  <2>2. invites[i].status = "pending"
    BY <2>1 DEF Invite
  <2>3. issued[i] = 0 /\ issued'[i] = 1
    BY <2>1, <2>2 DEF Spent, TypeOK
  <2>4. invites'[i] \in Invite /\ invites'[i].status = "accepted"
    BY <2>1 DEF Invite, TypeOK
  <2>5. \A j \in InviteId \ {i} : invites'[j] = invites[j] /\ issued'[j] = issued[j]
    BY <2>1 DEF TypeOK
  <2> QED
    BY <2>3, <2>4, <2>5, DirectoryAssumption DEF InviteOnce, Spent
<1>4. CASE UNCHANGED <<invites, issued>>
  BY <1>4 DEF InviteOnce, Spent
<1> QED
  BY <1>1, <1>2, <1>3, <1>4 DEF TablesStep, tables, Saves, SignsUp, AddsKey, RevokesKey

LEMMA RowsSettle ==
    ASSUME TypeOK, TablesStep
    PROVE  /\ \A s \in Row(queries) : queries'[s] = queries[s]
           /\ \A u \in Row(users) : users'[u] = users[u]
           /\ \A k \in Row(keys) : keys[k].revoked => ~VerifyApiKey(k)'
           /\ \A i \in Row(invites) :
                invites[i].status = "revoked" => issued'[i] = issued[i]
<1>1. CASE Saves
  BY <1>1 DEF Saves, Row, TypeOK, VerifyApiKey
<1>2. CASE SignsUp
  BY <1>2 DEF SignsUp, Row, TypeOK, VerifyApiKey
<1>3. CASE AddsKey
  BY <1>3 DEF AddsKey, Row, TypeOK, VerifyApiKey
<1>4. CASE RevokesKey
  BY <1>4 DEF RevokesKey, Row, TypeOK, Key, VerifyApiKey
<1>5. CASE Invites \/ Revokes
  BY <1>5 DEF Invites, Revokes, Row, TypeOK, VerifyApiKey
<1>6. CASE Accepts
  BY <1>6 DEF Accepts, Row, TypeOK, VerifyApiKey
<1>7. CASE UNCHANGED tables
  BY <1>7 DEF tables, Row, TypeOK, VerifyApiKey
<1> QED
  BY <1>1, <1>2, <1>3, <1>4, <1>5, <1>6, <1>7 DEF TablesStep
-----------------------------------------------------------------------------
LEMMA Initially == Init => Inv
<1> SUFFICES ASSUME Init PROVE Inv
  OBVIOUS
<1>1. mode \in [Connection -> File!Mode] /\ OnlyRefusalsLock
  BY DEF Init, File!FileInit, File!Mode, OnlyRefusalsLock
<1>2. now \in 1 .. MaxTime
  BY DirectoryAssumption DEF Init
<1>3. TypeOK
  BY <1>1, <1>2 DEF Init, TypeOK
<1>4. InviteOnce /\ Spent
  BY DEF Init, InviteOnce, Spent
<1> QED
  BY <1>1, <1>3, <1>4 DEF Inv

LEMMA Invariance == Spec => []Inv
<1>1. Inv /\ [Next]_vars => Inv'
  BY Steps, TablesKeepTypes, InvitesSpent DEF Inv, TypeOK
<1> QED
  BY Initially, <1>1, PTL DEF Spec

\* Every table and connection keeps its type.
THEOREM TypeCorrect == Spec => []TypeOK
<1>1. Inv => TypeOK
  BY DEF Inv
<1> QED
  BY Invariance, <1>1, PTL

\* save_query, create_user, upsert_user and the memory store's create_memory leave
\* transactions open, each in its own circumstances; no other method does, and what
\* they leave brings another connection into one only through a refused constraint.
THEOREM LocksNeedRefusals == Spec => []OnlyRefusalsLock
<1>1. Inv => OnlyRefusalsLock
  BY DEF Inv
<1> QED
  BY Invariance, <1>1, PTL

\* accept_invite lets an invite yield one token at most.
THEOREM InvitesYieldOnce == Spec => []InviteOnce
<1>1. Inv => InviteOnce
  BY DEF Inv
<1> QED
  BY Invariance, <1>1, PTL

\* Slugs, users and revocations stay.
THEOREM RowsStaySettled == Spec => SettledRows
<1>1. Inv /\ [Next]_vars =>
        [/\ \A s \in Row(queries) : queries'[s] = queries[s]
         /\ \A u \in Row(users) : users'[u] = users[u]
         /\ \A k \in Row(keys) : keys[k].revoked => ~VerifyApiKey(k)'
         /\ \A i \in Row(invites) :
              invites[i].status = "revoked" => issued'[i] = issued[i]]_vars
  BY Steps, RowsSettle DEF Inv
<1> QED
  BY Invariance, <1>1, PTL DEF Spec, SettledRows
=============================================================================
