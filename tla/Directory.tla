----------------------------- MODULE Directory -----------------------------
(***************************************************************************)
(* Who may come in and what they have saved: OAuth sign-in, users and      *)
(* their API keys, invites, saved queries and share links, over the        *)
(* connections of SqliteFile (the memory store's is there too).            *)
(*                                                                         *)
(* A handler that writes is done, refused by a constraint, or fails for a  *)
(* locked file or a value that cannot be bound.  Between its reads and     *)
(* writes no handler lets another one in, except the OAuth callback, which *)
(* calls the provider after it has checked the state.                      *)
(***************************************************************************)
EXTENDS Integers, FiniteSets

CONSTANTS
    Tenant, Slug,
    Identity,       \* users as a provider knows them
    Provider,
    ProviderOf,     \* [Identity -> Provider]
    Email,          \* what providers report, lowercased; "" when they hide it
    KeyId, InviteId,
    None,
    MaxTime,        \* bound: the clock stops here
    MaxStateAge     \* DEFAULT_MAX_AGE_SECONDS

\* Rows of queries, api_keys, invite_tokens.
Query == [tenant : Tenant, visibility : {"public", "private"}]
Key == [user : Identity, revoked : BOOLEAN, expires : 0 .. MaxTime]
Invite == [email : Email, status : {"pending", "accepted", "revoked"}, expires : 0 .. MaxTime]

ASSUME DirectoryAssumption ==
    /\ None \notin Invite
    /\ ProviderOf \in [Identity -> Provider]
    /\ MaxTime \in Nat \ {0} /\ MaxStateAge \in Nat

VARIABLES
    mode,       \* the file's connections
    queries,    \* table queries, by slug
    users,      \* table users: the email of each identity that has a row
    keys,       \* table api_keys
    invites,    \* table invite_tokens
    issued,     \* history: how many access tokens an invite has yielded
    states,     \* OAuth state tokens handed out: [provider, ts]
    callbacks,  \* callbacks waiting for the provider
    duplicate,  \* history: a constraint refused a write since the start
    unbound,    \* history: connections that were given a value they cannot bind
                \* and have committed nothing since
    now

tables == <<queries, users, keys, invites, issued>>
history == <<duplicate, unbound>>
vars == <<mode, tables, states, callbacks, history, now>>

Connection == {"metadata", "users", "memory"}
File == INSTANCE SqliteFile

Never == 0
Row(f) == {x \in DOMAIN f : f[x] # None}

TypeOK ==
    /\ mode \in [Connection -> File!Mode]
    /\ queries \in [Slug -> Query \cup {None}]
    /\ users \in [Identity -> Email \cup {None}]
    /\ keys \in [KeyId -> Key \cup {None}]
    /\ invites \in [InviteId -> Invite \cup {None}]
    /\ issued \in [InviteId -> Nat]
    /\ states \subseteq [provider : Provider, ts : 1 .. MaxTime]
    /\ callbacks \subseteq Identity
    /\ duplicate \in BOOLEAN
    /\ unbound \subseteq Connection
    /\ now \in 1 .. MaxTime

Init ==
    /\ File!FileInit
    /\ queries = [s \in Slug |-> None]
    /\ users = [u \in Identity |-> None]
    /\ keys = [k \in KeyId |-> None]
    /\ invites = [i \in InviteId |-> None]
    /\ issued = [i \in InviteId |-> 0]
    /\ states = {}
    /\ callbacks = {}
    /\ duplicate = FALSE
    /\ unbound = {}
    /\ now = 1

\* The outcomes of a handler's write: the file is locked, a constraint refuses the
\* row, a value cannot be bound, or it goes through.
Fails(c, reads) == File!WriteBusy(c, reads) /\ UNCHANGED <<tables, history>>
Refused(c) == File!WriteRefused(c) /\ duplicate' = TRUE /\ UNCHANGED <<tables, unbound>>
Unbound(c, reads) == /\ File!WriteUnbound(c, reads)
                     /\ unbound' = unbound \cup {c}
                     /\ UNCHANGED <<tables, duplicate>>
Done(c) == File!WriteCommitted(c) /\ unbound' = unbound \ {c} /\ UNCHANGED duplicate
-----------------------------------------------------------------------------
\* Faulty...: wrong variants, before what they would replace.

FaultyInsertQuery(t, s, visibility) ==      \* INSERT OR REPLACE
    \/ Fails("metadata", FALSE)
    \/ /\ Done("metadata")
       /\ queries' = [queries EXCEPT ![s] = [tenant |-> t, visibility |-> visibility]]
       /\ UNCHANGED <<users, keys, invites, issued>>

\* save_query of the store.  The slug is made from the title and is one for all
\* tenants; when it is taken, the transaction of the INSERT is left open.
InsertQuery(t, s, visibility) ==
    \/ Fails("metadata", FALSE)
    \/ queries[s] # None /\ Refused("metadata")
    \/ /\ queries[s] = None
       /\ Done("metadata")
       /\ queries' = [queries EXCEPT ![s] = [tenant |-> t, visibility |-> visibility]]
       /\ UNCHANGED <<users, keys, invites, issued>>

\* POST /queries: 201, 409 or 500.
SaveQuery(t, s, visibility) ==
    /\ InsertQuery(t, s, visibility)
    /\ UNCHANGED <<states, callbacks, now>>
-----------------------------------------------------------------------------
\* GET /auth/{provider}: the state is signed, not stored.
InitiateOauth(p) ==
    /\ states' = states \cup {[provider |-> p, ts |-> now]}
    /\ UNCHANGED <<mode, tables, callbacks, history, now>>

\* verify_state: a state may be used again as long as it is young enough.
VerifyState(state) == now - state.ts <= MaxStateAge

\* GET /auth/{provider}/callback up to the calls of the provider.
OauthCallback(u, state) ==
    /\ VerifyState(state)
    /\ state.provider = ProviderOf[u]
    /\ callbacks' = callbacks \cup {u}
    /\ UNCHANGED <<mode, tables, states, history, now>>

\* The provider does not answer, or not well: 502.
ProviderFails(u) ==
    /\ u \in callbacks
    /\ callbacks' = callbacks \ {u}
    /\ UNCHANGED <<mode, tables, states, history, now>>

\* create_user: refuses an email that another identity has.
CreateUser(u, email) ==
    IF \E v \in Identity : users[v] = email
    THEN Refused("users")
    ELSE /\ Done("users")
         /\ users' = [users EXCEPT ![u] = email]
         /\ UNCHANGED <<queries, keys, invites, issued>>

\* upsert_user and update_user: by identity, never by email; a row that is there
\* keeps its email.  The names and pictures are what the provider sent.
UpsertUser(u, email) ==
    \/ Fails("users", TRUE)
    \/ Unbound("users", TRUE)
    \/ users[u] # None /\ Done("users") /\ UNCHANGED tables
    \/ users[u] = None /\ CreateUser(u, email)

\* The rest of the callback.  Tokens are issued whatever comes of the row.
ProvisionUser(u, email) ==
    /\ u \in callbacks
    /\ callbacks' = callbacks \ {u}
    /\ UpsertUser(u, email)
    /\ UNCHANGED <<states, now>>

\* _require_user_auth and _get_user_from_auth: whoever signed in has a token, but
\* not everybody a row (404).
Known(u) == users[u] # None

InsertKey(u, k, expires) ==
    /\ keys[k] = None
    /\ \/ Fails("users", TRUE)
       \/ /\ Done("users")
          /\ keys' = [keys EXCEPT ![k] = [user |-> u, revoked |-> FALSE, expires |-> expires]]
          /\ UNCHANGED <<queries, users, invites, issued>>

\* POST /users/me/api-keys.
CreateApiKey(u, k, expires) ==
    /\ Known(u)
    /\ InsertKey(u, k, expires)
    /\ UNCHANGED <<states, callbacks, now>>

MarkKeyRevoked(u, k) ==
    /\ keys[k] # None /\ keys[k].user = u
    /\ \/ Fails("users", TRUE)
       \/ /\ Done("users")
          /\ keys' = [keys EXCEPT ![k].revoked = TRUE]
          /\ UNCHANGED <<queries, users, invites, issued>>

\* DELETE /users/me/api-keys/{id}.
RevokeApiKey(u, k) ==
    /\ Known(u)
    /\ MarkKeyRevoked(u, k)
    /\ UNCHANGED <<states, callbacks, now>>

\* verify_api_key.
VerifyApiKey(k) ==
    /\ keys[k] # None
    /\ ~keys[k].revoked
    /\ keys[k].expires = Never \/ now <= keys[k].expires
-----------------------------------------------------------------------------
InsertInvite(i, email, expires) ==
    /\ invites[i] = None
    /\ \/ Fails("metadata", FALSE)
       \/ /\ Done("metadata")
          /\ invites' = [invites EXCEPT ![i] =
                [email |-> email, status |-> "pending", expires |-> expires]]
          /\ UNCHANGED <<queries, users, keys, issued>>

\* The admin's form; POST /invites does the same.
CreateInvite(i, email, expires) ==
    /\ InsertInvite(i, email, expires)
    /\ UNCHANGED <<states, callbacks, now>>

FaultyMarkRevoked(i) ==         \* without the commit
    /\ invites[i] # None
    /\ \/ Fails("metadata", FALSE)
       \/ /\ File!WriteRefused("metadata")
          /\ invites' = [invites EXCEPT ![i].status = "revoked"]
          /\ UNCHANGED <<queries, users, keys, issued, history>>

\* revoke_invite of the store: whatever the status, "accepted" included.
MarkRevoked(i) ==
    /\ invites[i] # None
    /\ \/ Fails("metadata", FALSE)
       \/ /\ Done("metadata")
          /\ invites' = [invites EXCEPT ![i].status = "revoked"]
          /\ UNCHANGED <<queries, users, keys, issued>>

\* POST /admin/invites/{token}/revoke; DELETE /invites/{token} does the same.
RevokeInvite(i) ==
    /\ MarkRevoked(i)
    /\ UNCHANGED <<states, callbacks, now>>

FaultyAcceptable(i, email) ==       \* only a second acceptance is refused
    /\ now <= invites[i].expires
    /\ invites[i].status # "accepted"
    /\ invites[i].email = email

\* The checks of accept_invite, in their order.
Acceptable(i, email) ==
    /\ now <= invites[i].expires
    /\ invites[i].status # "accepted"
    /\ invites[i].status # "revoked"
    /\ invites[i].email = email

\* POST /invites/{token}/accept: the token is issued after the commit.
AcceptInvite(i, email) ==
    /\ invites[i] # None
    /\ Acceptable(i, email)
    /\ \/ Fails("metadata", TRUE)
       \/ /\ Done("metadata")
          /\ invites' = [invites EXCEPT ![i].status = "accepted"]
          /\ issued' = [issued EXCEPT ![i] = @ + 1]
          /\ UNCHANGED <<queries, users, keys>>
    /\ UNCHANGED <<states, callbacks, now>>
-----------------------------------------------------------------------------
\* create_memory and update_memory of the memory store, for the connection's sake.
\* The unique index has blank keys too, which the upsert does not look up (module
\* AgentMemory); the content is any JSON.
WriteMemory ==
    /\ \/ \E reads \in BOOLEAN : Fails("memory", reads) \/ Unbound("memory", reads)
       \/ Refused("memory")
       \/ Done("memory") /\ UNCHANGED tables
    /\ UNCHANGED <<states, callbacks, now>>

\* Everything else that goes through the connections: session rows, mounts,
\* history; grants, the log of memories and, every minute, their cleanup.
OtherWrite(c) ==
    /\ \/ \E reads \in BOOLEAN : Fails(c, reads)
       \/ Done(c) /\ UNCHANGED tables
    /\ UNCHANGED <<states, callbacks, now>>

OtherRead(c) ==
    /\ File!Read(c)
    /\ UNCHANGED <<tables, states, callbacks, history, now>>

\* The process ends: open transactions are undone, and callbacks forgotten.
Restart ==
    /\ mode' = [c \in Connection |-> "idle"]
    /\ callbacks' = {}
    /\ duplicate' = FALSE
    /\ unbound' = {}
    /\ UNCHANGED <<tables, states, now>>

Tick ==
    /\ now < MaxTime
    /\ now' = now + 1
    /\ UNCHANGED <<mode, tables, states, callbacks, history>>

Next ==
    \/ \E t \in Tenant, s \in Slug, v \in {"public", "private"} : SaveQuery(t, s, v)
    \/ \E p \in Provider : InitiateOauth(p)
    \/ \E u \in Identity :
        \/ \E state \in states : OauthCallback(u, state)
        \/ ProviderFails(u)
        \/ \E email \in Email : ProvisionUser(u, email)
        \/ \E k \in KeyId :
            \/ \E expires \in {Never, 1} : CreateApiKey(u, k, expires)
            \/ RevokeApiKey(u, k)
    \/ \E i \in InviteId :
        \/ \E email \in Email : CreateInvite(i, email, 1) \/ AcceptInvite(i, email)
        \/ RevokeInvite(i)
    \/ WriteMemory
    \/ \E c \in Connection : OtherWrite(c) \/ OtherRead(c)
    \/ Restart
    \/ Tick

Spec == Init /\ [][Next]_vars
-----------------------------------------------------------------------------
\* A connection keeps the file's lock only after some constraint refused a row (a
\* slug, an email, a memory's blank key), and is in the middle of a transaction,
\* its next write bound to fail once its snapshot is old, only after that or after
\* a value it could not bind.  Locked files and retries bring no other connection
\* there, and every write that goes through ends what was open before it.
OnlyRefusalsLock ==
    \A c \in Connection :
        /\ mode[c] = "holding" => duplicate
        /\ mode[c] # "idle" => duplicate \/ c \in unbound

\* Whatever is refused, fails or restarts in between, and in whichever order an
\* invite is accepted, revoked and accepted again: it yields one token at most.
InviteOnce == \A i \in InviteId : issued[i] <= 1

\* What is settled stays: a slug belongs to the tenant that saved it first, an
\* identity keeps its row and email, a revoked key or invite works no more.
SettledRows ==
    [][/\ \A s \in Row(queries) : queries'[s] = queries[s]
       /\ \A u \in Row(users) : users'[u] = users[u]
       /\ \A k \in Row(keys) : keys[k].revoked => ~VerifyApiKey(k)'
       /\ \A i \in Row(invites) :
            invites[i].status = "revoked" => issued'[i] = issued[i]]_vars
=============================================================================
