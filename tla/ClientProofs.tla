----------------------------- MODULE ClientProofs -----------------------------
(***************************************************************************)
(* Proofs about Client, for any secrets, configurations and addresses, any *)
(* number of retries and all times.                                        *)
(*                                                                         *)
(* StaleOnlyWhenSlow is about the moment at which an attempt is served; it *)
(* holds because of what was so when the first attempt of its round began, *)
(* after a look at the token's age or with a new token (Budget), which the *)
(* attempts and sleeps since then must not forget.                         *)
(***************************************************************************)
EXTENDS Client, TLAPS

Token == [type : {"access", "refresh"}, secret : Secret, exp : Nat, fp : Address \cup {None}]
Config == [key : BOOLEAN, file : FileContent \cup {None}, v2 : Secret \cup {None},
           v1 : Secret \cup {None}, base : Secret \cup {None}]
Call == [at : {"idle", "login", "refresh", "post", "backoff"}, attempt : 0 .. MaxRetries,
         again : BOOLEAN, since : 0 .. MaxTime,
         reply : [status : {0, 200, 400, 401, 404, 500}, access : Nat \cup {None},
                  refresh : Nat \cup {None}],
         delivered : Nat]

Types ==
    /\ setup \in Config
    /\ setup.file = None => setup \in Setup
    /\ tokens \in Seq(Token)
    /\ blocklist \subseteq Jti
    /\ now \in 0 .. MaxTime
    /\ address \in Address
    /\ access \in Jti \cup {None} /\ refresh \in Jti \cup {None}
    /\ acquired \in 0 .. now
    /\ call \in Call

\* What a client has where, and what a reply brings.
Sound ==
    /\ call.at = "login" => access = None
    /\ call.at \in {"refresh", "post", "backoff"} => access # None
    /\ call.at = "backoff" => call.attempt # 0
    /\ call.at \in {"login", "refresh"} /\ call.reply.status = 200 =>
            /\ call.reply.access \in Jti
            /\ call.reply.access # None
    /\ call.at = "login" /\ call.reply.status = 200 => call.reply.refresh \in Jti

\* When the attempts of a round began, the slack was left, by the client's clock.
Budget == call.at \in {"post", "backoff"} => call.since - acquired <= Expiry - Slack

\* One delivery per attempt at most, and none by the attempt that a 401 ended.
Counted ==
    LET before == IF call.again THEN MaxRetries ELSE 0 IN
    /\ call.at \in {"idle", "login"} => call.delivered = 0
    /\ call.at = "refresh" => call.delivered <= before
    /\ call.at = "backoff" => call.delivered <= before + call.attempt
    /\ call.at = "post" => call.delivered <= before + call.attempt +
            (IF call.reply.status \in {0, 401} THEN 0 ELSE 1)

Inv == Types /\ Sound /\ Budget /\ Counted
-----------------------------------------------------------------------------
\* A secret to sign with, or None.
LEMMA SigningType ==
  ASSUME Types
  PROVE  SigningSecret \in Secret \cup {None}
  BY TokensAssumption DEF Types, Config, SigningSecret

\* Adding one token or two leaves those before where they are.
LEMMA Added ==
  ASSUME NEW seq \in Seq(Token), NEW a \in Token, NEW b \in Token
  PROVE  /\ Append(seq, a) \in Seq(Token) /\ seq \o <<a, b>> \in Seq(Token)
         /\ DOMAIN seq = 1 .. Len(seq) /\ Len(seq) \in Nat
         /\ DOMAIN Append(seq, a) = 1 .. Len(seq) + 1
         /\ DOMAIN (seq \o <<a, b>>) = 1 .. Len(seq) + 2
         /\ \A k \in 1 .. Len(seq) : Append(seq, a)[k] = seq[k] /\ (seq \o <<a, b>>)[k] = seq[k]
  OBVIOUS

\* The tokens there are stay what they are.
Kept ==
    /\ tokens' \in Seq(Token)
    /\ Jti \subseteq DOMAIN tokens'
    /\ \A k \in Jti : tokens'[k] = tokens[k]

\* What POST /auth/token adds when it succeeds.
LEMMA Issued ==
  ASSUME Types, IssueToken(address), IssueStatus = 200
  PROVE  /\ Kept
         /\ {Len(tokens) + 1, Len(tokens) + 2} \subseteq DOMAIN tokens'
         /\ Len(tokens) \in Nat
  <1>1. SigningSecret \in Secret
    BY SigningType DEF IssueStatus
  <1>2. AccessToken \in Token /\ RefreshToken(address) \in Token
    BY <1>1, TokensAssumption DEF Types, AccessToken, RefreshToken, Token
  <1>3. tokens' = tokens \o <<AccessToken, RefreshToken(address)>>
    BY DEF IssueToken
  <1>4. tokens \in Seq(Token)
    BY DEF Types
  <1> QED BY <1>2, <1>3, <1>4, Added DEF Kept, Jti

\* What POST /auth/refresh adds when it succeeds.
LEMMA Refreshed ==
  ASSUME Types, RefreshAccess(refresh, address), VerifyRefresh(refresh, address) = 200
  PROVE  /\ Kept
         /\ Len(tokens) + 1 \in DOMAIN tokens'
         /\ Len(tokens) \in Nat
  <1>1. SigningSecret \in Secret
    BY SigningType DEF VerifyRefresh
  <1>2. AccessToken \in Token
    BY <1>1, TokensAssumption DEF Types, AccessToken, Token
  <1>3. tokens' = Append(tokens, AccessToken)
    BY DEF RefreshAccess
  <1>4. tokens \in Seq(Token)
    BY DEF Types
  <1> QED BY <1>2, <1>3, <1>4, Added DEF Kept, Jti

\* Statuses, and the tokens of a reply.
LEMMA Statuses ==
  /\ IssueStatus \in {200, 401, 500}
  /\ VerifyAccess(access) \in {200, 401, 500}
  /\ VerifyRefresh(refresh, address) \in {200, 401, 500}
  BY DEF IssueStatus, VerifyAccess, VerifyRefresh

\* A reply, or a delivery, changes nothing else of a call.
LEMMA Replied ==
  ASSUME NEW c \in Call, NEW status \in {200, 400, 401, 404, 500},
         NEW a \in Nat \cup {None}, NEW r \in Nat \cup {None},
         NEW d, d = [c EXCEPT !.reply = [status |-> status, access |-> a, refresh |-> r]]
  PROVE  /\ d \in Call
         /\ d.reply.status = status /\ d.reply.access = a /\ d.reply.refresh = r
         /\ d.at = c.at /\ d.attempt = c.attempt /\ d.again = c.again
         /\ d.since = c.since /\ d.delivered = c.delivered
  BY DEF Call

LEMMA Delivered ==
  ASSUME NEW c \in Call, NEW n \in Nat, NEW d, d = [c EXCEPT !.delivered = n]
  PROVE  /\ d \in Call /\ d.delivered = n /\ d.reply = c.reply
         /\ d.at = c.at /\ d.attempt = c.attempt /\ d.again = c.again /\ d.since = c.since
  BY DEF Call

\* What a request starts from, when it is sent.
LEMMA Sent ==
  ASSUME Types, NEW at \in {"login", "refresh", "post", "backoff"},
         NEW attempt \in 0 .. MaxRetries, NEW again \in BOOLEAN, Send(at, attempt, again)
  PROVE  /\ call' \in Call
         /\ call'.reply = NoReply /\ call'.reply.status = 0
         /\ call'.at = at /\ call'.attempt = attempt /\ call'.again = again
         /\ call'.since = (IF attempt = 0 THEN now ELSE call.since)
         /\ call'.delivered = call.delivered
  <1>1. call' = [at |-> at, attempt |-> attempt, again |-> again,
                 since |-> IF attempt = 0 THEN now ELSE call.since,
                 reply |-> NoReply, delivered |-> call.delivered]
    BY DEF Send
  <1>2. NoReply \in [status : {0, 200, 400, 401, 404, 500}, access : Nat \cup {None},
                     refresh : Nat \cup {None}] /\ NoReply.status = 0
    BY DEF NoReply
  <1>3. call.delivered \in Nat /\ now \in 0 .. MaxTime /\ call.since \in 0 .. MaxTime
    BY DEF Types, Call
  <1> QED BY <1>1, <1>2, <1>3 DEF Call
-----------------------------------------------------------------------------
\* The types, that clients have tokens when they use them, and the rest of the
\* invariant, action by action.
LEMMA Extended ==
  ASSUME Types, [Next]_vars
  PROVE  Kept
  <1> USE DEF Types, Jti
  <1>0. UNCHANGED tokens => Kept
    BY DEF Kept
  <1>1. CASE ServeLogin
    BY <1>0, <1>1, Issued DEF ServeLogin, IssueToken
  <1>2. CASE ServeRefresh
    BY <1>0, <1>2, Refreshed DEF ServeRefresh, RefreshAccess
  <1>3. CASE Query \/ ServePost \/ TakeTokens \/ TakeReply \/ WakeUp \/ NoConnection
             \/ ConnectionLost
    BY <1>0, <1>3 DEF Query, ServePost, TakeTokens, TakeReply, WakeUp, NoConnection,
                      ConnectionLost, tokenVars
  <1>4. CASE \E k \in {access, refresh} \ {None} : Revoke(k)
    BY <1>0, <1>4 DEF Revoke, RevokeToken
  <1>5. CASE \E content \in FileContent : Rotate(content)
    BY <1>0, <1>5 DEF Rotate, RotateFile
  <1>6. CASE \E s \in Setup : Restart(s)
    BY <1>0, <1>6 DEF Restart, RestartServer
  <1>7. CASE (\E a \in Address : Roam(a)) \/ Tick \/ UNCHANGED vars
    BY <1>0, <1>7 DEF Roam, Tick, vars, tokenVars
  <1> QED BY <1>1, <1>2, <1>3, <1>4, <1>5, <1>6, <1>7 DEF Next, Progress

\* Only a restart forgets revocations.
LEMMA Environment ==
  ASSUME Types, [Next]_vars
  PROVE  /\ setup' \in Config /\ (setup'.file = None => setup' \in Setup)
         /\ blocklist' \subseteq DOMAIN tokens'
         /\ now' \in 0 .. MaxTime /\ now <= now'
         /\ address' \in Address
         /\ blocklist \subseteq blocklist' \/ blocklist' = {}
  <1> USE DEF Types
  <1>0. now \in Nat /\ MaxTime \in Nat /\ Jti \subseteq DOMAIN tokens'
    BY Extended, TokensAssumption DEF Kept
  <1>1. CASE Query \/ Progress
    <2>1. UNCHANGED <<setup, blocklist, now, address>>
      <3>1. CASE ServeLogin \/ ServeRefresh
        BY <3>1 DEF ServeLogin, IssueToken, ServeRefresh, RefreshAccess
      <3>2. CASE Query \/ ServePost \/ TakeTokens \/ TakeReply \/ WakeUp \/ NoConnection
                 \/ ConnectionLost
        BY <3>2 DEF Query, ServePost, TakeTokens, TakeReply, WakeUp, NoConnection,
                    ConnectionLost, tokenVars
      <3> QED BY <1>1, <3>1, <3>2 DEF Progress
    <2> QED BY <1>0, <2>1
  <1>2. CASE \E k \in {access, refresh} \ {None} : Revoke(k)
    BY <1>0, <1>2 DEF Revoke, RevokeToken, clientVars
  <1>3. ASSUME NEW content \in FileContent, Rotate(content)
        PROVE  /\ setup' \in Config /\ setup'.file = content
               /\ UNCHANGED <<tokens, blocklist, now, address>>
    BY <1>3 DEF Rotate, RotateFile, clientVars, Config
  <1>4. CASE \E content \in FileContent : Rotate(content)
    BY <1>0, <1>3, <1>4, TokensAssumption
  <1>5. CASE \E s \in Setup : Restart(s)
    BY <1>0, <1>5, TokensAssumption DEF Restart, RestartServer, Config
  <1>6. CASE \E a \in Address : Roam(a)
    BY <1>0, <1>6 DEF Roam, tokenVars
  <1>7. CASE Tick \/ UNCHANGED vars
    BY <1>0, <1>7 DEF Tick, vars, tokenVars, clientVars
  <1> QED BY <1>1, <1>2, <1>4, <1>5, <1>6, <1>7 DEF Next
-----------------------------------------------------------------------------
LEMMA Slacks ==
  /\ Slack \in Nat /\ Slack <= Threshold /\ Slack <= Expiry
  /\ Slack = Threshold \/ Slack = Expiry
  BY TokensAssumption, ClientAssumption DEF Slack

\* What a call is, and that only its own steps are left to look at.
LEMMA Fields ==
  ASSUME Types
  PROVE  /\ call.attempt \in 0 .. MaxRetries /\ call.again \in BOOLEAN
         /\ call.since \in Nat /\ call.delivered \in Nat
         /\ call.at \in {"idle", "login", "refresh", "post", "backoff"}
         /\ call.reply.status \in {0, 200, 400, 401, 404, 500}
         /\ call.reply.access \in Nat \cup {None} /\ call.reply.refresh \in Nat \cup {None}
         /\ now \in Nat /\ acquired \in Nat /\ acquired <= now
         /\ MaxRetries \in Nat /\ Expiry \in Nat /\ MaxTime \in Nat /\ Threshold \in Nat
  BY TokensAssumption, ClientAssumption DEF Types, Call

LEMMA IdleCall ==
  /\ Idle.at = "idle" /\ Idle.reply.status = 0 /\ Idle.delivered = 0 /\ Idle.since = 0
  /\ Idle \in Call
  BY TokensAssumption, ClientAssumption DEF Idle, NoReply, Call

\* A query ends, or its call stays as it is.
LEMMA Ending ==
  ASSUME Inv, [Next]_vars, call' = Idle, UNCHANGED <<access, refresh, acquired>>
  PROVE  Inv'
  <1>1. Types'
    BY Extended, Environment, IdleCall, TokensAssumption DEF Inv, Types, Kept, Jti
  <1>2. Sound' /\ Budget' /\ Counted'
    BY <1>1, IdleCall DEF Sound, Budget, Counted, Types
  <1> QED BY <1>1, <1>2 DEF Inv

LEMMA Staying ==
  ASSUME Inv, [Next]_vars, UNCHANGED <<access, refresh, acquired, call>>
  PROVE  Inv'
  <1>1. Types'
    BY Extended, Environment, TokensAssumption DEF Inv, Types, Kept, Jti
  <1>2. Sound'
    BY Extended DEF Inv, Sound, Kept, Jti
  <1>3. Budget' /\ Counted'
    BY DEF Inv, Budget, Counted
  <1> QED BY <1>1, <1>2, <1>3 DEF Inv

\* A request or a sleep begins; tokens and clock stand still.
LEMMA Sending ==
  ASSUME Inv, [Next]_vars, UNCHANGED <<tokens, now>>,
         NEW at \in {"login", "refresh", "post", "backoff"},
         NEW attempt \in 0 .. MaxRetries, NEW again \in BOOLEAN, Send(at, attempt, again),
         access' \in Jti \cup {None}, refresh' \in Jti \cup {None}, acquired' \in 0 .. now,
         access' = None <=> at = "login", at = "backoff" => attempt # 0
  PROVE  Types' /\ Sound'
  <1>1. Types
    BY DEF Inv
  <1>2. Types'
    BY <1>1, Sent, Environment DEF Types, Jti
  <1>3. Sound'
    BY <1>1, Sent DEF Sound
  <1> QED BY <1>2, <1>3

LEMMA Querying ==
  ASSUME Inv, Query
  PROVE  Inv'
  <1>1. PICK first \in {"login", "refresh", "post", "backoff"} :
            /\ call.at = "idle" /\ Send(first, 0, FALSE) /\ [Next]_vars
            /\ UNCHANGED <<tokens, now, access, refresh, acquired>>
            /\ access = None <=> first = "login"
            /\ first # "backoff"
            /\ first = "post" => ~IsNearExpiry
    BY DEF Query, tokenVars, Next
  <1>2. Types /\ 0 \in 0 .. MaxRetries /\ FALSE \in BOOLEAN
    BY Fields DEF Inv
  <1>3. /\ call'.reply = NoReply /\ call'.reply.status = 0
        /\ call'.at = first /\ call'.attempt = 0 /\ call'.again = FALSE
        /\ call'.since = now /\ call'.delivered = call.delivered
    BY <1>1, <1>2, Sent
  <1>4. Types' /\ Sound'
    <2>1. access' = None <=> first = "login"
      BY <1>1
    <2>2. access' \in Jti \cup {None} /\ refresh' \in Jti \cup {None} /\ acquired' \in 0 .. now
      BY <1>1, <1>2 DEF Types
    <2> QED BY <1>1, <1>2, <2>1, <2>2, Sending
  <1>5. Budget'
    <2>1. CASE first = "post"
      <3>1. Expiry - (now - acquired) >= Threshold
        BY <1>1, <1>2, <2>1, Fields DEF IsNearExpiry
      <3>2. now - acquired <= Expiry - Slack
        BY <1>2, <3>1, Fields, Slacks
      <3> QED BY <1>1, <1>3, <2>1, <3>2 DEF Budget, Slack
    <2> QED BY <1>1, <1>3, <2>1 DEF Budget
  <1>6. Counted'
    <2>1. call.delivered = 0
      BY <1>1 DEF Inv, Counted
    <2> QED BY <1>2, <1>3, <2>1, Fields DEF Counted
  <1> QED BY <1>4, <1>5, <1>6 DEF Inv

\* A served request: the rest of the call stays as it is.
LEMMA Serving ==
  ASSUME Inv, [Next]_vars, now' = now, UNCHANGED <<access, refresh, acquired>>,
         InFlight(call.at), call' \in Call,
         call'.at = call.at, call'.attempt = call.attempt, call'.since = call.since
  PROVE  Types' /\ Budget' /\ call.reply.status = 0
  <1>1. Types'
    BY Extended, Environment DEF Inv, Types, Kept, Jti
  <1>2. Budget'
    BY DEF Inv, Budget
  <1> QED BY <1>1, <1>2 DEF InFlight, NoReply

LEMMA LoginServed ==
  ASSUME Inv, ServeLogin
  PROVE  Inv'
  <1>1. /\ call.at = "login" /\ InFlight(call.at) /\ IssueToken(address) /\ [Next]_vars
        /\ UNCHANGED <<now, access, refresh, acquired>>
    BY DEF ServeLogin, IssueToken, InFlight, Next, Progress
  <1>2. Types /\ call \in Call
    BY DEF Inv, Types
  <1>3. /\ call' \in Call
        /\ call'.at = call.at /\ call'.attempt = call.attempt /\ call'.again = call.again
        /\ call'.since = call.since /\ call'.delivered = call.delivered
        /\ call'.reply.status # 0
        /\ call'.reply.status = 200 =>
                /\ call'.reply.access \in DOMAIN tokens' /\ call'.reply.access # None
                /\ call'.reply.refresh \in DOMAIN tokens'
    <2>1. CASE IssueStatus = 200
      <3>1. call' = [call EXCEPT !.reply = [status |-> 200, access |-> Len(tokens) + 1,
                                            refresh |-> Len(tokens) + 2]]
        BY <2>1 DEF ServeLogin, Reply
      <3>2. Len(tokens) + 1 \in Nat /\ Len(tokens) + 2 \in Nat
        BY <1>1, <1>2, <2>1, Issued
      <3>3. /\ call' \in Call
            /\ call'.reply.status = 200
            /\ call'.reply.access = Len(tokens) + 1 /\ call'.reply.refresh = Len(tokens) + 2
            /\ call'.at = call.at /\ call'.attempt = call.attempt /\ call'.again = call.again
            /\ call'.since = call.since /\ call'.delivered = call.delivered
        BY <1>2, <3>1, <3>2, Replied
      <3> QED BY <1>1, <1>2, <2>1, <3>2, <3>3, Issued, ClientAssumption
    <2>2. CASE IssueStatus # 200
      <3>1. call' = [call EXCEPT !.reply = [status |-> IssueStatus, access |-> None,
                                            refresh |-> None]]
        BY <2>2 DEF ServeLogin, Reply
      <3>2. IssueStatus \in {401, 500}
        BY <2>2, Statuses
      <3> QED BY <1>2, <3>1, <3>2, Replied
    <2> QED BY <2>1, <2>2
  <1>4. Sound'
    BY <1>1, <1>2, <1>3, Fields DEF Inv, Sound, Jti
  <1>5. Counted'
    BY <1>1, <1>3 DEF Inv, Counted
  <1> QED BY <1>1, <1>3, <1>4, <1>5, Serving DEF Inv

LEMMA RefreshServed ==
  ASSUME Inv, ServeRefresh
  PROVE  Inv'
  <1> DEFINE status == VerifyRefresh(refresh, address)
  <1>1. /\ call.at = "refresh" /\ InFlight(call.at) /\ RefreshAccess(refresh, address)
        /\ [Next]_vars /\ UNCHANGED <<now, access, refresh, acquired>>
    BY DEF ServeRefresh, RefreshAccess, InFlight, Next, Progress
  <1>2. Types /\ call \in Call
    BY DEF Inv, Types
  <1>3. /\ call' \in Call
        /\ call'.at = call.at /\ call'.attempt = call.attempt /\ call'.again = call.again
        /\ call'.since = call.since /\ call'.delivered = call.delivered
        /\ call'.reply.status = 200 =>
                /\ call'.reply.access \in DOMAIN tokens' /\ call'.reply.access # None
    <2>1. CASE status = 200
      <3>1. call' = [call EXCEPT !.reply = [status |-> 200, access |-> Len(tokens) + 1,
                                            refresh |-> None]]
        BY <2>1 DEF ServeRefresh, Reply
      <3>2. Len(tokens) + 1 \in Nat
        BY <1>1, <1>2, <2>1, Refreshed
      <3>3. /\ call' \in Call
            /\ call'.reply.status = 200 /\ call'.reply.access = Len(tokens) + 1
            /\ call'.at = call.at /\ call'.attempt = call.attempt /\ call'.again = call.again
            /\ call'.since = call.since /\ call'.delivered = call.delivered
        BY <1>2, <3>1, <3>2, Replied
      <3> QED BY <1>1, <1>2, <2>1, <3>2, <3>3, Refreshed, ClientAssumption
    <2>2. CASE status # 200
      <3>1. call' = [call EXCEPT !.reply = [status |-> status, access |-> None,
                                            refresh |-> None]]
        BY <2>2 DEF ServeRefresh, Reply
      <3>2. status \in {401, 500}
        BY <2>2, Statuses
      <3> HIDE DEF status
      <3>3. call' \in Call
        BY <1>2, <3>1, <3>2 DEF Call
      <3> QED BY <1>2, <3>1, <3>2, <3>3 DEF Call
    <2> QED BY <2>1, <2>2
  <1>4. Sound'
    BY <1>1, <1>2, <1>3, Fields DEF Inv, Sound, Jti
  <1>5. Counted'
    BY <1>1, <1>3 DEF Inv, Counted
  <1> QED BY <1>1, <1>3, <1>4, <1>5, Serving DEF Inv

LEMMA PostServed ==
  ASSUME Inv, ServePost
  PROVE  Inv'
  <1>1. /\ call.at = "post" /\ InFlight(call.at) /\ [Next]_vars
        /\ UNCHANGED <<tokens, now, access, refresh, acquired>>
    BY DEF ServePost, InFlight, Next, Progress, tokenVars
  <1>2. Types /\ call \in Call
    BY DEF Inv, Types
  <1>3. /\ call' \in Call
        /\ call'.at = call.at /\ call'.attempt = call.attempt /\ call'.again = call.again
        /\ call'.since = call.since
        /\ \/ call'.delivered = call.delivered
           \/ /\ call'.delivered = call.delivered + 1
              /\ call'.reply.status \in {200, 400, 404, 500}
    <2>1. CASE VerifyAccess(access) = 200
      <3>1. PICK status \in {200, 400, 404, 500} :
                call' = [call EXCEPT !.reply = [NoReply EXCEPT !.status = status],
                                     !.delivered = @ + 1]
        BY <2>1 DEF ServePost
      <3>2. [NoReply EXCEPT !.status = status] =
                [status |-> status, access |-> None, refresh |-> None]
        BY DEF NoReply
      <3> DEFINE reply == [status |-> status, access |-> None, refresh |-> None]
      <3>3. PICK d : d = [call EXCEPT !.reply = reply]
        OBVIOUS
      <3>4. PICK e : e = [d EXCEPT !.delivered = call.delivered + 1]
        OBVIOUS
      <3>5. call' = e
        BY <3>1, <3>2, <3>3, <3>4
      <3>6. /\ d \in Call /\ d.reply.status = status
            /\ d.at = call.at /\ d.attempt = call.attempt /\ d.again = call.again
            /\ d.since = call.since
        BY <1>2, <3>3 DEF Call
      <3>7. call.delivered + 1 \in Nat
        BY <1>2, Fields
      <3>8. /\ e \in Call /\ e.delivered = call.delivered + 1 /\ e.reply = d.reply
            /\ e.at = d.at /\ e.attempt = d.attempt /\ e.again = d.again /\ e.since = d.since
        BY <3>4, <3>6, <3>7, Delivered
      <3> QED BY <3>5, <3>6, <3>8
    <2>2. CASE VerifyAccess(access) # 200
      <3>1. call' = [call EXCEPT !.reply = [status |-> VerifyAccess(access), access |-> None,
                                            refresh |-> None]]
        BY <2>2 DEF ServePost, Reply
      <3>2. VerifyAccess(access) \in {401, 500}
        BY <2>2, Statuses
      <3> QED BY <1>2, <3>1, <3>2, Replied
    <2> QED BY <2>1, <2>2
  <1>4. Types' /\ Budget' /\ call.reply.status = 0
    BY <1>1, <1>3, Serving
  <1>5. Sound'
    BY <1>1, <1>3 DEF Inv, Sound
  <1>6. Counted'
    <2> DEFINE before == IF call.again THEN MaxRetries ELSE 0
    <2>1. call.delivered <= before + call.attempt
      BY <1>1, <1>2, <1>4, Fields DEF Inv, Counted
    <2>2. call'.delivered <= before + call.attempt +
              (IF call'.reply.status \in {0, 401} THEN 0 ELSE 1)
      BY <1>2, <1>3, <2>1, Fields
    <2> QED BY <1>1, <1>3, <2>2 DEF Counted
  <1> QED BY <1>4, <1>5, <1>6 DEF Inv

\* The clock of a token starts when its reply arrives.
LEMMA Taking ==
  ASSUME Inv, TakeTokens
  PROVE  Inv'
  <1>1. /\ call.at \in {"login", "refresh"} /\ [Next]_vars
        /\ UNCHANGED <<tokens, now>>
    BY DEF TakeTokens, Arrived, Next, Progress, tokenVars
  <1>2. Types /\ 0 \in 0 .. MaxRetries /\ call.again \in BOOLEAN
    BY Fields DEF Inv
  <1>3. CASE call.reply.status # 200
    BY <1>1, <1>3, Ending DEF TakeTokens, Return
  <1>4. CASE call.reply.status = 200
    <2>1. /\ access' = call.reply.access /\ acquired' = now
          /\ refresh' = IF call.at = "login" THEN call.reply.refresh ELSE refresh
          /\ Send("post", 0, call.again)
      BY <1>4 DEF TakeTokens
    <2>2. /\ access' \in Jti /\ access' # None
          /\ refresh' \in Jti \cup {None} /\ acquired' \in 0 .. now
      BY <1>1, <1>2, <1>4, <2>1, Fields DEF Inv, Sound, Types
    <2>3. /\ call'.reply.status = 0
          /\ call'.at = "post" /\ call'.attempt = 0 /\ call'.again = call.again
          /\ call'.since = now /\ call'.delivered = call.delivered
      BY <1>2, <2>1, Sent
    <2>4. Types' /\ Sound'
      BY <1>1, <1>2, <2>1, <2>2, Sending
    <2>5. Budget'
      <3>1. now - now <= Expiry - Slack
        BY <1>2, Fields, Slacks
      <3> QED BY <2>1, <2>3, <3>1 DEF Budget, Slack
    <2>6. Counted'
      BY <1>1, <1>2, <2>3, Fields DEF Inv, Counted
    <2> QED BY <2>4, <2>5, <2>6 DEF Inv
  <1> QED BY <1>3, <1>4

\* The next attempt is one more, and its sleep begins.
LEMMA Retrying ==
  ASSUME Inv, [Next]_vars, UNCHANGED <<tokens, now, access, refresh, acquired>>,
         call.at = "post", call.reply.status \in {0, 500}, Retry
  PROVE  Inv'
  <1>1. Types
    BY DEF Inv
  <1>2. CASE ~(call.attempt < MaxRetries)
    BY <1>2, Ending DEF Retry, Return
  <1>3. CASE call.attempt < MaxRetries
    <2>1. PICK attempt \in 0 .. MaxRetries :
              attempt = call.attempt + 1 /\ Send("backoff", attempt, call.again)
      BY <1>1, <1>3, Fields DEF Retry
    <2>2. /\ call'.reply.status = 0
          /\ call'.at = "backoff" /\ call'.attempt = attempt /\ call'.again = call.again
          /\ call'.since = call.since /\ call'.delivered = call.delivered
      BY <1>1, <2>1, Sent, Fields
    <2>3. Types' /\ Sound'
      <3>1. access' = None <=> "backoff" = "login"
        BY DEF Inv, Sound
      <3>2. access' \in Jti \cup {None} /\ refresh' \in Jti \cup {None} /\ acquired' \in 0 .. now
        BY <1>1 DEF Types
      <3>3. call.again \in BOOLEAN /\ attempt # 0
        BY <1>1, <2>1, Fields
      <3> QED BY <2>1, <3>1, <3>2, <3>3, Sending
    <2>4. Budget'
      BY <2>2 DEF Inv, Budget, Slack
    <2>5. Counted'
      <3> DEFINE before == IF call.again THEN MaxRetries ELSE 0
      <3>1. call.delivered <= before + call.attempt + 1
        BY <1>1, Fields DEF Inv, Counted
      <3> QED BY <1>1, <2>1, <2>2, <3>1, Fields DEF Counted
    <2> QED BY <2>3, <2>4, <2>5 DEF Inv
  <1> QED BY <1>2, <1>3

\* The second round has as many attempts as the first.
LEMMA Refusing ==
  ASSUME Inv, [Next]_vars, UNCHANGED <<tokens, now, access, refresh, acquired>>,
         call.at = "post", call.reply.status = 401, ~call.again, Send("refresh", 0, TRUE)
  PROVE  Inv'
  <1>1. Types /\ 0 \in 0 .. MaxRetries /\ TRUE \in BOOLEAN
    BY Fields DEF Inv
  <1>2. /\ call'.reply.status = 0
        /\ call'.at = "refresh" /\ call'.attempt = 0 /\ call'.again = TRUE
        /\ call'.delivered = call.delivered
    BY DEF Send, NoReply
  <1>3. Types' /\ Sound'
    <2>1. access' = None <=> "refresh" = "login"
      BY DEF Inv, Sound
    <2>2. access' \in Jti \cup {None} /\ refresh' \in Jti \cup {None} /\ acquired' \in 0 .. now
      BY <1>1 DEF Types
    <2> QED BY <1>1, <2>1, <2>2, Sending
  <1>4. Budget'
    BY <1>2 DEF Budget
  <1>5. Counted'
    <2>1. call.delivered <= 0 + call.attempt + 0
      BY <1>1, Fields DEF Inv, Counted
    <2> QED BY <1>1, <1>2, <2>1, Fields DEF Counted
  <1> QED BY <1>3, <1>4, <1>5 DEF Inv

LEMMA ReplyTaken ==
  ASSUME Inv, TakeReply
  PROVE  Inv'
  <1>1. /\ call.at = "post" /\ [Next]_vars
        /\ UNCHANGED <<tokens, now, access, refresh, acquired>>
    BY DEF TakeReply, Arrived, Next, Progress, tokenVars
  <1>2. CASE call.reply.status = 500
    BY <1>1, <1>2, Retrying DEF TakeReply
  <1>3. CASE call.reply.status = 401 /\ ~call.again
    BY <1>1, <1>3, Refusing DEF TakeReply
  <1>4. CASE call.reply.status # 500 /\ ~(call.reply.status = 401 /\ ~call.again)
    BY <1>1, <1>4, Ending DEF TakeReply, Return
  <1> QED BY <1>2, <1>3, <1>4

LEMMA Waking ==
  ASSUME Inv, WakeUp
  PROVE  Inv'
  <1>1. /\ call.at = "backoff" /\ [Next]_vars /\ Send("post", call.attempt, call.again)
        /\ UNCHANGED <<tokens, now, access, refresh, acquired>>
    BY DEF WakeUp, Next, Progress, tokenVars
  <1>2. Types /\ call.attempt \in 0 .. MaxRetries /\ call.again \in BOOLEAN
    BY Fields DEF Inv
  <1>3. /\ call'.reply.status = 0
        /\ call'.at = "post" /\ call'.attempt = call.attempt /\ call'.again = call.again
        /\ call'.since = call.since /\ call'.delivered = call.delivered
    BY <1>1, <1>2, Sent DEF Inv, Sound
  <1>4. Types' /\ Sound'
    <2>1. access' = None <=> "post" = "login"
      BY <1>1 DEF Inv, Sound
    <2>2. access' \in Jti \cup {None} /\ refresh' \in Jti \cup {None} /\ acquired' \in 0 .. now
      BY <1>1, <1>2 DEF Types
    <2> QED BY <1>1, <1>2, <2>1, <2>2, Sending
  <1>5. Budget'
    BY <1>1, <1>3 DEF Inv, Budget, Slack
  <1>6. Counted'
    BY <1>1, <1>2, <1>3, Fields DEF Inv, Counted
  <1> QED BY <1>4, <1>5, <1>6 DEF Inv
-----------------------------------------------------------------------------
LEMMA Initially ==
  ASSUME Init
  PROVE  Inv
  <1>1. Types
    BY IdleCall, TokensAssumption DEF Init, TokensInit, Types, Config, Jti
  <1>2. Sound /\ Budget /\ Counted
    BY <1>1, IdleCall, Fields DEF Init, TokensInit, Sound, Budget, Counted
  <1> QED BY <1>1, <1>2 DEF Inv

LEMMA Stepping ==
  ASSUME Inv, [Next]_vars
  PROVE  Inv'
  <1>1. CASE Query
    BY <1>1, Querying
  <1>2. CASE ServeLogin
    BY <1>2, LoginServed
  <1>3. CASE ServeRefresh
    BY <1>3, RefreshServed
  <1>4. CASE ServePost
    BY <1>4, PostServed
  <1>5. CASE TakeTokens
    BY <1>5, Taking
  <1>6. CASE TakeReply
    BY <1>6, ReplyTaken
  <1>7. CASE WakeUp
    BY <1>7, Waking
  <1>8. CASE NoConnection
    <2>1. /\ call.at \in {"login", "refresh", "post"} /\ call.reply.status = 0
          /\ UNCHANGED <<tokens, now, access, refresh, acquired>>
          /\ IF call.at = "post" THEN Retry ELSE Return
      BY <1>8 DEF NoConnection, NoReply, tokenVars
    <2> QED BY <2>1, Retrying, Ending DEF Return
  <1>9. CASE ConnectionLost
    BY <1>9, Ending DEF ConnectionLost, Return
  <1>10. CASE \/ \E k \in {access, refresh} \ {None} : Revoke(k)
              \/ \E content \in FileContent : Rotate(content)
              \/ \E a \in Address : Roam(a)
              \/ UNCHANGED vars
    <2>1. UNCHANGED <<access, refresh, acquired, call, now>>
      BY <1>10 DEF Revoke, RevokeToken, Rotate, RotateFile, Roam, clientVars, tokenVars, vars
    <2> QED BY <2>1, Staying
  <1>11. CASE \E s \in Setup : Restart(s)
    <2>1. /\ UNCHANGED <<access, refresh, acquired, now>>
          /\ call' = Idle \/ call' = call
      BY <1>11 DEF Restart, RestartServer, Return
    <2>2. CASE call' = Idle
      BY <2>1, <2>2, Ending
    <2>3. CASE call' = call
      BY <2>1, <2>3, Staying
    <2> QED BY <2>1, <2>2, <2>3
  <1>12. CASE Tick
    <2>1. UNCHANGED <<access, refresh, acquired, call>>
      BY <1>12 DEF Tick, clientVars
    <2> QED BY <2>1, Staying
  <1> QED BY <1>1, <1>2, <1>3, <1>4, <1>5, <1>6, <1>7, <1>8, <1>9, <1>10, <1>11, <1>12
          DEF Next, Progress

LEMMA Invariance == Spec => []Inv
  <1>1. Init => Inv
    BY Initially
  <1>2. Inv /\ [Next]_vars => Inv'
    BY Stepping
  <1> QED BY <1>1, <1>2, PTL DEF Spec

\* Every variable keeps its type: tokens are never taken back, and no call ever has
\* more attempts than _post_with_retry makes.
THEOREM TypeCorrect == Spec => []TypeOK
  <1>1. ASSUME Inv PROVE TypeOK
    <2>1. Types /\ call \in Call
      BY <1>1 DEF Inv, Types
    <2>2. setup \in Setup \cup [key : BOOLEAN, file : FileContent, v2 : Secret \cup {None},
                                v1 : Secret \cup {None}, base : Secret \cup {None}]
      BY <2>1 DEF Types, Config
    <2>3. \A k \in Jti : tokens[k] \in Token
      BY <2>1 DEF Types, Jti
    <2>4. TokensTypeOK
      BY <2>1, <2>2, <2>3 DEF Types, TokensTypeOK, Token
    <2>5. acquired \in 0 .. MaxTime /\ {access, refresh} \subseteq Jti \cup {None}
      BY <2>1, Fields DEF Types
    <2> QED BY <2>1, <2>4, <2>5 DEF TypeOK, Types, Call
  <1> QED BY <1>1, Invariance, PTL

\* A statement reaches the server with a token that is too old only when the reply
\* that brought the token and the attempts and sleeps of the round have together
\* taken longer than the client looks ahead (_TOKEN_REFRESH_THRESHOLD), however long
\* that is, however many retries there are and whichever attempt it is.
THEOREM TokensLastTheSlack == Spec => []StaleOnlyWhenSlow
  <1>1. ASSUME Inv PROVE StaleOnlyWhenSlow
    <2> SUFFICES ASSUME InFlight("post"), Delay <= Slack PROVE Unexpired(access)
      BY DEF StaleOnlyWhenSlow
    <2>1. Types /\ call.at = "post" /\ access \in Jti
      BY <1>1 DEF Inv, InFlight, Sound, Types
    <2>2. tokens[access].exp \in Nat
      <3>1. tokens[access] \in Token
        BY <2>1 DEF Types, Jti
      <3> QED BY <3>1 DEF Token
    <2>3. call.since - acquired <= Expiry - Slack
      BY <1>1, <2>1 DEF Inv, Budget
    <2>4. (acquired - (tokens[access].exp - Expiry)) + (now - call.since) <= Slack
      BY DEF Delay
    <2>5. now <= tokens[access].exp
      BY <2>1, <2>2, <2>3, <2>4, Fields, Slacks
    <2> QED BY <2>5 DEF Unexpired
  <1> QED BY <1>1, Invariance, PTL

\* A statement reaches the server once per attempt at most, and the first round gives
\* at least one of its attempts to the 401 that begins the second.
THEOREM DeliveriesAreFew == Spec => []DeliveriesBounded
  <1>1. ASSUME Inv PROVE DeliveriesBounded
    <2>1. Types
      BY <1>1 DEF Inv
    <2> DEFINE before == IF call.again THEN MaxRetries ELSE 0
    <2>2. call.delivered <= before + call.attempt + 1
      BY <1>1, <2>1, Fields DEF Inv, Counted
    <2> QED BY <2>1, <2>2, Fields DEF DeliveriesBounded
  <1> QED BY <1>1, Invariance, PTL

\* Without the tokens that were revoked, a client gets no other.
THEOREM RevocationShutsOut == Spec => ShutOutStays
  <1>1. ASSUME Inv, [Next]_vars, ShutOut
        PROVE  ShutOut' \/ blocklist' = {}
    <2>1. /\ access # None /\ access \in blocklist /\ refresh \in blocklist
          /\ call.reply.access = None
      BY <1>1 DEF ShutOut
    <2>2. Types /\ call \in Call
      BY <1>1 DEF Inv, Types
    <2>3. blocklist \subseteq blocklist' \/ blocklist' = {}
      BY <1>1, <2>2, Environment
    <2>4. ASSUME UNCHANGED <<access, refresh>>, call'.reply.access = None
          PROVE  ShutOut' \/ blocklist' = {}
      BY <2>1, <2>3, <2>4 DEF ShutOut
    <2>5. Idle.reply.access = None /\ NoReply.access = None
      BY DEF Idle, NoReply
    <2>6. CASE Query \/ TakeReply \/ WakeUp \/ NoConnection \/ ConnectionLost
      <3>1. UNCHANGED <<access, refresh>> /\ (call'.reply = NoReply \/ call' = Idle)
        BY <2>6 DEF Query, TakeReply, WakeUp, NoConnection, ConnectionLost, Retry, Send, Return
      <3> QED BY <2>4, <2>5, <3>1
    <2>7. CASE ServeLogin
      BY <1>1, <2>1, <2>7 DEF ServeLogin, InFlight, Inv, Sound
    <2>8. CASE ServeRefresh
      <3>1. VerifyRefresh(refresh, address) # 200
        BY <2>1 DEF VerifyRefresh
      <3>2. call' = [call EXCEPT !.reply = [status |-> VerifyRefresh(refresh, address),
                                            access |-> None, refresh |-> None]]
        BY <2>8, <3>1 DEF ServeRefresh, Reply
      <3>3. call'.reply.access = None
        BY <2>2, <3>2 DEF Call
      <3> QED BY <2>4, <2>8, <3>3 DEF ServeRefresh
    <2>9. CASE ServePost
      <3>1. call'.reply.access = None
        <4>1. CASE VerifyAccess(access) = 200
          <5>1. PICK status \in {200, 400, 404, 500} :
                    call' = [call EXCEPT !.reply = [NoReply EXCEPT !.status = status],
                                         !.delivered = @ + 1]
            BY <2>9, <4>1 DEF ServePost
          <5>2. call'.reply = [NoReply EXCEPT !.status = status]
            BY <2>2, <5>1 DEF Call
          <5> QED BY <5>2 DEF NoReply
        <4>2. CASE VerifyAccess(access) # 200
          <5>1. call' = [call EXCEPT !.reply = [status |-> VerifyAccess(access),
                                                access |-> None, refresh |-> None]]
            BY <2>9, <4>2 DEF ServePost, Reply
          <5> QED BY <2>2, <5>1 DEF Call
        <4> QED BY <4>1, <4>2
      <3> QED BY <2>4, <2>9, <3>1 DEF ServePost
    <2>10. CASE TakeTokens
      <3>1. call.reply.status # 200
        BY <1>1, <2>1, <2>10 DEF TakeTokens, Arrived, Inv, Sound
      <3> QED BY <2>4, <2>5, <2>10, <3>1 DEF TakeTokens, Return
    <2>11. CASE \/ \E k \in {access, refresh} \ {None} : Revoke(k)
                \/ \E content \in FileContent : Rotate(content)
                \/ \E a \in Address : Roam(a)
                \/ Tick \/ UNCHANGED vars
      <3>1. UNCHANGED <<access, refresh, call>>
        BY <2>11 DEF Revoke, Rotate, Roam, Tick, clientVars, vars
      <3> QED BY <2>1, <2>4, <3>1
    <2>12. CASE \E s \in Setup : Restart(s)
      BY <2>12 DEF Restart, RestartServer
    <2> QED BY <1>1, <2>6, <2>7, <2>8, <2>9, <2>10, <2>11, <2>12 DEF Next, Progress
  <1>2. Inv /\ [Next]_vars => [ShutOut => ShutOut' \/ blocklist' = {}]_vars
    BY <1>1
  <1> QED BY <1>2, Invariance, PTL DEF Spec, ShutOutStays
=============================================================================
