------------------------------- MODULE Client -------------------------------
(***************************************************************************)
(* A PondClient and the server it talks to: query(), which logs in when it *)
(* has no token, refreshes one that is near its expiry, posts the          *)
(* statement, retries what looks transient, and after a 401 refreshes and  *)
(* posts once more.  (sdk/duckcloud holds the same client under another    *)
(* name.)                                                                  *)
(*                                                                         *)
(* A request travels, is served, and its reply travels, for as long as it  *)
(* takes: httpx's timeout is for each wait of a request (to connect, for   *)
(* the next bytes, for a free connection), not for the whole.  It may not  *)
(* arrive (ConnectError) or be lost on the way or with the process (other  *)
(* httpx errors); tokens are revoked, secrets rotated and the server       *)
(* restarted meanwhile.                                                    *)
(***************************************************************************)
EXTENDS Tokens

CONSTANTS
    Threshold,      \* _TOKEN_REFRESH_THRESHOLD
    MaxRetries,     \* max_retries
    MaxTokens       \* bound: no new query when tokens may run out

ASSUME ClientAssumption ==
    /\ {Threshold, MaxRetries, MaxTokens} \subseteq Nat
    /\ None \notin Nat

VARIABLES
    address,        \* where the client is
    access,         \* access_token, as a jti; None
    refresh,        \* refresh_token
    acquired,       \* _token_acquired_at
    call            \* the query under way; since: when its attempts began, as
                    \* history; delivered: how often the server has taken its
                    \* statement

clientVars == <<address, access, refresh, acquired, call>>
vars == <<tokenVars, clientVars>>

NoReply == [status |-> 0, access |-> None, refresh |-> None]
Idle == [at |-> "idle", attempt |-> 0, again |-> FALSE, since |-> 0, reply |-> NoReply,
         delivered |-> 0]

TypeOK ==
    /\ TokensTypeOK
    /\ address \in Address
    /\ {access, refresh} \subseteq Jti \cup {None}
    /\ acquired \in 0 .. MaxTime
    /\ call.at \in {"idle", "login", "refresh", "post", "backoff"}
    /\ call.attempt \in 0 .. MaxRetries
    /\ call.again \in BOOLEAN
    /\ call.since \in 0 .. MaxTime
    /\ call.reply.status \in {0, 200, 400, 401, 404, 500}
    /\ call.delivered \in Nat

Init ==
    /\ TokensInit
    /\ address \in Address
    /\ access = None /\ refresh = None /\ acquired = 0
    /\ call = Idle
-----------------------------------------------------------------------------
Send(at, attempt, again) ==
    call' = [at |-> at, attempt |-> attempt, again |-> again,
             since |-> IF attempt = 0 THEN now ELSE call.since,
             reply |-> NoReply, delivered |-> call.delivered]

\* query returns or raises: the caller may ask anew.
Return == call' = Idle

\* Faulty...: wrong variants, before what they would replace.
FaultyIsNearExpiry == now - acquired > Expiry       \* only when it is over

\* _is_near_expiry.
IsNearExpiry == Expiry - (now - acquired) < Threshold

\* query, with _ensure_authenticated.
Query ==
    /\ call.at = "idle"
    /\ Len(tokens) + (IF access = None THEN 3 ELSE 2) <= MaxTokens
    /\ Send(IF access = None THEN "login" ELSE IF IsNearExpiry THEN "refresh" ELSE "post",
            0, FALSE)
    /\ UNCHANGED <<tokenVars, address, access, refresh, acquired>>

InFlight(at) == call.at = at /\ call.reply = NoReply

Reply(status, a, r) ==
    call' = [call EXCEPT !.reply = [status |-> status, access |-> a, refresh |-> r]]

\* The server takes the request.
ServeLogin ==
    /\ InFlight("login")
    /\ IssueToken(address)
    /\ IF IssueStatus = 200 THEN Reply(200, Len(tokens) + 1, Len(tokens) + 2)
       ELSE Reply(IssueStatus, None, None)
    /\ UNCHANGED <<address, access, refresh, acquired>>

ServeRefresh ==
    /\ InFlight("refresh")
    /\ RefreshAccess(refresh, address)
    /\ LET status == VerifyRefresh(refresh, address) IN
       Reply(status, IF status = 200 THEN Len(tokens) + 1 ELSE None, None)
    /\ UNCHANGED <<address, access, refresh, acquired>>

\* A statement that is let in may succeed, be refused, be sent to a session the
\* server does not have, or be answered with a 5xx by what stands before it.
ServePost ==
    /\ InFlight("post")
    /\ IF VerifyAccess(access) = 200
       THEN \E status \in {200, 400, 404, 500} :
                call' = [call EXCEPT !.reply = [NoReply EXCEPT !.status = status],
                                     !.delivered = @ + 1]
       ELSE Reply(VerifyAccess(access), None, None)
    /\ UNCHANGED <<tokenVars, address, access, refresh, acquired>>

Arrived(at) == call.at = at /\ call.reply # NoReply

\* authenticate, _do_refresh: the clock of a token starts with the reply.
TakeTokens ==
    /\ Arrived("login") \/ Arrived("refresh")
    /\ IF call.reply.status = 200
       THEN /\ access' = call.reply.access
            /\ refresh' = IF call.at = "login" THEN call.reply.refresh ELSE refresh
            /\ acquired' = now
            /\ Send("post", 0, call.again)
       ELSE Return /\ UNCHANGED <<access, refresh, acquired>>
    /\ UNCHANGED <<tokenVars, address>>

FaultyRetry ==      \* the second round of attempts never ends
    IF call.attempt < MaxRetries
    THEN Send("backoff", call.attempt + 1, FALSE)
    ELSE Return

\* _post_with_retry sleeps and tries again, or gives up.
Retry ==
    IF call.attempt < MaxRetries
    THEN Send("backoff", call.attempt + 1, call.again)
    ELSE Return

\* A reply to the statement: 5xx is retried here, the first 401 by query.
TakeReply ==
    /\ Arrived("post")
    /\ CASE call.reply.status = 500 -> Retry
         [] call.reply.status = 401 /\ ~call.again -> Send("refresh", 0, TRUE)
         [] OTHER -> Return
    /\ UNCHANGED <<tokenVars, address, access, refresh, acquired>>

WakeUp ==
    /\ call.at = "backoff"
    /\ Send("post", call.attempt, call.again)
    /\ UNCHANGED <<tokenVars, address, access, refresh, acquired>>

FaultyNoConnection ==       \* such attempts are not counted
    /\ call.at \in {"login", "refresh", "post"} /\ call.reply = NoReply
    /\ IF call.at = "post" THEN Send("backoff", call.attempt, call.again) ELSE Return
    /\ UNCHANGED <<tokenVars, address, access, refresh, acquired>>

\* httpx.ConnectError; it is only caught for the statement.
NoConnection ==
    /\ call.at \in {"login", "refresh", "post"} /\ call.reply = NoReply
    /\ IF call.at = "post" THEN Retry ELSE Return
    /\ UNCHANGED <<tokenVars, address, access, refresh, acquired>>

\* A timeout or a broken connection, before or after the request was served;
\* nobody catches these.
ConnectionLost ==
    /\ call.at \in {"login", "refresh", "post"}
    /\ Return
    /\ UNCHANGED <<tokenVars, address, access, refresh, acquired>>

Roam(a) ==
    /\ a # address
    /\ address' = a
    /\ UNCHANGED <<tokenVars, access, refresh, acquired, call>>
-----------------------------------------------------------------------------
\* Of others: revocations, a new secret file, a restart, which ends requests that
\* have not been served.
Revoke(k) == RevokeToken(k) /\ UNCHANGED clientVars

Rotate(content) == RotateFile(content) /\ UNCHANGED clientVars

Restart(s) ==
    /\ RestartServer(s)
    /\ IF InFlight(call.at) /\ call.at \in {"login", "refresh", "post"} THEN Return
       ELSE UNCHANGED call
    /\ UNCHANGED <<address, access, refresh, acquired>>

\* Time passes, on the server as for the client.
Tick ==
    /\ now < MaxTime
    /\ now' = now + 1
    /\ UNCHANGED <<setup, tokens, blocklist, clientVars>>

Progress ==
    \/ ServeLogin \/ ServeRefresh \/ ServePost
    \/ TakeTokens \/ TakeReply \/ WakeUp
    \/ NoConnection \/ ConnectionLost

Next ==
    \/ Query
    \/ Progress
    \/ \E k \in {access, refresh} \ {None} : Revoke(k)
    \/ \E content \in FileContent : Rotate(content)
    \/ \E s \in Setup : Restart(s)
    \/ \E a \in Address : Roam(a)
    \/ Tick

\* A request is served and answered, or comes to wait for longer than the client's
\* timeout, which ends it; a sleep ends.
Fairness == WF_vars(Progress)

Spec == Init /\ [][Next]_vars /\ Fairness
-----------------------------------------------------------------------------
\* What the client's look at the token's age leaves it, and what of that is gone: the
\* time from the issue of the token to the reply with it, which the client does not
\* see, and the time that attempts and sleeps have taken since the look.
Slack == IF Threshold < Expiry THEN Threshold ELSE Expiry
Delay == (acquired - (tokens[access].exp - Expiry)) + (now - call.since)

\* The server gets no statement with a token that is too old, in whichever attempt
\* of whichever round, unless those delays have used up the threshold.
StaleOnlyWhenSlow == InFlight("post") /\ Delay <= Slack => Unexpired(access)

\* A statement is not idempotent, and every attempt may run it.  Per query the
\* server takes it twice MaxRetries plus once at most, 401s in between included.
DeliveriesBounded == call.delivered <= 2 * MaxRetries + 1

\* Every query comes to an end, with a result or an error.
QueriesEnd == (call.at # "idle") ~> (call.at = "idle")

ShutOut ==
    /\ access # None /\ {access, refresh} \subseteq blocklist
    /\ call.reply.access = None

\* Who revokes both tokens of a client has shut it out as long as the server runs:
\* no step of the client, not even a login, gets it another token.
ShutOutStays == [][ShutOut => ShutOut' \/ blocklist' = {}]_vars
=============================================================================
