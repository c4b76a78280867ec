------------------------------- MODULE Tokens -------------------------------
(***************************************************************************)
(* Access and refresh tokens: /auth/token, /auth/refresh, /auth/revoke and *)
(* the checks of auth/jwt_auth.py.                                         *)
(*                                                                         *)
(* Signing secrets come from the environment, fixed while the process      *)
(* runs, or from a file that is read anew each time.  Two functions read   *)
(* them: _get_secret yields the one to sign with, _get_all_secrets those   *)
(* an access token may be signed with.  Revocations are kept in memory.    *)
(* Startup checks none of this: validate_startup_secret has no caller.     *)
(***************************************************************************)
EXTENDS Integers, Sequences

CONSTANTS
    Secret,
    Setup,          \* configurations: [key, file, v2, v1, base]
    FileContent,    \* what the secret file may hold: secrets, or Bad
    Address,        \* X-Forwarded-For of a request, None without a proxy
    None,
    Bad,            \* a file that is missing or empty
    Expiry,         \* POND_JWT_EXPIRY_SECONDS
    RefreshExpiry,  \* DEFAULT_REFRESH_EXPIRY_SECONDS
    MaxTime         \* bound: the clock stops here

ASSUME TokensAssumption ==
    /\ None # Bad /\ None \notin Secret /\ Bad \notin Secret
    /\ FileContent \subseteq Secret \cup {Bad}
    /\ Expiry \in Nat \ {0} /\ RefreshExpiry \in Nat /\ MaxTime \in Nat
    /\ Setup \subseteq [key : BOOLEAN, file : FileContent \cup {None},
                        v2 : Secret \cup {None}, v1 : Secret \cup {None},
                        base : Secret \cup {None}]

VARIABLES
    setup,      \* environment variables and the file's content; key: the API
                \* key is the one the client has
    tokens,     \* all tokens ever issued; a token's place stands for its jti
    blocklist,  \* jtis revoked in this process
    now

tokenVars == <<setup, tokens, blocklist, now>>

Jti == DOMAIN tokens

TokensTypeOK ==
    /\ setup \in Setup \cup [key : BOOLEAN, file : FileContent, v2 : Secret \cup {None},
                             v1 : Secret \cup {None}, base : Secret \cup {None}]
    /\ \A k \in Jti : tokens[k] \in
            [type : {"access", "refresh"}, secret : Secret, exp : Nat, fp : Address \cup {None}]
    /\ blocklist \subseteq Jti
    /\ now \in 0 .. MaxTime

TokensInit ==
    /\ setup \in Setup
    /\ tokens = <<>>
    /\ blocklist = {}
    /\ now = 0
-----------------------------------------------------------------------------
\* _get_secret; None stands for its HTTPException(500).
SigningSecret ==
    IF setup.file = Bad THEN None
    ELSE IF setup.file # None THEN setup.file
    ELSE IF setup.v2 # None THEN setup.v2
    ELSE IF setup.v1 # None THEN setup.v1
    ELSE setup.base

\* _get_all_secrets: a file that cannot be read is passed over.
AllSecrets ==
    IF setup.file \notin {None, Bad} THEN {setup.file}
    ELSE {setup.v2, setup.v1, setup.base} \ {None}

Unexpired(k) == now <= tokens[k].exp

\* verify_access_token: the status of a request that carries the token.
VerifyAccess(k) ==
    IF AllSecrets = {} THEN 500
    ELSE IF /\ tokens[k].secret \in AllSecrets
            /\ Unexpired(k)
            /\ tokens[k].type = "access"
            /\ k \notin blocklist THEN 200
    ELSE 401

\* Faulty...: wrong variants, before what they would replace.
FaultyVerifyRefresh(k, address) ==      \* the blocklist is for access tokens
    IF SigningSecret = None THEN 500
    ELSE IF /\ tokens[k].secret = SigningSecret
            /\ Unexpired(k)
            /\ tokens[k].type = "refresh"
            /\ tokens[k].fp # None /\ address # None => tokens[k].fp = address THEN 200
    ELSE 401

\* verify_refresh_token: only by the secret that signs; the fingerprint of the
\* address is compared when both requests had one.
VerifyRefresh(k, address) ==
    IF SigningSecret = None THEN 500
    ELSE IF /\ tokens[k].secret = SigningSecret
            /\ Unexpired(k)
            /\ tokens[k].type = "refresh"
            /\ k \notin blocklist
            /\ tokens[k].fp # None /\ address # None => tokens[k].fp = address THEN 200
    ELSE 401

\* create_access_token, create_refresh_token.
AccessToken == [type |-> "access", secret |-> SigningSecret, exp |-> now + Expiry, fp |-> None]
RefreshToken(address) ==
    [type |-> "refresh", secret |-> SigningSecret, exp |-> now + RefreshExpiry, fp |-> address]
-----------------------------------------------------------------------------
\* POST /auth/token, with the client's API key.
IssueStatus == IF ~setup.key THEN 401 ELSE IF SigningSecret = None THEN 500 ELSE 200

IssueToken(address) ==
    /\ tokens' = IF IssueStatus = 200 THEN tokens \o <<AccessToken, RefreshToken(address)>>
                 ELSE tokens
    /\ UNCHANGED <<setup, blocklist, now>>

\* POST /auth/refresh: a new access token; the refresh token stays as it is.
RefreshAccess(k, address) ==
    /\ tokens' = IF VerifyRefresh(k, address) = 200 THEN Append(tokens, AccessToken)
                 ELSE tokens
    /\ UNCHANGED <<setup, blocklist, now>>

\* POST /auth/revoke, by anyone who has the token.  Only POND_JWT_SECRET is tried,
\* so tokens signed with another secret cannot be revoked (400, or 500 without).
RevokeToken(k) ==
    /\ tokens[k].secret = setup.base
    /\ blocklist' = blocklist \cup {k}
    /\ UNCHANGED <<setup, tokens, now>>

\* The secret file is written, or lost.
RotateFile(content) ==
    /\ setup.file # None
    /\ setup' = [setup EXCEPT !.file = content]
    /\ UNCHANGED <<tokens, blocklist, now>>

\* The process starts anew, maybe in another environment; it looks at no secret.
RestartServer(s) ==
    /\ setup' = s
    /\ blocklist' = {}
    /\ UNCHANGED <<tokens, now>>
=============================================================================
