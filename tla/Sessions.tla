------------------------------ MODULE Sessions ------------------------------
(***************************************************************************)
(* How the requests of one account are let in: sign-in, the sessions and   *)
(* the API keys (services/auth_service.py, api/auth.py, api/sessions.py,   *)
(* api/users.py, api/deps.py, mcp/tools/common.py).  Accounts share        *)
(* nothing here, so the module follows one of them.                        *)
(*                                                                         *)
(* A request reads the account, or the active API keys and then, after a   *)
(* bcrypt comparison for each, the account; it acts later, in the same     *)
(* transaction, while other requests revoke what it showed.  An access     *)
(* token is a signed statement that is checked against nothing stored, so  *)
(* the account is all such a request depends on.                           *)
(*                                                                         *)
(* wrong and revoked are history variables: the wrong passwords answered   *)
(* since the last right one (counted to MAX_WRONG); the key was deleted,   *)
(* or the account deactivated, after the request had read it.              *)
(***************************************************************************)
EXTENDS Naturals

CONSTANTS Request,     \* request slots
          Token,       \* slots for the refresh tokens of the account
          ApiKey,      \* API keys it will ever get
          LIMIT,       \* wrong passwords that lock the account (10 in the code)
          MAX_WRONG    \* bound: wrong passwords tried

Nothing == "nothing"

VARIABLES enabled,     \* users.is_active
          fails,       \* users.login_fail_count
          locked,      \* users.locked_until is in the future
          token,       \* refresh_tokens: free, valid, expired or revoked
          key,         \* user_api_keys: free, active or deleted
          cookie,      \* the refresh token the browser keeps
          signed,      \* an access token is out that has not expired
          pc,          \* where a request is
          shown,       \* what it identifies itself with
          wrong,       \* history: see above
          revoked      \* history: see above

account == <<enabled, fails, locked, wrong>>
credentials == <<token, key, cookie, signed>>
locals == <<pc, shown, revoked>>
vars == <<account, credentials, locals>>

TypeOK ==
    /\ enabled \in BOOLEAN /\ locked \in BOOLEAN /\ signed \in BOOLEAN
    /\ fails \in Nat /\ wrong \in 0 .. MAX_WRONG
    /\ token \in [Token -> {"free", "valid", "expired", "revoked"}]
    /\ key \in [ApiKey -> {"free", "active", "deleted"}]
    /\ cookie \in Token \cup {Nothing}
    /\ pc \in [Request -> {"idle", "verify", "compare", "act"}]
    /\ shown \in [Request -> ApiKey \cup {"access token", Nothing}]
    /\ revoked \in [Request -> BOOLEAN]
    /\ cookie # Nothing => token[cookie] # "free"
    /\ \A r \in Request : pc[r] \in {"compare", "act"} <=> shown[r] # Nothing

Init ==
    /\ enabled = TRUE /\ fails = 0 /\ locked = FALSE /\ wrong = 0
    /\ token = [t \in Token |-> "free"]
    /\ key = [k \in ApiKey |-> "free"]
    /\ cookie = Nothing /\ signed = FALSE
    /\ pc = [r \in Request |-> "idle"]
    /\ shown = [r \in Request |-> Nothing]
    /\ revoked = [r \in Request |-> FALSE]

-----------------------------------------------------------------------------
\* POST /auth/login: the account is read; 423 while it is locked.
BeginLogin(r) ==
    /\ pc[r] = "idle" /\ ~locked
    /\ pc' = [pc EXCEPT ![r] = "verify"]
    /\ UNCHANGED <<account, credentials, shown, revoked>>

\* Mutant: the slot keeps what the request showed.
LeaveShown(r) ==
    /\ pc' = [pc EXCEPT ![r] = "idle"]
    /\ revoked' = [revoked EXCEPT ![r] = FALSE]
    /\ UNCHANGED shown

Leave(r) ==
    /\ pc' = [pc EXCEPT ![r] = "idle"]
    /\ shown' = [shown EXCEPT ![r] = Nothing]
    /\ revoked' = [revoked EXCEPT ![r] = FALSE]

\* The password is wrong.  handle_login_failure adds one to fails, locks the
\* account at LIMIT and flushes; login raises, the handler answers 401 without a
\* commit, and the session that get_db closes rolls the UPDATE back.
WrongPassword(r) ==
    /\ pc[r] = "verify" /\ wrong < MAX_WRONG
    /\ wrong' = wrong + 1
    /\ Leave(r)
    /\ UNCHANGED <<enabled, fails, locked, credentials>>

\* create_refresh_token, and the cookie that replaces the browser's.  A slot
\* whose token is dead is used again.
NewSession ==
    \E t \in Token :
       /\ token[t] # "valid"
       /\ token' = [token EXCEPT ![t] = "valid"]
       /\ cookie' = t

\* The password is right, whether or not the account is still active.
RightPassword(r) ==
    /\ pc[r] = "verify"
    /\ NewSession /\ signed' = TRUE
    /\ fails' = 0 /\ locked' = FALSE /\ wrong' = 0
    /\ Leave(r)
    /\ UNCHANGED <<enabled, key>>

\* REFRESH_TOKEN_EXPIRE_DAYS of a token are over.
Expire(t) ==
    /\ token[t] = "valid"
    /\ token' = [token EXCEPT ![t] = "expired"]
    /\ UNCHANGED <<account, key, cookie, signed, locals>>

-----------------------------------------------------------------------------
\* POST /auth/refresh finds the cookie's token and signs an access token; it
\* does not ask whether the account is active.
Refresh ==
    /\ cookie # Nothing /\ token[cookie] = "valid"
    /\ signed' = TRUE
    /\ UNCHANGED <<account, token, key, cookie, locals>>

\* ACCESS_TOKEN_EXPIRE_MINUTES are over.
ExpireAccess ==
    /\ signed
    /\ signed' = FALSE
    /\ UNCHANGED <<account, token, key, cookie, locals>>

\* A request that shows an access token: get_current_user reads the account.
BeginByAccessToken(r) ==
    /\ pc[r] = "idle" /\ signed /\ enabled
    /\ pc' = [pc EXCEPT ![r] = "act"]
    /\ shown' = [shown EXCEPT ![r] = "access token"]
    /\ UNCHANGED <<account, credentials, revoked>>

\* Mutant: deleted keys are listed too.
BeginByKeyEver(r, k) ==
    /\ pc[r] = "idle" /\ key[k] # "free"
    /\ pc' = [pc EXCEPT ![r] = "compare"]
    /\ shown' = [shown EXCEPT ![r] = k]
    /\ UNCHANGED <<account, credentials, revoked>>

\* An MCP tool: _get_user_by_api_key lists the active keys, the caller's among them.
BeginByKey(r, k) ==
    /\ pc[r] = "idle" /\ key[k] = "active"
    /\ pc' = [pc EXCEPT ![r] = "compare"]
    /\ shown' = [shown EXCEPT ![r] = k]
    /\ UNCHANGED <<account, credentials, revoked>>

\* ... after the comparisons, the account is read if it is active.
FindKeyOwner(r) ==
    /\ pc[r] = "compare"
    /\ IF enabled
       THEN pc' = [pc EXCEPT ![r] = "act"] /\ UNCHANGED <<shown, revoked>>
       ELSE Leave(r)
    /\ UNCHANGED <<account, credentials>>

\* The request does what it came for.
Act(r) ==
    /\ pc[r] = "act"
    /\ Leave(r)
    /\ UNCHANGED <<account, credentials>>

\* The requests that have read what is revoked now.
Overtake(P(_)) == revoked' = [r \in Request |-> revoked[r] \/ P(r)]

\* DELETE /users/me of another session of the account (see Accounts).
Deactivate ==
    /\ enabled
    /\ enabled' = FALSE
    /\ LET read(r) == pc[r] = "act" IN Overtake(read)
    /\ UNCHANGED <<fails, locked, wrong, credentials, pc, shown>>

-----------------------------------------------------------------------------
\* POST /users/me/api-keys
CreateKey(k) ==
    /\ key[k] = "free" /\ enabled
    /\ key' = [key EXCEPT ![k] = "active"]
    /\ UNCHANGED <<account, token, cookie, signed, locals>>

\* DELETE /users/me/api-keys/{k}
DeleteKey(k) ==
    /\ key[k] = "active" /\ enabled
    /\ key' = [key EXCEPT ![k] = "deleted"]
    /\ LET read(r) == shown[r] = k IN Overtake(read)
    /\ UNCHANGED <<account, token, cookie, signed, pc, shown>>

\* DELETE /sessions/{t}, DELETE /users/me/sessions/{t}: an expired one too.
RevokeSession(t) ==
    /\ token[t] \in {"valid", "expired"} /\ enabled
    /\ token' = [token EXCEPT ![t] = "revoked"]
    /\ UNCHANGED <<account, key, cookie, signed, locals>>

\* POST /auth/logout.  The cookie's path is /api/v1/auth/refresh, so a browser
\* does not send it here: the browser forgets the token and the server keeps it.
\* A client that sends it all the same has it revoked.
Logout ==
    /\ enabled /\ cookie # Nothing
    /\ cookie' = Nothing
    /\ \E sent \in BOOLEAN :
          token' = IF sent /\ token[cookie] = "valid"
                   THEN [token EXCEPT ![cookie] = "revoked"] ELSE token
    /\ UNCHANGED <<account, key, signed, locals>>

-----------------------------------------------------------------------------
Next ==
    \/ \E r \in Request : \/ BeginLogin(r) \/ WrongPassword(r) \/ RightPassword(r)
                          \/ BeginByAccessToken(r) \/ FindKeyOwner(r) \/ Act(r)
    \/ \E r \in Request, k \in ApiKey : BeginByKey(r, k)
    \/ \E k \in ApiKey : CreateKey(k) \/ DeleteKey(k)
    \/ \E t \in Token : Expire(t) \/ RevokeSession(t)
    \/ Refresh
    \/ ExpireAccess
    \/ Logout
    \/ Deactivate

Spec == Init /\ [][Next]_vars

-----------------------------------------------------------------------------
\* A request acts for an account that is active, with a key that was not
\* deleted, unless the deactivation or the deletion came after it had read the
\* one or the other.
ActsUnlessRevoked ==
    \A r \in Request : pc[r] = "act" =>
       \/ revoked[r]
       \/ enabled /\ \A k \in ApiKey : shown[r] = k => key[k] = "active"

\* "10회 실패 시 15분 잠금을 설정합니다." (services/auth_service.py:242): the account
\* is locked once LIMIT wrong passwords in a row have been answered.
LockedAfterLimit == wrong >= LIMIT => locked
=============================================================================
