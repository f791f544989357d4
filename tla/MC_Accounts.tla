---------------------------- MODULE MC_Accounts ----------------------------
(***************************************************************************)
(* Accounts, Sessions, OAuthSettings and ClientRefresh in one run.  They   *)
(* share no state, so instead of their product the initial state picks one *)
(* of them, and only that one moves.                                       *)
(***************************************************************************)
EXTENDS Accounts, Naturals

CONSTANTS Token, ApiKey, LIMIT, MAX_WRONG, Config, Rotated, Text, Call

VARIABLES part, enabled, fails, locked, token, key, cookie, signed, door, shown, wrong, revoked,
          stored, locker, job, next, ready, seen, overtaken,
          call, retry, rejected, isRefreshing, failedQueue, leaving, asks, session, unserved

S == INSTANCE Sessions WITH pc <- door

\* What a request shows is a key, an access token or nothing, never two of them.
ASSUME ApiKeysAssumption == S!Nothing \notin ApiKey /\ "access token" \notin ApiKey

ASSUME BoundsAssumption == MAX_WRONG \in Nat

O == INSTANCE OAuthSettings

\* Nor is a configuration one of the other jobs; and a text that is sent is a text.
ASSUME ConfigAssumption ==
    /\ \A c \in Config : c \notin {"none", "read", "delete", "put"}
    /\ O!Absent \notin Text

C == INSTANCE ClientRefresh

sessionVars == <<enabled, fails, locked, token, key, cookie, signed, door, shown, wrong, revoked>>
oauthVars == <<stored, locker, job, next, ready, seen, overtaken>>
clientVars == <<call, retry, rejected, isRefreshing, failedQueue, leaving, asks, session, unserved>>

MCInit ==
    /\ part \in {"accounts", "sessions", "oauth", "client"}
    /\ Init /\ S!Init /\ O!Init /\ C!Init
    /\ part # "client" => session

MCNext ==
    /\ UNCHANGED part
    /\ \/ part = "accounts" /\ Next /\ UNCHANGED <<sessionVars, oauthVars, clientVars>>
       \/ part = "sessions" /\ S!Next /\ UNCHANGED <<vars, oauthVars, clientVars>>
       \/ part = "oauth" /\ O!Next /\ UNCHANGED <<vars, sessionVars, clientVars>>
       \/ part = "client" /\ C!Next /\ UNCHANGED <<vars, sessionVars, oauthVars>>

MCSpec ==
    /\ MCInit /\ [][MCNext]_<<part, vars, sessionVars, oauthVars, clientVars>>
    /\ Fairness /\ C!Fairness

PartsTypeOK == S!TypeOK /\ O!TypeOK /\ C!TypeOK

ActsUnlessRevoked == S!ActsUnlessRevoked
WholeUnlessOverlapped == O!WholeUnlessOverlapped
RefreshIsShared == C!RefreshIsShared
CallsEnd == C!CallsEnd
=============================================================================
