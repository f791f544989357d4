---------------------------- MODULE ClientRefresh ----------------------------
(***************************************************************************)
(* The request client of a browser tab (frontend/src/api/client.ts): calls *)
(* that are answered 401 wait for one refresh of the access token and are  *)
(* sent again.                                                             *)
(*                                                                         *)
(* No call carries an access token: the request interceptor attaches the   *)
(* CSRF token only, and the token that a refresh answers is dropped.  The  *)
(* server takes a token from the Authorization header only (api/deps.py),  *)
(* so it answers 401 again unless it asks for none, which it does with     *)
(* AUTH_DISABLED and an active administrator.  Calls that need no user are *)
(* answered without any of this and are left out, as are other errors,     *)
(* which reject a call at once; a wrong password is refused like any call. *)
(*                                                                         *)
(* JavaScript runs one handler at a time: what a handler does up to its    *)
(* await is one step, and so is what it does after it.  When a refresh     *)
(* fails, every call that waits is rejected and the page is on its way to  *)
(* /login; the load of that page ends all calls and starts the client      *)
(* anew.                                                                   *)
(*                                                                         *)
(* unserved is a history variable: the calls since whose sending there was *)
(* no session, or whose refresh was lost.                                  *)
(***************************************************************************)
CONSTANTS Call             \* calls at a time

VARIABLES call,            \* where a call is
          retry,           \* the calls with _retry
          rejected,        \* the calls whose last answer was an error
          isRefreshing,    \* isRefreshing
          failedQueue,     \* the calls in failedQueue
          leaving,         \* the page is on its way to /login
          asks,            \* whether the server asks for an access token
          session,         \* whether the refresh token's session is valid
          unserved         \* history: see above

calls == <<call, retry, rejected>>
client == <<isRefreshing, failedQueue, leaving>>
server == <<asks, session>>
vars == <<calls, client, server, unserved>>

TypeOK ==
    /\ call \in [Call -> {"idle", "sent", "waiting", "refreshing"}]
    /\ retry \subseteq Call /\ rejected \subseteq Call
    /\ isRefreshing \in BOOLEAN /\ failedQueue \subseteq Call /\ leaving \in BOOLEAN
    /\ asks \in BOOLEAN /\ session \in BOOLEAN
    /\ unserved \subseteq Call

Init ==
    /\ call = [c \in Call |-> "idle"] /\ retry = {} /\ rejected = {}
    /\ isRefreshing = FALSE /\ failedQueue = {} /\ leaving = FALSE
    /\ asks = TRUE /\ session \in BOOLEAN
    /\ unserved = {}

-----------------------------------------------------------------------------
\* The calls C are at step s from now on.
Move(C, s) == call' = [c \in Call |-> IF c \in C THEN s ELSE call[c]]

\* apiClient(config), a new call.
Send(c) ==
    /\ call[c] = "idle"
    /\ Move({c}, "sent")
    /\ retry' = retry \ {c}
    /\ rejected' = rejected \ {c}
    /\ unserved' = IF session THEN unserved \ {c} ELSE unserved \cup {c}
    /\ UNCHANGED <<client, server>>

\* The answer is 200.
Succeed(c) ==
    /\ call[c] = "sent" /\ ~asks
    /\ Move({c}, "idle")
    /\ UNCHANGED <<retry, rejected, client, server, unserved>>

\* 401 while another call refreshes: the call waits.
Wait(c) ==
    /\ call[c] = "sent" /\ asks /\ c \notin retry /\ isRefreshing
    /\ Move({c}, "waiting")
    /\ failedQueue' = failedQueue \cup {c}
    /\ UNCHANGED <<retry, rejected, isRefreshing, leaving, server, unserved>>

\* 401 otherwise: the call is marked and refreshes the token.
Refresh(c) ==
    /\ call[c] = "sent" /\ asks /\ c \notin retry /\ ~isRefreshing
    /\ Move({c}, "refreshing")
    /\ retry' = retry \cup {c}
    /\ isRefreshing' = TRUE
    /\ UNCHANGED <<rejected, failedQueue, leaving, server, unserved>>

\* Mutant: _retry is not asked while a refresh is under way.
RejectWaiting(c) ==
    /\ call[c] = "sent" /\ asks /\ (c \in retry \/ isRefreshing)
    /\ Move({c}, "idle")
    /\ rejected' = rejected \cup {c}
    /\ UNCHANGED <<retry, client, server, unserved>>

\* 401 of a call that has refreshed already.
Reject(c) ==
    /\ call[c] = "sent" /\ asks /\ c \in retry
    /\ Move({c}, "idle")
    /\ rejected' = rejected \cup {c}
    /\ UNCHANGED <<retry, client, server, unserved>>

-----------------------------------------------------------------------------
\* Mutant: a refresh that is over lets the next one start, but the calls that
\* wait for it stay.
RefreshedAlone(c) ==
    /\ call[c] = "refreshing" /\ session
    /\ Move({c}, "sent")
    /\ isRefreshing' = FALSE
    /\ UNCHANGED <<retry, rejected, failedQueue, leaving, server, unserved>>

\* The refresh is answered: processQueue(null), and all are sent again as they
\* were, those that waited without a mark.
Refreshed(c) ==
    /\ call[c] = "refreshing" /\ session
    /\ Move(failedQueue \cup {c}, "sent")
    /\ isRefreshing' = FALSE /\ failedQueue' = {}
    /\ UNCHANGED <<retry, rejected, leaving, server, unserved>>

\* It is refused, or lost: processQueue(refreshError), and on to /login.
RefreshFails(c) ==
    /\ call[c] = "refreshing"
    /\ Move(failedQueue \cup {c}, "idle")
    /\ rejected' = rejected \cup failedQueue \cup {c}
    /\ isRefreshing' = FALSE /\ failedQueue' = {} /\ leaving' = TRUE
    /\ unserved' = unserved \cup failedQueue \cup {c}
    /\ UNCHANGED <<retry, server>>

\* The page is loaded.
Load ==
    /\ leaving
    /\ Move(Call, "idle") /\ rejected' = {}
    /\ isRefreshing' = FALSE /\ failedQueue' = {} /\ leaving' = FALSE
    /\ UNCHANGED <<retry, server, unserved>>

-----------------------------------------------------------------------------
\* The server: with AUTH_DISABLED it asks for no token as long as there is an
\* active administrator; ...
Administrate ==
    /\ asks' = ~asks
    /\ UNCHANGED <<calls, client, session, unserved>>

\* ... a session ends, and its refresh token with it, ...
EndSession ==
    /\ session
    /\ session' = FALSE
    /\ unserved' = unserved \cup {c \in Call : call[c] # "idle"}
    /\ UNCHANGED <<calls, client, asks>>

\* ... and the user signs in again, in this tab or another.
SignIn ==
    /\ ~session
    /\ session' = TRUE
    /\ UNCHANGED <<calls, client, asks, unserved>>

Answer(c) == Succeed(c) \/ Wait(c) \/ Refresh(c) \/ Reject(c) \/ Refreshed(c) \/ RefreshFails(c)

Next ==
    \/ Load \/ Administrate \/ EndSession \/ SignIn
    \/ \E c \in Call : Send(c) \/ Answer(c)

Spec == Init /\ [][Next]_vars

\* Every request the browser sends is answered or fails at last.
Fairness == \A c \in Call : WF_vars(Answer(c))

-----------------------------------------------------------------------------
\* isRefreshing and failedQueue let calls that are answered 401 together, in
\* whatever order, share a refresh: one is under way at a time, who waits waits for
\* it, and a call that is reported as failed has refreshed by itself and was
\* refused a second time, or the refresh was lost, or there was no session.
RefreshIsShared ==
    /\ \A c, d \in Call : call[c] = "refreshing" /\ call[d] = "refreshing" => c = d
    /\ \A c \in Call : call[c] = "waiting" => \E d \in Call : call[d] = "refreshing"
    /\ rejected \subseteq retry \cup unserved

\* Every call ends once no new ones are sent, although each one that waited is
\* refused again and refreshes, or waits, once more.  While new calls keep
\* coming a call may wait for ever behind their refreshes.
CallsEnd ==
    <>[][\A c \in Call : ~Send(c)]_vars => \A c \in Call : call[c] # "idle" ~> call[c] = "idle"

\* "After successful login, app redirects away from /login" (e2e/tests/auth.spec.ts:27),
\* for which GET /users/me must be answered: with a session and an answered
\* refresh a call does not fail.
SessionAnswersCalls == rejected \subseteq unserved
=============================================================================
