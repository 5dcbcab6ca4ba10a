----------------------------- MODULE ClientAuth -----------------------------
(***************************************************************************)
(* Authentication in one browser tab: the response interceptor of          *)
(* client/src/api/axios.ts with its isRefreshing flag and failedQueue, the *)
(* calls of authApi.ts, and AuthContext.tsx, which refreshes on loading    *)
(* and from the modal without asking the interceptor's flag.  The server   *)
(* is what it answers: a refresh or a login replaces the refresh token in  *)
(* the cookie jar, and a refresh token works once.                         *)
(***************************************************************************)
EXTENDS FiniteSets

CONSTANTS
    Requests,   \* slots for the requests of the pages
    Tokens,     \* refresh tokens (reused once nobody holds them)
    None

\* The interceptor calls for a request; AuthContext has one refresh and one logout
\* under way at a time.
AuthContext == {"refresh", "logout"}
Callers == Requests \cup AuthContext
Refreshers == Requests \cup {"refresh"}

ASSUME NoneAssumption == None \notin Tokens \cup Callers
ASSUME CallersAssumption == Requests \cap AuthContext = {}

VARIABLES
    request,        \* the request in each slot
    call,           \* POST /auth/refresh or /auth/logout under way for each caller
    isRefreshing,   \* axios.ts
    user,           \* AuthContext: somebody is logged in
    loggedOut,      \* the logout marker in localStorage
    modal,          \* AuthContext: showRefreshModal
    jar,            \* the refresh token in the cookie jar
    access,         \* the access token is present and has not expired
    live,           \* the server's refresh tokens of this user
    crossed,        \* ghost: two authentication calls were under way at once, or
                    \* the network lost one
    kicked          \* ghost: the client gave up a session that was alive

client == <<isRefreshing, user, loggedOut, modal>>
ghosts == <<crossed, kicked>>
vars == <<request, call, isRefreshing, user, loggedOut, modal, jar, access, live,
          crossed, kicked>>

\* "valid": the access token sent along is unexpired; "retry" is _retry; "me" asks
\* who is logged in.
Request == [pc: {"idle", "sent", "queued", "refreshing"}, kind: {"data", "login", "me"},
            retry: BOOLEAN, valid: BOOLEAN]
IdleRequest == [pc |-> "idle", kind |-> "data", retry |-> FALSE, valid |-> FALSE]
LoggingIn(r) == request[r].kind = "login"

\* "token" is the cookie sent along, then the cookie of the answer; "by" is the part
\* of the tab that waits for it, if it is not the interceptor.
Call == [pc: {"none", "sent", "done", "failed"}, token: Tokens \cup {None},
         by: {"init", "modal", "button", "nobody"}]
NoCall == [pc |-> "none", token |-> None, by |-> "nobody"]
CallWith(token, by) == [pc |-> "sent", token |-> token, by |-> by]

InFlight(c) == call[c].pc # "none"
Queued == {r \in Requests : request[r].pc = "queued"}

\* Authentication calls that a new one of this caller would cross; that two
\* refreshes of the interceptor cross is its own business.
Crosses(c) ==
    \/ \E r \in Requests \ {c} : LoggingIn(r)
    \/ \E d \in Callers \ {c} : InFlight(d) /\ (c \notin Requests \/ d \notin Requests)

FreeTokens == Tokens \ (live \cup {jar} \cup {call[c].token : c \in Callers})

TypeOK ==
    /\ request \in [Requests -> Request]
    /\ call \in [Callers -> Call]
    /\ {isRefreshing, user, loggedOut, modal, access, crossed, kicked} \subseteq BOOLEAN
    /\ jar \in Tokens \cup {None}
    /\ live \subseteq Tokens
    /\ \A r \in Requests : request[r].pc = "refreshing" <=> InFlight(r)

\* The tab opens without cookies.
Init ==
    /\ request = [r \in Requests |-> IdleRequest]
    /\ call = [c \in Callers |-> NoCall]
    /\ isRefreshing = FALSE
    /\ user = FALSE /\ loggedOut = FALSE /\ modal = FALSE
    /\ jar = None /\ access = FALSE /\ live = {}
    /\ crossed = FALSE /\ kicked = FALSE

-----------------------------------------------------------------------------
(* Building blocks.                                                        *)
Sent(valid, r) == [r EXCEPT !.pc = "sent", !.valid = valid]

\* A caller sends an authentication call with the cookie in the jar.
Sends(c, by) ==
    /\ ~InFlight(c)
    /\ call' = [call EXCEPT ![c] = CallWith(jar, by)]
    /\ crossed' = (crossed \/ Crosses(c))

(* performLogout: the tab forgets the user and, unless told to skip it,    *)
(* sends POST /auth/logout without waiting for the answer.                 *)
performLogout ==
    /\ user' = FALSE
    /\ loggedOut' = TRUE
    /\ modal' = FALSE

\* processQueue: every queued request is sent again, or rejected.
Processed(ok) ==
    [r \in Requests |-> IF r \notin Queued THEN request[r]
                     ELSE IF ok THEN Sent(TRUE, request[r]) ELSE IdleRequest]

-----------------------------------------------------------------------------
(* Requests through the interceptor.                                       *)
Send(r) ==
    /\ request[r].pc = "idle"
    /\ user
    /\ request' = [request EXCEPT ![r] = Sent(access, IdleRequest)]
    /\ UNCHANGED <<call, client, jar, access, live, ghosts>>

SendLogin(r) ==
    /\ request[r].pc = "idle"
    /\ ~user
    /\ request' = [request EXCEPT ![r] = Sent(access, [IdleRequest EXCEPT !.kind = "login"])]
    /\ crossed' = (crossed \/ Crosses(None))
    /\ UNCHANGED <<call, client, jar, access, live, kicked>>

(* A request is answered: GET /auth/me tells who is logged in, and the     *)
(* right password brings new cookies and clears the marker.                *)
Succeeds(r) ==
    /\ request[r].pc = "sent"
    /\ ~LoggingIn(r) /\ request[r].valid
    /\ request' = [request EXCEPT ![r] = IdleRequest]
    /\ user' = (user \/ request[r].kind = "me")
    /\ UNCHANGED <<call, isRefreshing, loggedOut, modal, jar, access, live, ghosts>>

LoginSucceeds(r, token) ==
    /\ request[r].pc = "sent" /\ LoggingIn(r)
    /\ token \in FreeTokens
    /\ request' = [request EXCEPT ![r] = IdleRequest]
    /\ live' = live \cup {token}
    /\ jar' = token /\ access' = TRUE
    /\ user' = TRUE /\ loggedOut' = FALSE
    /\ UNCHANGED <<call, isRefreshing, modal, ghosts>>

\* 401: an expired token, or the wrong password.
Unauthorized(r) == request[r].pc = "sent" /\ (LoggingIn(r) \/ ~request[r].valid)

Rejected(r) ==
    /\ Unauthorized(r) /\ request[r].retry
    /\ request' = [request EXCEPT ![r] = IdleRequest]
    /\ UNCHANGED <<call, client, jar, access, live, ghosts>>

Waits(r) ==
    /\ Unauthorized(r) /\ ~request[r].retry
    /\ isRefreshing
    /\ request' = [request EXCEPT ![r].pc = "queued"]
    /\ UNCHANGED <<call, client, jar, access, live, ghosts>>

\* Mutant: every 401 begins a refresh of its own.
RefreshesEach(r) ==
    /\ Unauthorized(r) /\ ~request[r].retry
    /\ isRefreshing' = TRUE
    /\ request' = [request EXCEPT ![r].pc = "refreshing", ![r].retry = TRUE]
    /\ Sends(r, "nobody")
    /\ UNCHANGED <<user, loggedOut, modal, jar, access, live, kicked>>

Refreshes(r) ==
    /\ Unauthorized(r) /\ ~request[r].retry
    /\ ~isRefreshing
    /\ isRefreshing' = TRUE
    /\ request' = [request EXCEPT ![r].pc = "refreshing", ![r].retry = TRUE]
    /\ Sends(r, "nobody")
    /\ UNCHANGED <<user, loggedOut, modal, jar, access, live, kicked>>

\* No answer, or one that is not a 401.
RequestFails(r) ==
    /\ request[r].pc = "sent"
    /\ request' = [request EXCEPT ![r] = IdleRequest]
    /\ crossed' = (crossed \/ LoggingIn(r))
    /\ UNCHANGED <<call, client, jar, access, live, kicked>>

-----------------------------------------------------------------------------
(* Calls of POST /auth/refresh and POST /auth/logout.  The server handles  *)
(* them one at a time and may have ended the session itself.               *)
RefreshHandled(c, token) ==
    /\ c \in Refreshers /\ call[c].pc = "sent"
    /\ call[c].token \in live
    /\ token \in FreeTokens
    /\ live' = (live \ {call[c].token}) \cup {token}
    /\ call' = [call EXCEPT ![c].pc = "done", ![c].token = token]
    /\ UNCHANGED <<request, client, jar, access, ghosts>>

RefreshRefused(c) ==
    /\ c \in Refreshers /\ call[c].pc = "sent"
    /\ call[c].token \notin live
    /\ call' = [call EXCEPT ![c].pc = "failed", ![c].token = None]
    /\ UNCHANGED <<request, client, jar, access, live, ghosts>>

LogoutHandled ==
    /\ call["logout"].pc = "sent"
    /\ live' = live \ {call["logout"].token}
    /\ call' = [call EXCEPT !["logout"].pc = "done", !["logout"].token = None]
    /\ UNCHANGED <<request, client, jar, access, ghosts>>

\* The network loses a call or its answer.
CallLost(c) ==
    /\ call[c].pc \in {"sent", "done"}
    /\ call' = [call EXCEPT ![c].pc = "failed", ![c].token = None]
    /\ crossed' = TRUE
    /\ UNCHANGED <<request, client, jar, access, live, kicked>>

\* The answer of a refresh or a logout sets or clears the cookies.
CookiesSet(c) == jar' = call[c].token /\ access' = TRUE
CookiesKept == UNCHANGED <<jar, access>>

\* Mutants: the flag stays set; the request that began the refresh is forgotten.
RefreshedKeepsFlag(r) ==
    /\ call[r].pc = "done"
    /\ CookiesSet(r)
    /\ request' = [Processed(TRUE) EXCEPT ![r] = Sent(TRUE, @)]
    /\ call' = [call EXCEPT ![r] = NoCall]
    /\ UNCHANGED <<client, live, ghosts>>

FailureForgetsRequest(r) ==
    /\ call[r].pc = "failed"
    /\ request' = Processed(FALSE)
    /\ isRefreshing' = FALSE
    /\ call' = [call EXCEPT ![r] = NoCall]
    /\ performLogout
    /\ UNCHANGED <<jar, access, live, ghosts>>

(* refreshAccessToken returns to the interceptor: the queue and the request*)
(* that began the refresh are sent again, or all of them are rejected and  *)
(* the tab logs out without calling the server.                            *)
InterceptorRefreshed(r) ==
    /\ call[r].pc = "done"
    /\ CookiesSet(r)
    /\ request' = [Processed(TRUE) EXCEPT ![r] = Sent(TRUE, @)]
    /\ isRefreshing' = FALSE
    /\ call' = [call EXCEPT ![r] = NoCall]
    /\ UNCHANGED <<user, loggedOut, modal, live, ghosts>>

InterceptorRefreshFailed(r) ==
    /\ call[r].pc = "failed"
    /\ request' = [Processed(FALSE) EXCEPT ![r] = IdleRequest]
    /\ isRefreshing' = FALSE
    /\ call' = [call EXCEPT ![r] = NoCall]
    /\ performLogout
    /\ kicked' = (kicked \/ (user /\ jar \in live))
    /\ UNCHANGED <<jar, access, live, crossed>>

(* initAuth: after a refresh, GET /auth/me tells who is logged in.         *)
InitRefreshed ==
    /\ call["refresh"].pc \in {"done", "failed"} /\ call["refresh"].by = "init"
    /\ IF call["refresh"].pc = "done"
       THEN /\ CookiesSet("refresh")
            /\ \E r \in Requests :
                /\ request[r].pc = "idle"
                /\ request' = [request EXCEPT ![r] =
                                  Sent(TRUE, [IdleRequest EXCEPT !.kind = "me"])]
       ELSE CookiesKept /\ UNCHANGED request
    /\ call' = [call EXCEPT !["refresh"] = NoCall]
    /\ UNCHANGED <<client, live, ghosts>>

(* The refresh of the modal: it closes, or the tab logs out.               *)
ModalRefreshed ==
    /\ call["refresh"].pc = "done" /\ call["refresh"].by = "modal"
    /\ CookiesSet("refresh")
    /\ modal' = FALSE
    /\ call' = [call EXCEPT !["refresh"] = NoCall]
    /\ UNCHANGED <<request, isRefreshing, user, loggedOut, live, ghosts>>

ModalRefreshFailed ==
    /\ call["refresh"].pc = "failed" /\ call["refresh"].by = "modal"
    /\ ~InFlight("logout")
    /\ performLogout
    /\ call' = [call EXCEPT !["refresh"] = NoCall, !["logout"] = CallWith(jar, "nobody")]
    /\ kicked' = (kicked \/ (user /\ jar \in live))
    /\ crossed' = (crossed \/ Crosses("refresh"))
    /\ UNCHANGED <<request, isRefreshing, jar, access, live>>

(* A logout is answered.  The button waits for its own call before it      *)
(* runs performLogout, which calls the server once more.                   *)
LogoutAnswered ==
    /\ call["logout"].pc \in {"done", "failed"}
    /\ IF call["logout"].pc = "done" THEN jar' = None /\ access' = FALSE ELSE CookiesKept
    /\ IF call["logout"].by = "button"
       THEN performLogout /\ call' = [call EXCEPT !["logout"] = CallWith(jar', "nobody")]
       ELSE UNCHANGED <<user, loggedOut, modal>> /\ call' = [call EXCEPT !["logout"] = NoCall]
    /\ UNCHANGED <<request, isRefreshing, live, ghosts>>

-----------------------------------------------------------------------------
(* The user, the server's events and the passing of time.                  *)
ClickLogout ==
    /\ user
    /\ Sends("logout", "button")
    /\ UNCHANGED <<request, client, jar, access, live, kicked>>

\* FORCE_LOGOUT arrives, or the modal is cancelled.
ForceLogout ==
    /\ user
    /\ performLogout
    /\ Sends("logout", "nobody")
    /\ UNCHANGED <<request, isRefreshing, jar, access, live, kicked>>

TokenExpiring ==
    /\ user /\ ~modal
    /\ modal' = TRUE
    /\ UNCHANGED <<request, call, isRefreshing, user, loggedOut, jar, access, live, ghosts>>

ConfirmRefresh ==
    /\ modal
    /\ Sends("refresh", "modal")
    /\ UNCHANGED <<request, client, jar, access, live, kicked>>

AccessExpires ==
    /\ access
    /\ access' = FALSE
    /\ request' = [r \in Requests |-> [request[r] EXCEPT !.valid = FALSE]]
    /\ UNCHANGED <<call, client, jar, live, ghosts>>

SessionDies ==
    /\ live # {}
    /\ live' = {}
    /\ UNCHANGED <<request, call, client, jar, access, ghosts>>

(* The page is loaded again; unless the marker is set it tries a refresh.  *)
(* Answers that were under way are lost.                                   *)
Reload ==
    /\ request' = [r \in Requests |-> IdleRequest]
    /\ call' = [c \in Callers |-> IF c = "refresh" /\ ~loggedOut
                                   THEN CallWith(jar, "init") ELSE NoCall]
    /\ isRefreshing' = FALSE /\ user' = FALSE /\ modal' = FALSE
    /\ crossed' = (crossed \/ \E c \in Callers : InFlight(c)
                           \/ \E r \in Requests : LoggingIn(r))
    /\ UNCHANGED <<loggedOut, jar, access, live, kicked>>

Settles(r) ==
    \/ Succeeds(r) \/ Rejected(r) \/ Waits(r) \/ Refreshes(r) \/ RequestFails(r)
    \/ \E token \in Tokens : LoginSucceeds(r, token)

Handled(c) ==
    \/ \E token \in Tokens : RefreshHandled(c, token)
    \/ RefreshRefused(c) \/ CallLost(c)

Delivered ==
    \/ \E r \in Requests : InterceptorRefreshed(r) \/ InterceptorRefreshFailed(r)
    \/ InitRefreshed \/ ModalRefreshed \/ ModalRefreshFailed
    \/ LogoutHandled \/ LogoutAnswered

Next ==
    \/ \E r \in Requests : Send(r) \/ SendLogin(r)
    \/ \E r \in Requests : Settles(r)
    \/ \E c \in Callers : Handled(c)
    \/ Delivered
    \/ ClickLogout \/ ForceLogout \/ TokenExpiring \/ ConfirmRefresh
    \/ AccessExpires \/ SessionDies \/ Reload

Spec == Init /\ [][Next]_vars

-----------------------------------------------------------------------------
(* While requests wait in failedQueue, exactly one refresh of the          *)
(* interceptor is under way that will answer them, and the flag says so    *)
(* (axios.ts:95-109, 112-142).                                             *)
QueueHasRefresh ==
    /\ Queued # {} => isRefreshing
    /\ isRefreshing <=> \E r \in Requests : request[r].pc = "refreshing"
    /\ \A r, s \in Requests :
        request[r].pc = "refreshing" /\ request[s].pc = "refreshing" => r = s

(* The client gives up a session whose refresh token is alive only after   *)
(* authentication calls of different parts of the tab crossed, or the      *)
(* network lost one: however many requests meet an expired token at once,  *)
(* they do not spend the refresh token twice (axios.ts:95-112,             *)
(* AuthContext.tsx:212-222).                                               *)
KickedForCause == kicked => crossed
=============================================================================
