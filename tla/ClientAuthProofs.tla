-------------------------- MODULE ClientAuthProofs --------------------------
(***************************************************************************)
(* The theorems about ClientAuth, for every number of requests and tokens. *)
(***************************************************************************)
EXTENDS ClientAuth, TLAPS

-----------------------------------------------------------------------------
(* The inductive invariant.  Until two authentication calls cross, at most *)
(* one part of the tab is busy with one, ...                               *)
Authenticates(c) == InFlight(c) \/ (c \in Requests /\ LoggingIn(c))
Exclusive == \A c, d \in Callers : Authenticates(c) /\ Authenticates(d) => c = d

\* ... so that a refresh under way presents the token of the jar, and one that was
\* refused tells that this token is dead.
RefreshTruthful ==
    \A c \in Refreshers :
        /\ call[c].pc = "sent" => call[c].token = jar
        /\ call[c].pc = "failed" => jar \notin live

Uncrossed == ~crossed => ~kicked /\ Exclusive /\ RefreshTruthful

AuthIInv == TypeOK /\ QueueHasRefresh /\ Uncrossed

-----------------------------------------------------------------------------
(* The records of requests and calls.                                      *)
LEMMA RecordsTyped ==
  /\ IdleRequest \in Request /\ NoCall \in Call
  /\ IdleRequest.pc = "idle" /\ IdleRequest.kind = "data"
  /\ NoCall.pc = "none" /\ NoCall.token = None
  /\ \A valid \in BOOLEAN, r \in Request :
        /\ Sent(valid, r) \in Request
        /\ Sent(valid, r).pc = "sent" /\ Sent(valid, r).kind = r.kind
  /\ \A token \in Tokens \cup {None}, by \in {"init", "modal", "button", "nobody"} :
        /\ CallWith(token, by) \in Call
        /\ CallWith(token, by).pc = "sent" /\ CallWith(token, by).token = token
BY DEF IdleRequest, NoCall, Request, Call, Sent, CallWith

\* One request changes.
LEMMA OneRequest ==
  ASSUME request \in [Requests -> Request], NEW r \in Requests, NEW q \in Request,
         request' = [request EXCEPT ![r] = q]
  PROVE  /\ request' \in [Requests -> Request]
         /\ \A s \in Requests : request'[s] = IF s = r THEN q ELSE request[s]
OBVIOUS

\* Writing one caller's call leaves the others alone.
LEMMA OneCall ==
  ASSUME call \in [Callers -> Call], NEW c \in Callers, NEW k \in Call,
         call' = [call EXCEPT ![c] = k]
  PROVE  /\ call' \in [Callers -> Call]
         /\ \A d \in Callers : call'[d] = IF d = c THEN k ELSE call[d]
OBVIOUS

\* processQueue answers those who queue, and nobody else.
LEMMA ProcessedTyped ==
  ASSUME request \in [Requests -> Request], NEW ok \in BOOLEAN
  PROVE  /\ Processed(ok) \in [Requests -> Request]
         /\ \A r \in Requests :
                /\ request[r].pc # "queued" => Processed(ok)[r] = request[r]
                /\ request[r].pc = "queued" => Processed(ok)[r].pc \in {"idle", "sent"}
                /\ Processed(ok)[r].kind \in {request[r].kind, "data"}
<1>1. ASSUME NEW r \in Requests
      PROVE  Processed(ok)[r] = IF request[r].pc # "queued" THEN request[r]
                                ELSE IF ok THEN Sent(TRUE, request[r]) ELSE IdleRequest
  BY DEF Processed, Queued
<1>2. Processed(ok) = [r \in Requests |-> Processed(ok)[r]]
  BY DEF Processed
<1> HIDE DEF Processed
<1>3. ASSUME NEW r \in Requests
      PROVE  /\ Processed(ok)[r] \in Request
             /\ request[r].pc # "queued" => Processed(ok)[r] = request[r]
             /\ request[r].pc = "queued" => Processed(ok)[r].pc \in {"idle", "sent"}
             /\ Processed(ok)[r].kind \in {request[r].kind, "data"}
  <2>1. /\ request[r] \in Request /\ IdleRequest \in Request
        /\ IdleRequest.pc = "idle" /\ IdleRequest.kind = "data"
        /\ Sent(TRUE, request[r]) \in Request
        /\ Sent(TRUE, request[r]).pc = "sent"
        /\ Sent(TRUE, request[r]).kind = request[r].kind
    BY RecordsTyped
  <2>2. CASE request[r].pc # "queued"
    BY <1>1, <2>1, <2>2
  <2>3. CASE request[r].pc = "queued" /\ ok
    BY <1>1, <2>1, <2>3
  <2>4. CASE request[r].pc = "queued" /\ ~ok
    BY <1>1, <2>1, <2>4
  <2>5. QED
    BY <2>2, <2>3, <2>4
<1>4. Processed(ok) \in [Requests -> Request]
  BY <1>2, <1>3
<1>5. QED
  BY <1>3, <1>4

-----------------------------------------------------------------------------
(* The queue.                                                              *)
QueueOK == TypeOK /\ QueueHasRefresh

\* A request that is neither queued nor refreshing is sent, settled or begun, and no
\* interceptor call changes hands.
LEMMA PlainRequest ==
  ASSUME QueueOK, NEW r \in Requests, NEW q \in Request,
         request[r].pc \in {"idle", "sent"}, q.pc \in {"idle", "sent"},
         request' = [request EXCEPT ![r] = q],
         call' \in [Callers -> Call],
         \A s \in Requests : call'[s] = call[s],
         isRefreshing' = isRefreshing,
         {user', loggedOut', modal', access', crossed', kicked'} \subseteq BOOLEAN,
         jar' \in Tokens \cup {None}, live' \subseteq Tokens
  PROVE  QueueOK'
<1>1. request' \in [Requests -> Request]
      /\ \A s \in Requests : request'[s] = IF s = r THEN q ELSE request[s]
  BY OneRequest DEF QueueOK, TypeOK
<1>2. \A s \in Requests : request'[s].pc = "refreshing" <=> request[s].pc = "refreshing"
  BY <1>1
<1>3. \A s \in Requests : request'[s].pc = "queued" <=> request[s].pc = "queued"
  BY <1>1
<1>4. QueueHasRefresh'
  BY <1>2, <1>3 DEF QueueOK, QueueHasRefresh, Queued
<1>5. \A s \in Requests : request'[s].pc = "refreshing" <=> InFlight(s)'
  BY <1>2 DEF QueueOK, TypeOK, InFlight
<1>6. QED
  BY <1>1, <1>4, <1>5 DEF QueueOK, TypeOK

\* No request changes but in the token it holds, and no call of the interceptor ends.
LEMMA PlainCall ==
  ASSUME QueueOK,
         request' \in [Requests -> Request],
         \A r \in Requests : request'[r].pc = request[r].pc,
         call' \in [Callers -> Call],
         \A r \in Requests : call'[r].pc = "none" <=> call[r].pc = "none",
         isRefreshing' = isRefreshing,
         {user', loggedOut', modal', access', crossed', kicked'} \subseteq BOOLEAN,
         jar' \in Tokens \cup {None}, live' \subseteq Tokens
  PROVE  QueueOK'
<1>1. QueueHasRefresh'
  BY DEF QueueOK, QueueHasRefresh, Queued
<1>2. \A s \in Requests : request'[s].pc = "refreshing" <=> InFlight(s)'
  BY DEF QueueOK, TypeOK, InFlight
<1>3. QED
  BY <1>1, <1>2 DEF QueueOK, TypeOK

\* The interceptor's refresh ends, and the queue with it.
LEMMA QueueEnds ==
  ASSUME QueueOK, NEW r \in Requests, InFlight(r), NEW q \in Request, q.pc \in {"idle", "sent"},
         NEW ok \in BOOLEAN, request' = [Processed(ok) EXCEPT ![r] = q],
         call' = [call EXCEPT ![r] = NoCall], isRefreshing' = FALSE,
         {user', loggedOut', modal', access', crossed', kicked'} \subseteq BOOLEAN,
         jar' \in Tokens \cup {None}, live' \subseteq Tokens
  PROVE  QueueOK'
<1>1. request \in [Requests -> Request] /\ call \in [Callers -> Call] /\ r \in Callers
  BY DEF QueueOK, TypeOK, Callers
<1>2. /\ request' \in [Requests -> Request]
      /\ \A s \in Requests : request'[s] = IF s = r THEN q ELSE Processed(ok)[s]
  BY <1>1, ProcessedTyped
<1>3. /\ call' \in [Callers -> Call]
      /\ \A d \in Callers : call'[d] = IF d = r THEN NoCall ELSE call[d]
  BY <1>1, OneCall, RecordsTyped
<1>4. \A s \in Requests \ {r} : request[s].pc # "refreshing" /\ ~InFlight(s)
  BY DEF QueueOK, QueueHasRefresh, TypeOK
<1>5. \A s \in Requests : request'[s].pc \notin {"refreshing", "queued"}
  BY <1>1, <1>2, <1>4, ProcessedTyped
<1>6. \A s \in Requests : ~InFlight(s)'
  BY <1>3, <1>4, RecordsTyped DEF Callers, InFlight
<1>7. QueueHasRefresh'
  BY <1>5 DEF QueueHasRefresh, Queued
<1>8. QED
  BY <1>2, <1>3, <1>5, <1>6, <1>7 DEF QueueOK, TypeOK

\* The interceptor's own steps keep a refresh behind every queue.
LEMMA InterceptorKeepsQueue ==
  ASSUME QueueOK, NEW r \in Requests,
         Waits(r) \/ Refreshes(r) \/ InterceptorRefreshed(r) \/ InterceptorRefreshFailed(r)
  PROVE  QueueOK'
<1>1. /\ request \in [Requests -> Request] /\ call \in [Callers -> Call] /\ r \in Callers
      /\ request[r] \in Request /\ call[r] \in Call
      /\ jar \in Tokens \cup {None} /\ live \subseteq Tokens
      /\ {user, loggedOut, modal, access, crossed, kicked} \subseteq BOOLEAN
  BY DEF QueueOK, TypeOK, Callers
<1>2. CASE Waits(r)
  <2> DEFINE q == [request[r] EXCEPT !.pc = "queued"]
  <2>1. q \in Request /\ q.pc = "queued"
    BY <1>1 DEF Request
  <2>2. request' = [request EXCEPT ![r] = q]
    BY <1>2 DEF Waits
  <2> HIDE DEF q
  <2>3. /\ request' \in [Requests -> Request]
        /\ \A s \in Requests : request'[s] = IF s = r THEN q ELSE request[s]
    BY <1>1, <2>1, <2>2, OneRequest
  <2>4. request[r].pc = "sent" /\ isRefreshing
    BY <1>2 DEF Waits, Unauthorized
  <2>5. UNCHANGED <<call, isRefreshing, user, loggedOut, modal, jar, access, live, crossed, kicked>>
    BY <1>2 DEF Waits, client, ghosts
  <2>6. \A s \in Requests : request'[s].pc = "refreshing" <=> request[s].pc = "refreshing"
    BY <2>1, <2>3, <2>4
  <2>7. QueueHasRefresh'
    BY <2>4, <2>5, <2>6 DEF QueueOK, QueueHasRefresh
  <2>8. QED
    BY <1>1, <2>3, <2>5, <2>6, <2>7 DEF QueueOK, TypeOK, InFlight
<1>3. CASE Refreshes(r)
  <2> DEFINE q == [request[r] EXCEPT !.pc = "refreshing", !.retry = TRUE]
  <2>1. q \in Request /\ q.pc = "refreshing"
    BY <1>1 DEF Request
  <2>2. request' = [request EXCEPT ![r] = q]
    BY <1>1, <1>3 DEF Refreshes
  <2> HIDE DEF q
  <2>3. /\ request' \in [Requests -> Request]
        /\ \A s \in Requests : request'[s] = IF s = r THEN q ELSE request[s]
    BY <1>1, <2>1, <2>2, OneRequest
  <2>4. /\ call' \in [Callers -> Call]
        /\ \A d \in Callers : call'[d] = IF d = r THEN CallWith(jar, "nobody") ELSE call[d]
        /\ CallWith(jar, "nobody").pc = "sent"
    BY <1>1, <1>3, OneCall, RecordsTyped DEF Refreshes, Sends
  <2>5. crossed' \in BOOLEAN
    BY <1>1, <1>3 DEF Refreshes, Sends, Crosses
  <2>6. isRefreshing' = TRUE /\ UNCHANGED <<user, loggedOut, modal, jar, access, live, kicked>>
    BY <1>3 DEF Refreshes
  <2>7. \A s \in Requests : request[s].pc # "refreshing" /\ ~InFlight(s)
    BY <1>3 DEF Refreshes, QueueOK, QueueHasRefresh, TypeOK
  <2>8. \A s \in Requests : /\ request'[s].pc = "refreshing" <=> s = r
                            /\ InFlight(s)' <=> s = r
    BY <2>1, <2>3, <2>4, <2>7 DEF InFlight, Callers
  <2>9. QueueHasRefresh'
    BY <2>6, <2>8 DEF QueueHasRefresh
  <2>10. QED
    BY <1>1, <2>3, <2>4, <2>5, <2>6, <2>8, <2>9 DEF QueueOK, TypeOK
<1>4. CASE InterceptorRefreshed(r)
  <2>1. InFlight(r) /\ request[r].pc = "refreshing" /\ call[r].token \in Tokens \cup {None}
    BY <1>1, <1>4 DEF InterceptorRefreshed, InFlight, QueueOK, TypeOK, Call
  <2> DEFINE q == Sent(TRUE, request[r])
  <2>2. Processed(TRUE)[r] = request[r] /\ Processed(TRUE) \in [Requests -> Request]
    BY <1>1, <2>1, ProcessedTyped
  <2>3. request' = [Processed(TRUE) EXCEPT ![r] = q]
    BY <1>4, <2>2 DEF InterceptorRefreshed
  <2>4. q \in Request /\ q.pc = "sent"
    BY <1>1, RecordsTyped
  <2>5. /\ isRefreshing' = FALSE /\ call' = [call EXCEPT ![r] = NoCall]
        /\ UNCHANGED <<user, loggedOut, modal, live, crossed, kicked>>
        /\ jar' = call[r].token /\ access' = TRUE
    BY <1>4 DEF InterceptorRefreshed, ghosts, CookiesSet
  <2> HIDE DEF q
  <2>6. QED
    BY <1>1, <2>1, <2>3, <2>4, <2>5, QueueEnds
<1>5. CASE InterceptorRefreshFailed(r)
  <2>1. InFlight(r)
    BY <1>5 DEF InterceptorRefreshFailed, InFlight
  <2>2. /\ request' = [Processed(FALSE) EXCEPT ![r] = IdleRequest]
        /\ isRefreshing' = FALSE /\ call' = [call EXCEPT ![r] = NoCall]
        /\ user' = FALSE /\ loggedOut' = TRUE /\ modal' = FALSE
        /\ kicked' = (kicked \/ (user /\ jar \in live))
        /\ UNCHANGED <<jar, access, live, crossed>>
    BY <1>5 DEF InterceptorRefreshFailed, performLogout
  <2>3. kicked' \in BOOLEAN
    BY <1>1, <2>2
  <2>4. QED
    BY <1>1, <2>1, <2>2, <2>3, RecordsTyped, QueueEnds
<1>6. QED
  BY <1>2, <1>3, <1>4, <1>5

\* Sending and answering requests leaves the queue alone.
LEMMA RequestsKeepQueue ==
  ASSUME QueueOK, NEW r \in Requests,
         Send(r) \/ SendLogin(r) \/ Succeeds(r) \/ (\E token \in Tokens : LoginSucceeds(r, token))
            \/ Rejected(r) \/ RequestFails(r)
  PROVE  QueueOK'
<1>1. /\ request \in [Requests -> Request] /\ call \in [Callers -> Call]
      /\ request[r] \in Request /\ isRefreshing \in BOOLEAN
      /\ jar \in Tokens \cup {None} /\ live \subseteq Tokens
      /\ {user, loggedOut, modal, access, crossed, kicked} \subseteq BOOLEAN
  BY DEF QueueOK, TypeOK
<1>2. request[r].pc \in {"idle", "sent"}
  BY DEF Send, SendLogin, Succeeds, LoginSucceeds, Rejected, Unauthorized, RequestFails
<1>3. \E q \in Request : q.pc \in {"idle", "sent"} /\ request' = [request EXCEPT ![r] = q]
  <2>1. CASE Send(r)
    BY <1>1, <2>1, RecordsTyped DEF Send
  <2>2. CASE SendLogin(r)
    <3>1. [IdleRequest EXCEPT !.kind = "login"] \in Request
      BY RecordsTyped DEF Request
    <3>2. QED
      BY <1>1, <2>2, <3>1, RecordsTyped DEF SendLogin
  <2>3. CASE request' = [request EXCEPT ![r] = IdleRequest]
    BY <2>3, RecordsTyped
  <2>4. QED
    BY <2>1, <2>2, <2>3 DEF Succeeds, LoginSucceeds, Rejected, RequestFails
<1>4. UNCHANGED <<call, isRefreshing, modal, kicked>>
  BY DEF Send, SendLogin, Succeeds, LoginSucceeds, Rejected, RequestFails, client, ghosts
<1>5. {user', loggedOut', access', crossed'} \subseteq BOOLEAN
  BY <1>1 DEF Send, SendLogin, Succeeds, LoginSucceeds, Rejected, RequestFails, client, ghosts,
     Crosses
<1>6. jar' \in Tokens \cup {None} /\ live' \subseteq Tokens
  BY <1>1 DEF Send, SendLogin, Succeeds, LoginSucceeds, Rejected, RequestFails
<1>7. QED
  BY <1>1, <1>2, <1>3, <1>4, <1>5, <1>6, PlainRequest

\* A call goes on, or AuthContext begins or ends one.
LEMMA PlainCallStep ==
  ASSUME QueueOK, request' = request, NEW c \in Callers, NEW k \in Call,
         call' = [call EXCEPT ![c] = k],
         c \in AuthContext \/ (call[c].pc # "none" /\ k.pc # "none"),
         isRefreshing' = isRefreshing,
         {user', loggedOut', modal', access', crossed', kicked'} \subseteq BOOLEAN,
         jar' \in Tokens \cup {None}, live' \subseteq Tokens
  PROVE  QueueOK'
<1>1. request \in [Requests -> Request] /\ call \in [Callers -> Call]
  BY DEF QueueOK, TypeOK
<1>2. /\ call' \in [Callers -> Call]
      /\ \A d \in Callers : call'[d] = IF d = c THEN k ELSE call[d]
  BY <1>1, OneCall
<1>3. \A r \in Requests : call'[r].pc = "none" <=> call[r].pc = "none"
  BY <1>2, CallersAssumption DEF Callers
<1>4. QED
  BY <1>1, <1>2, <1>3, PlainCall

\* So do the answers of the calls to the server.
LEMMA CallsKeepQueue ==
  ASSUME QueueOK, NEW c \in Callers, Handled(c)
  PROVE  QueueOK'
<1>1. /\ call[c] \in Call /\ live \subseteq Tokens /\ jar \in Tokens \cup {None}
      /\ isRefreshing \in BOOLEAN
      /\ {user, loggedOut, modal, access, crossed, kicked} \subseteq BOOLEAN
  BY DEF QueueOK, TypeOK
<1>2. /\ UNCHANGED <<request, isRefreshing, user, loggedOut, modal, jar, access, kicked>>
      /\ crossed' \in BOOLEAN /\ live' \subseteq Tokens
  BY <1>1 DEF Handled, RefreshHandled, RefreshRefused, CallLost, client, ghosts
<1>3. call[c].pc # "none"
  BY DEF Handled, RefreshHandled, RefreshRefused, CallLost
<1>4. \E k \in Call : k.pc # "none" /\ call' = [call EXCEPT ![c] = k]
  <2>1. ASSUME NEW pc \in {"done", "failed"}, NEW token \in Tokens \cup {None},
               call' = [call EXCEPT ![c].pc = pc, ![c].token = token]
        PROVE  \E k \in Call : k.pc # "none" /\ call' = [call EXCEPT ![c] = k]
    <3> DEFINE k == [call[c] EXCEPT !.pc = pc, !.token = token]
    <3>1. k \in Call /\ k.pc = pc
      BY <1>1 DEF Call
    <3>2. call \in [Callers -> Call]
      BY DEF QueueOK, TypeOK
    <3>3. call' = [call EXCEPT ![c] = k]
      BY <2>1, <3>2
    <3>4. QED
      BY <3>1, <3>3
  <2>2. QED
    BY <2>1 DEF Handled, RefreshHandled, RefreshRefused, CallLost
<1>5. QED
  BY <1>1, <1>2, <1>3, <1>4, PlainCallStep

\* So do logout, the modal and their answers.
LEMMA LogoutsKeepQueue ==
  ASSUME QueueOK,
         LogoutHandled \/ LogoutAnswered \/ ModalRefreshed \/ ClickLogout \/ ForceLogout
            \/ ConfirmRefresh
  PROVE  QueueOK'
<1>1. /\ request \in [Requests -> Request] /\ call \in [Callers -> Call]
      /\ live \subseteq Tokens /\ jar \in Tokens \cup {None}
      /\ isRefreshing \in BOOLEAN
      /\ {user, loggedOut, modal, access, crossed, kicked} \subseteq BOOLEAN
      /\ "logout" \in Callers /\ "refresh" \in Callers
      /\ "logout" \in AuthContext /\ "refresh" \in AuthContext
  BY DEF QueueOK, TypeOK, Callers, AuthContext
<1>2. call["refresh"] \in Call /\ call["logout"] \in Call
  BY <1>1
<1>3. UNCHANGED <<request, isRefreshing, kicked>> /\ live' \subseteq Tokens
  BY <1>1 DEF LogoutHandled, LogoutAnswered, ModalRefreshed, ClickLogout, ForceLogout,
     ConfirmRefresh, client, ghosts
<1>4. {user', loggedOut', modal', access', crossed'} \subseteq BOOLEAN
  BY <1>1 DEF LogoutHandled, LogoutAnswered, ModalRefreshed, ClickLogout, ForceLogout,
     ConfirmRefresh, client, ghosts, performLogout, Sends, Crosses, CookiesSet, CookiesKept
<1>5. jar' \in Tokens \cup {None}
  BY <1>1, <1>2 DEF LogoutHandled, LogoutAnswered, ModalRefreshed, ClickLogout, ForceLogout,
     ConfirmRefresh, client, ghosts, performLogout, Sends, Crosses, CookiesSet, CookiesKept, Call
<1>6. \E c \in AuthContext, k \in Call : call' = [call EXCEPT ![c] = k]
  <2>1. CASE LogoutHandled
    <3> DEFINE k == [call["logout"] EXCEPT !.pc = "done", !.token = None]
    <3>1. k \in Call
      BY <1>2 DEF Call
    <3>2. call' = [call EXCEPT !["logout"] = k]
      BY <1>1, <2>1 DEF LogoutHandled
    <3>3. QED
      BY <1>1, <3>1, <3>2
  <2>2. CASE LogoutAnswered
    BY <1>1, <1>5, <2>2, RecordsTyped DEF LogoutAnswered
  <2>3. CASE ModalRefreshed
    BY <1>1, <2>3, RecordsTyped DEF ModalRefreshed
  <2>4. CASE ClickLogout \/ ForceLogout \/ ConfirmRefresh
    BY <1>1, <2>4, RecordsTyped DEF ClickLogout, ForceLogout, ConfirmRefresh, Sends
  <2>5. QED
    BY <2>1, <2>2, <2>3, <2>4
<1>7. AuthContext \subseteq Callers
  BY DEF Callers
<1>8. QED
  BY <1>1, <1>3, <1>4, <1>5, <1>6, <1>7, PlainCallStep

\* So do timers, the server and a reload.
LEMMA OthersKeepQueue ==
  ASSUME QueueOK,
         InitRefreshed \/ ModalRefreshFailed \/ TokenExpiring \/ AccessExpires \/ SessionDies
            \/ Reload \/ UNCHANGED vars
  PROVE  QueueOK'
<1>1. /\ request \in [Requests -> Request] /\ call \in [Callers -> Call]
      /\ live \subseteq Tokens /\ jar \in Tokens \cup {None}
      /\ isRefreshing \in BOOLEAN
      /\ {user, loggedOut, modal, access, crossed, kicked} \subseteq BOOLEAN
      /\ "logout" \in Callers /\ "refresh" \in Callers
      /\ "logout" \in AuthContext /\ "refresh" \in AuthContext
  BY DEF QueueOK, TypeOK, Callers, AuthContext
<1>2. CASE InitRefreshed
  <2>1. /\ call' = [call EXCEPT !["refresh"] = NoCall]
        /\ UNCHANGED <<isRefreshing, user, loggedOut, modal, live, crossed, kicked>>
    BY <1>2 DEF InitRefreshed, client, ghosts
  <2>2. jar' \in Tokens \cup {None} /\ access' \in BOOLEAN
    BY <1>1, <1>2 DEF InitRefreshed, CookiesSet, CookiesKept, Call
  <2>3. /\ call' \in [Callers -> Call]
        /\ \A d \in Callers \ {"refresh"} : call'[d] = call[d]
    BY <1>1, <2>1, OneCall, RecordsTyped
  <2>4. \A r \in Requests : call'[r] = call[r]
    BY <1>1, <2>3, CallersAssumption DEF Callers
  <2>5. CASE request' = request
    BY <1>1, <2>1, <2>2, <2>3, <2>4, <2>5, PlainCall
  <2>6. ASSUME NEW r \in Requests, request[r].pc = "idle",
               request' = [request EXCEPT ![r] = Sent(TRUE, [IdleRequest EXCEPT !.kind = "me"])]
        PROVE  QueueOK'
    <3>1. [IdleRequest EXCEPT !.kind = "me"] \in Request
      BY RecordsTyped DEF Request
    <3>2. /\ Sent(TRUE, [IdleRequest EXCEPT !.kind = "me"]) \in Request
          /\ Sent(TRUE, [IdleRequest EXCEPT !.kind = "me"]).pc = "sent"
      BY <3>1, RecordsTyped
    <3>3. QED
      BY <1>1, <2>1, <2>2, <2>3, <2>4, <2>6, <3>2, PlainRequest
  <2>7. QED
    BY <1>2, <2>5, <2>6 DEF InitRefreshed
<1>3. CASE ModalRefreshFailed
  <2>1. call' = [call EXCEPT !["refresh"] = NoCall, !["logout"] = CallWith(jar, "nobody")]
    BY <1>3 DEF ModalRefreshFailed
  <2>2. CallWith(jar, "nobody") \in Call /\ NoCall \in Call
    BY <1>1, RecordsTyped
  <2>3. /\ call' \in [Callers -> Call]
        /\ \A d \in Callers \ AuthContext : call'[d] = call[d]
    BY <1>1, <2>1, <2>2 DEF AuthContext
  <2>4. \A r \in Requests : call'[r] = call[r]
    BY <2>3, CallersAssumption DEF Callers
  <2>5. {user', loggedOut', modal', access', crossed', kicked'} \subseteq BOOLEAN
    BY <1>1, <1>3 DEF ModalRefreshFailed, performLogout, Crosses
  <2>6. UNCHANGED <<request, isRefreshing, jar, live>>
    BY <1>3 DEF ModalRefreshFailed
  <2>7. QED
    BY <1>1, <2>3, <2>4, <2>5, <2>6, PlainCall
<1>4. CASE TokenExpiring \/ SessionDies \/ UNCHANGED vars
  <2>1. /\ UNCHANGED <<request, call, isRefreshing, user, loggedOut, jar, access, crossed, kicked>>
        /\ modal' \in BOOLEAN /\ live' \subseteq Tokens
    BY <1>1, <1>4 DEF TokenExpiring, SessionDies, vars, client, ghosts
  <2>2. QED
    BY <1>1, <2>1, PlainCall
<1>5. CASE AccessExpires
  <2>1. /\ request' = [r \in Requests |-> [request[r] EXCEPT !.valid = FALSE]]
        /\ access' = FALSE
        /\ UNCHANGED <<call, isRefreshing, user, loggedOut, modal, jar, live, crossed, kicked>>
    BY <1>5 DEF AccessExpires, client, ghosts
  <2>2. \A r \in Requests : /\ [request[r] EXCEPT !.valid = FALSE] \in Request
                            /\ [request[r] EXCEPT !.valid = FALSE].pc = request[r].pc
    BY <1>1 DEF Request
  <2>3. request' \in [Requests -> Request] /\ \A r \in Requests : request'[r].pc = request[r].pc
    BY <2>1, <2>2
  <2>4. QED
    BY <1>1, <2>1, <2>3, PlainCall
<1>6. CASE Reload
  <2>1. /\ request' = [r \in Requests |-> IdleRequest]
        /\ call' = [c \in Callers |-> IF c = "refresh" /\ ~loggedOut
                                       THEN CallWith(jar, "init") ELSE NoCall]
        /\ isRefreshing' = FALSE /\ user' = FALSE /\ modal' = FALSE
        /\ UNCHANGED <<loggedOut, jar, access, live, kicked>>
    BY <1>6 DEF Reload
  <2>2. crossed' \in BOOLEAN
    BY <1>1, <1>6 DEF Reload
  <2>3. CallWith(jar, "init") \in Call
    BY <1>1, RecordsTyped
  <2>4. request' \in [Requests -> Request] /\ call' \in [Callers -> Call]
    BY <2>1, <2>3, RecordsTyped
  <2>5. \A r \in Requests : request'[r].pc = "idle" /\ ~InFlight(r)'
    BY <2>1, CallersAssumption, RecordsTyped DEF InFlight, Callers, AuthContext
  <2>6. QueueHasRefresh'
    BY <2>1, <2>5 DEF QueueHasRefresh, Queued
  <2>7. QED
    BY <1>1, <2>1, <2>2, <2>4, <2>5, <2>6 DEF QueueOK, TypeOK
<1>7. QED
  BY <1>2, <1>3, <1>4, <1>5, <1>6

\* Every step keeps a refresh behind every queue.
LEMMA QueueInvariant == QueueOK /\ [Next]_vars => QueueOK'
BY InterceptorKeepsQueue, RequestsKeepQueue, CallsKeepQueue, LogoutsKeepQueue, OthersKeepQueue
   DEF Next, Settles, Delivered

\* Nobody queues at first.
LEMMA QueueInit == Init => QueueOK
<1> SUFFICES ASSUME Init PROVE QueueOK
  OBVIOUS
<1>1. \A r \in Requests : request[r].pc = "idle" /\ ~InFlight(r)
  BY RecordsTyped DEF Init, InFlight, Callers
<1>2. QueueHasRefresh
  BY <1>1 DEF Init, QueueHasRefresh, Queued
<1>3. QED
  BY <1>1, <1>2, RecordsTyped DEF Init, QueueOK, TypeOK

-----------------------------------------------------------------------------
(* What holds until two authentication calls cross.                        *)
Lonely == QueueOK /\ ~crossed /\ Uncrossed

\* Nobody but one caller is busy with authentication after the step.
LEMMA OnlyOne ==
  ASSUME NEW c \in Callers, \A d \in Callers \ {c} : ~Authenticates(d)',
         c \in Refreshers =>
            /\ call'[c].pc = "sent" => call'[c].token = jar'
            /\ call'[c].pc = "failed" => jar' \notin live',
         ~kicked'
  PROVE  Uncrossed'
<1>1. Exclusive'
  BY DEF Exclusive
<1>2. \A d \in Refreshers \ {c} : call'[d].pc = "none"
  BY DEF Authenticates, InFlight, Refreshers, Callers, AuthContext
<1>3. RefreshTruthful'
  BY <1>2 DEF RefreshTruthful
<1>4. QED
  BY <1>1, <1>3 DEF Uncrossed

\* The step begins no authentication, ends none and leaves the jar alone.
LEMMA NothingBegins ==
  ASSUME Lonely, call' = call, jar' = jar, live' \subseteq live, kicked' = kicked,
         \A r \in Requests : LoggingIn(r)' => LoggingIn(r)
  PROVE  Uncrossed'
<1>1. Exclusive /\ RefreshTruthful /\ ~kicked
  BY DEF Lonely, Uncrossed
<1>2. \A c \in Callers : Authenticates(c)' => Authenticates(c)
  BY DEF Authenticates, InFlight
<1>3. Exclusive'
  BY <1>1, <1>2 DEF Exclusive
<1>4. RefreshTruthful'
  BY <1>1 DEF RefreshTruthful
<1>5. QED
  BY <1>1, <1>3, <1>4 DEF Uncrossed

\* A call that authenticates is the only one as long as calls did not cross.
LEMMA Alone ==
  ASSUME Lonely, NEW c \in Callers, Authenticates(c)
  PROVE  /\ \A d \in Callers \ {c} : ~Authenticates(d)
         /\ \A d \in Callers \ {c} : ~InFlight(d)
         /\ \A r \in Requests \ {c} : ~LoggingIn(r)
         /\ ~kicked
BY DEF Lonely, Uncrossed, Exclusive, Authenticates, Callers

\* A call sent that crosses no other.
LEMMA SentAlone ==
  ASSUME Lonely, NEW c \in Callers, NEW by \in {"modal", "button", "nobody"},
         Sends(c, by), ~crossed', UNCHANGED <<jar, kicked>>,
         c \in Requests => ~isRefreshing,
         \A r \in Requests : LoggingIn(r)' => LoggingIn(r)
  PROVE  Uncrossed'
<1>1. TypeOK /\ QueueHasRefresh /\ ~kicked
  BY DEF Lonely, QueueOK, Uncrossed
<1>2. ~Crosses(c) /\ call' = [call EXCEPT ![c] = CallWith(jar, by)]
  BY DEF Sends
<1>3. /\ \A d \in Callers : call'[d] = IF d = c THEN CallWith(jar, by) ELSE call[d]
      /\ CallWith(jar, by).pc = "sent" /\ CallWith(jar, by).token = jar
  BY <1>1, <1>2, OneCall, RecordsTyped DEF TypeOK
<1>4. \A r \in Requests : c \in Requests => ~InFlight(r)
  BY <1>1 DEF TypeOK, QueueHasRefresh
<1>5. \A d \in Callers \ {c} : ~InFlight(d)
  BY <1>2, <1>4 DEF Crosses
<1>6. \A r \in Requests \ {c} : ~LoggingIn(r)
  BY <1>2 DEF Crosses
<1>7. \A d \in Callers \ {c} : ~Authenticates(d)'
  BY <1>3, <1>5, <1>6 DEF Authenticates, InFlight
<1>8. QED
  BY <1>1, <1>3, <1>7, OnlyOne

\* The steps of a request keep what holds until calls cross.
LEMMA RequestsUncrossed ==
  ASSUME Lonely, NEW r \in Requests, ~crossed', QueueOK',
         Send(r) \/ SendLogin(r) \/ Settles(r)
  PROVE  Uncrossed'
<1>1. /\ request \in [Requests -> Request] /\ call \in [Callers -> Call] /\ r \in Callers
      /\ request[r] \in Request /\ TypeOK /\ ~kicked
  BY DEF Lonely, QueueOK, TypeOK, Callers, Uncrossed
<1>2. ASSUME NEW q, request' = [request EXCEPT ![r] = q], q.kind \in {request[r].kind, "data"},
             UNCHANGED <<call, jar, live, kicked>>
      PROVE  Uncrossed'
  <2>1. \A s \in Requests : request'[s] = IF s = r THEN q ELSE request[s]
    BY <1>1, <1>2
  <2>2. \A s \in Requests : LoggingIn(s)' => LoggingIn(s)
    BY <1>2, <2>1 DEF LoggingIn
  <2>3. QED
    BY <1>2, <2>2, NothingBegins
<1>3. CASE Send(r)
  <2>1. Sent(access, IdleRequest).kind = "data"
    BY DEF Sent, IdleRequest
  <2>2. QED
    BY <1>2, <1>3, <2>1 DEF Send, ghosts
<1>4. CASE SendLogin(r)
  <2>1. ~Crosses(None) /\ request' = [request EXCEPT
                              ![r] = Sent(access, [IdleRequest EXCEPT !.kind = "login"])]
        /\ UNCHANGED <<call, kicked>>
    BY <1>4 DEF SendLogin
  <2>2. None \notin Callers
    BY NoneAssumption
  <2>3. (\A s \in Requests : ~LoggingIn(s)) /\ (\A d \in Callers : ~InFlight(d))
    BY <2>1, <2>2 DEF Crosses, Callers
  <2>4. \A s \in Requests \ {r} : request'[s] = request[s]
    BY <1>1, <2>1
  <2>5. \A d \in Callers : call'[d].pc = "none"
    BY <2>1, <2>3 DEF InFlight
  <2>6. \A d \in Callers \ {r} : ~Authenticates(d)'
    BY <2>3, <2>4, <2>5 DEF Authenticates, InFlight, LoggingIn
  <2>7. QED
    BY <1>1, <2>1, <2>5, <2>6, OnlyOne
<1>5. CASE Succeeds(r) \/ Rejected(r) \/ RequestFails(r)
  BY <1>2, <1>5, RecordsTyped DEF Succeeds, Rejected, RequestFails, ghosts
<1>6. ASSUME NEW token \in Tokens, LoginSucceeds(r, token) PROVE Uncrossed'
  <2>1. LoggingIn(r) /\ ~InFlight(r)
    BY <1>1, <1>6 DEF LoginSucceeds, TypeOK
  <2>2. /\ \A d \in Callers \ {r} : ~Authenticates(d) /\ ~InFlight(d)
        /\ \A s \in Requests \ {r} : ~LoggingIn(s)
    BY <1>1, <2>1, Alone DEF Authenticates
  <2>3. /\ request' = [request EXCEPT ![r] = IdleRequest] /\ call' = call /\ kicked' = kicked
    BY <1>6 DEF LoginSucceeds, ghosts
  <2>4. \A s \in Requests \ {r} : request'[s] = request[s]
    BY <1>1, <2>3
  <2>5. \A d \in Callers : call'[d].pc = "none"
    BY <2>1, <2>2, <2>3 DEF InFlight
  <2>6. \A d \in Callers \ {r} : ~Authenticates(d)'
    BY <2>2, <2>4, <2>5 DEF Authenticates, InFlight, LoggingIn
  <2>7. QED
    BY <1>1, <2>3, <2>5, <2>6, OnlyOne
<1>7. CASE Waits(r)
  <2>1. [request[r] EXCEPT !.pc = "queued"].kind = request[r].kind
    BY <1>1 DEF Request
  <2>2. request' = [request EXCEPT ![r] = [request[r] EXCEPT !.pc = "queued"]]
    BY <1>7 DEF Waits
  <2>3. QED
    BY <1>2, <1>7, <2>1, <2>2 DEF Waits, ghosts
<1>8. CASE Refreshes(r)
  <2> DEFINE q == [request[r] EXCEPT !.pc = "refreshing", !.retry = TRUE]
  <2>1. q.kind = request[r].kind
    BY <1>1 DEF Request
  <2>2. request' = [request EXCEPT ![r] = q]
    BY <1>1, <1>8 DEF Refreshes
  <2> HIDE DEF q
  <2>3. \A s \in Requests : LoggingIn(s)' => LoggingIn(s)
    BY <1>1, <2>1, <2>2 DEF LoggingIn
  <2>4. QED
    BY <1>1, <1>8, <2>3, SentAlone DEF Refreshes
<1>9. QED
  BY <1>3, <1>4, <1>5, <1>6, <1>7, <1>8 DEF Settles

\* The answers of the calls keep it.
LEMMA CallsUncrossed ==
  ASSUME Lonely, NEW c \in Callers, ~crossed', Handled(c)
  PROVE  Uncrossed'
<1>1. call \in [Callers -> Call] /\ call[c] \in Call /\ ~kicked /\ RefreshTruthful
  BY DEF Lonely, QueueOK, TypeOK, Uncrossed
<1>2. UNCHANGED <<request, jar, kicked>> /\ ~CallLost(c)
  BY DEF Handled, RefreshHandled, RefreshRefused, CallLost, client, ghosts
<1>3. c \in Refreshers /\ call[c].pc = "sent" /\ InFlight(c)
  BY <1>2 DEF Handled, RefreshHandled, RefreshRefused, InFlight
<1>4. \A d \in Callers \ {c} : ~Authenticates(d)
  BY <1>3, Alone DEF Authenticates
<1>5. \A d \in Callers \ {c} : call'[d] = call[d]
  BY <1>1, <1>2 DEF Handled, RefreshHandled, RefreshRefused
<1>6. \A d \in Callers \ {c} : ~Authenticates(d)'
  BY <1>2, <1>4, <1>5 DEF Authenticates, InFlight, LoggingIn
<1>7. /\ call'[c].pc # "sent"
      /\ call'[c].pc = "failed" => jar' \notin live'
  <2>1. CASE RefreshRefused(c)
    <3>1. call[c].token = jar /\ call[c].token \notin live /\ live' = live
      BY <1>1, <1>3, <2>1 DEF RefreshRefused, RefreshTruthful
    <3>2. call'[c] = [call[c] EXCEPT !.pc = "failed", !.token = None]
      BY <1>1, <2>1 DEF RefreshRefused
    <3>3. QED
      BY <1>1, <1>2, <3>1, <3>2 DEF Call
  <2>2. ASSUME NEW token \in Tokens, RefreshHandled(c, token) PROVE call'[c].pc = "done"
    <3>1. call'[c] = [call[c] EXCEPT !.pc = "done", !.token = token]
      BY <1>1, <2>2 DEF RefreshHandled
    <3>2. QED
      BY <1>1, <3>1 DEF Call
  <2>3. QED
    BY <1>2, <2>1, <2>2 DEF Handled
<1>8. QED
  BY <1>1, <1>2, <1>6, <1>7, OnlyOne

\* The answer of a refresh reaches the interceptor or AuthContext.
LEMMA AnswersUncrossed ==
  ASSUME Lonely, ~crossed', QueueOK', Delivered
  PROVE  Uncrossed'
<1>1. /\ call \in [Callers -> Call] /\ request \in [Requests -> Request]
      /\ ~kicked /\ RefreshTruthful /\ Requests \subseteq Callers
      /\ "refresh" \in Callers /\ "logout" \in Callers
      /\ "refresh" \notin Requests /\ "logout" \notin Requests
      /\ jar \in Tokens \cup {None} /\ "logout" \notin Refreshers
  BY CallersAssumption DEF Lonely, QueueOK, TypeOK, Uncrossed, Callers, AuthContext, Refreshers
<1>2. ASSUME NEW r \in Requests, InterceptorRefreshed(r) \/ InterceptorRefreshFailed(r)
      PROVE  Uncrossed'
  <2>1. InFlight(r)
    BY <1>2 DEF InterceptorRefreshed, InterceptorRefreshFailed, InFlight
  <2>2. \A d \in Callers \ {r} : ~Authenticates(d)
    BY <1>1, <2>1, Alone DEF Authenticates
  <2>3. call' = [call EXCEPT ![r] = NoCall]
    BY <1>2 DEF InterceptorRefreshed, InterceptorRefreshFailed
  <2>4. call'[r].pc = "none" /\ \A d \in Callers \ {r} : call'[d] = call[d]
    BY <1>1, <2>3, OneCall, RecordsTyped
  <2>5. \A s \in Requests \ {r} : request'[s].kind \in {request[s].kind, "data"}
    <3>1. \A ok \in BOOLEAN : /\ Processed(ok) \in [Requests -> Request]
             /\ \A s \in Requests : Processed(ok)[s].kind \in {request[s].kind, "data"}
      BY <1>1, ProcessedTyped
    <3>2. CASE InterceptorRefreshed(r)
      BY <3>1, <3>2 DEF InterceptorRefreshed
    <3>3. CASE InterceptorRefreshFailed(r)
      BY <3>1, <3>3 DEF InterceptorRefreshFailed
    <3>4. QED
      BY <1>2, <3>2, <3>3
  <2>6. \A d \in Callers \ {r} : ~Authenticates(d)'
    BY <2>2, <2>4, <2>5 DEF Authenticates, InFlight, LoggingIn
  <2>7. ~kicked'
    <3>1. CASE InterceptorRefreshed(r)
      BY <1>1, <3>1 DEF InterceptorRefreshed, ghosts
    <3>2. CASE InterceptorRefreshFailed(r)
      BY <1>1, <3>2 DEF InterceptorRefreshFailed, RefreshTruthful, Refreshers
    <3>3. QED
      BY <1>2, <3>1, <3>2
  <2>8. QED
    BY <1>1, <2>4, <2>6, <2>7, OnlyOne
<1>3. CASE InitRefreshed \/ ModalRefreshed
  <2>1. InFlight("refresh")
    BY <1>3 DEF InitRefreshed, ModalRefreshed, InFlight
  <2>2. \A d \in Callers \ {"refresh"} : ~Authenticates(d)
    BY <1>1, <2>1, Alone DEF Authenticates
  <2>3. call' = [call EXCEPT !["refresh"] = NoCall] /\ kicked' = kicked
    BY <1>3 DEF InitRefreshed, ModalRefreshed, ghosts
  <2>4. call'["refresh"].pc = "none" /\ \A d \in Callers \ {"refresh"} : call'[d] = call[d]
    BY <1>1, <2>3, OneCall, RecordsTyped
  <2>5. \A s \in Requests : request'[s].kind \in {request[s].kind, "me"}
    <3>1. CASE request' = request
      BY <3>1
    <3>2. ASSUME NEW r \in Requests,
                 request' = [request EXCEPT ![r] = Sent(TRUE, [IdleRequest EXCEPT !.kind = "me"])]
          PROVE  \A s \in Requests : request'[s].kind \in {request[s].kind, "me"}
      <4>1. Sent(TRUE, [IdleRequest EXCEPT !.kind = "me"]).kind = "me"
        BY DEF Sent, IdleRequest
      <4>2. QED
        BY <1>1, <3>2, <4>1
    <3>3. QED
      BY <1>3, <3>1, <3>2 DEF InitRefreshed, ModalRefreshed
  <2>6. \A d \in Callers \ {"refresh"} : ~Authenticates(d)'
    BY <2>2, <2>4, <2>5 DEF Authenticates, InFlight, LoggingIn
  <2>7. QED
    BY <1>1, <2>3, <2>4, <2>6, OnlyOne
<1>4. CASE ModalRefreshFailed
  <2>1. call["refresh"].pc = "failed" /\ InFlight("refresh") /\ request' = request
    BY <1>4 DEF ModalRefreshFailed, InFlight
  <2>2. \A d \in Callers \ {"refresh"} : ~Authenticates(d)
    BY <1>1, <2>1, Alone DEF Authenticates
  <2>3. call' = [call EXCEPT !["refresh"] = NoCall, !["logout"] = CallWith(jar, "nobody")]
    BY <1>4 DEF ModalRefreshFailed
  <2>4. call'["refresh"] = NoCall /\ \A d \in Callers \ AuthContext : call'[d] = call[d]
    BY <1>1, <2>3 DEF AuthContext
  <2>5. NoCall.pc = "none"
    BY RecordsTyped
  <2>6. \A d \in Callers \ {"logout"} : ~Authenticates(d)'
    BY <1>1, <2>1, <2>2, <2>4, <2>5 DEF Authenticates, InFlight, LoggingIn, AuthContext
  <2>7. ~kicked'
    BY <1>1, <1>4, <2>1 DEF ModalRefreshFailed, RefreshTruthful, Refreshers
  <2>8. QED
    BY <1>1, <2>6, <2>7, OnlyOne
<1>5. CASE LogoutHandled \/ LogoutAnswered
  <2>1. InFlight("logout") /\ request' = request /\ kicked' = kicked
    BY <1>5 DEF LogoutHandled, LogoutAnswered, InFlight, ghosts
  <2>2. \A d \in Callers \ {"logout"} : ~Authenticates(d)
    BY <1>1, <2>1, Alone DEF Authenticates
  <2>3. \A d \in Callers \ {"logout"} : call'[d] = call[d]
    BY <1>1, <1>5 DEF LogoutHandled, LogoutAnswered
  <2>4. \A d \in Callers \ {"logout"} : ~Authenticates(d)'
    BY <2>1, <2>2, <2>3 DEF Authenticates, InFlight, LoggingIn
  <2>5. QED
    BY <1>1, <2>1, <2>4, OnlyOne
<1>6. QED
  BY <1>2, <1>3, <1>4, <1>5 DEF Delivered

\* Logout, the modal, timers, the server and a reload keep it.
LEMMA OthersUncrossed ==
  ASSUME Lonely, ~crossed',
         ClickLogout \/ ForceLogout \/ ConfirmRefresh \/ TokenExpiring \/ AccessExpires
            \/ SessionDies \/ Reload \/ UNCHANGED vars
  PROVE  Uncrossed'
<1>1. /\ call \in [Callers -> Call] /\ request \in [Requests -> Request] /\ ~kicked
      /\ "refresh" \in Callers /\ "logout" \in Callers
      /\ "refresh" \notin Requests /\ "logout" \notin Requests /\ jar \in Tokens \cup {None}
  BY CallersAssumption DEF Lonely, QueueOK, TypeOK, Uncrossed, Callers, AuthContext
<1>2. CASE ClickLogout \/ ForceLogout
  <2>1. request' = request /\ UNCHANGED <<jar, kicked>>
        /\ (Sends("logout", "button") \/ Sends("logout", "nobody"))
    BY <1>2 DEF ClickLogout, ForceLogout
  <2>2. QED
    BY <1>1, <2>1, SentAlone DEF LoggingIn
<1>3. CASE ConfirmRefresh
  <2>1. request' = request /\ UNCHANGED <<jar, kicked>> /\ Sends("refresh", "modal")
    BY <1>3 DEF ConfirmRefresh
  <2>2. QED
    BY <1>1, <2>1, SentAlone DEF LoggingIn
<1>4. CASE TokenExpiring \/ SessionDies \/ UNCHANGED vars
  <2>1. UNCHANGED <<request, call, jar, kicked>> /\ live' \subseteq live
    BY <1>4 DEF TokenExpiring, SessionDies, vars, ghosts
  <2>2. QED
    BY <2>1, NothingBegins DEF LoggingIn
<1>5. CASE AccessExpires
  <2>1. /\ request' = [r \in Requests |-> [request[r] EXCEPT !.valid = FALSE]]
        /\ UNCHANGED <<call, jar, live, kicked>>
    BY <1>5 DEF AccessExpires, ghosts
  <2>2. \A r \in Requests : [request[r] EXCEPT !.valid = FALSE].kind = request[r].kind
    BY <1>1 DEF Request
  <2>3. \A r \in Requests : LoggingIn(r)' => LoggingIn(r)
    BY <2>1, <2>2 DEF LoggingIn
  <2>4. QED
    BY <2>1, <2>3, NothingBegins
<1>6. CASE Reload
  <2>1. /\ request' = [r \in Requests |-> IdleRequest]
        /\ call' = [c \in Callers |-> IF c = "refresh" /\ ~loggedOut
                                       THEN CallWith(jar, "init") ELSE NoCall]
        /\ jar' = jar /\ kicked' = kicked
    BY <1>6 DEF Reload
  <2>2. /\ NoCall.pc = "none" /\ IdleRequest.kind = "data"
        /\ CallWith(jar, "init").pc = "sent" /\ CallWith(jar, "init").token = jar
    BY <1>1, RecordsTyped
  <2>3. \A d \in Callers \ {"refresh"} : ~Authenticates(d)'
    BY <2>1, <2>2 DEF Authenticates, InFlight, LoggingIn
  <2>4. call'["refresh"].pc \in {"sent", "none"} /\ (call'["refresh"].pc = "sent" =>
            call'["refresh"].token = jar')
    BY <1>1, <2>1, <2>2
  <2>5. QED
    BY <1>1, <2>1, <2>3, <2>4, OnlyOne
<1>7. QED
  BY <1>2, <1>3, <1>4, <1>5, <1>6

\* Calls that crossed have crossed for good.
LEMMA CrossedForGood == [Next]_vars /\ ~crossed' => ~crossed
BY DEF Next, vars, ghosts, client, Settles, Handled, Delivered, Send, SendLogin, Succeeds,
   LoginSucceeds, Rejected, Waits, Refreshes, Sends, RequestFails, RefreshHandled,
   RefreshRefused, CallLost, InterceptorRefreshed, InterceptorRefreshFailed, InitRefreshed,
   ModalRefreshed, ModalRefreshFailed, LogoutHandled, LogoutAnswered, ClickLogout, ForceLogout,
   TokenExpiring, ConfirmRefresh, AccessExpires, SessionDies, Reload

-----------------------------------------------------------------------------
(* The theorems.                                                           *)

\* The invariant above holds in every reachable state.
THEOREM AuthInvariant == Spec => []AuthIInv
<1>1. Init => AuthIInv
  <2> SUFFICES ASSUME Init PROVE AuthIInv
    OBVIOUS
  <2>1. \A c \in Callers : ~Authenticates(c)
    BY RecordsTyped DEF Init, Authenticates, InFlight, LoggingIn
  <2>2. RefreshTruthful
    BY RecordsTyped DEF Init, RefreshTruthful, Refreshers, Callers, AuthContext
  <2>3. QED
    BY <2>1, <2>2, QueueInit DEF Init, AuthIInv, QueueOK, Uncrossed, Exclusive
<1>2. AuthIInv /\ [Next]_vars => AuthIInv'
  <2> SUFFICES ASSUME AuthIInv, [Next]_vars PROVE AuthIInv'
    OBVIOUS
  <2>1. QueueOK /\ QueueOK'
    BY QueueInvariant DEF AuthIInv, QueueOK
  <2>2. CASE crossed'
    BY <2>1, <2>2 DEF AuthIInv, QueueOK, Uncrossed
  <2>3. CASE ~crossed'
    <3>1. Lonely
      BY <2>1, <2>3, CrossedForGood DEF AuthIInv, Lonely
    <3>2. Uncrossed'
      BY <2>1, <2>3, <3>1, RequestsUncrossed, CallsUncrossed, AnswersUncrossed, OthersUncrossed
         DEF Next
    <3>3. QED
      BY <2>1, <3>2 DEF AuthIInv, QueueOK
  <2>4. QED
    BY <2>2, <2>3
<1>3. QED
  BY <1>1, <1>2, PTL DEF Spec

(* Types; in particular a request that began a refresh waits for it as     *)
(* long as the call is under way (axios.ts:112-142).                       *)
THEOREM AuthTypeCorrect == Spec => []TypeOK
<1>1. AuthIInv => TypeOK
  BY DEF AuthIInv
<1>2. QED
  BY <1>1, AuthInvariant, PTL

(* Whatever the pages ask for and however the calls end, the requests in   *)
(* failedQueue are waiting for the one refresh of the interceptor          *)
(* (axios.ts:95-142).                                                      *)
THEOREM QueueAnswered == Spec => []QueueHasRefresh
<1>1. AuthIInv => QueueHasRefresh
  BY DEF AuthIInv
<1>2. QED
  BY <1>1, AuthInvariant, PTL

(* A session that is alive is given up only after authentication calls     *)
(* crossed or one was lost, however many requests met an expired token     *)
(* (axios.ts:95-142, AuthContext.tsx:212-222).                             *)
THEOREM NobodyKickedAlone == Spec => []KickedForCause
<1>1. AuthIInv => KickedForCause
  BY DEF AuthIInv, Uncrossed, KickedForCause
<1>2. QED
  BY <1>1, AuthInvariant, PTL
=============================================================================
