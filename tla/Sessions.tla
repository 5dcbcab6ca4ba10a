------------------------------ MODULE Sessions ------------------------------
(***************************************************************************)
(* AuthService and the /auth endpoints (auth/auth.service.ts,              *)
(* auth/auth.controller.ts) over the refresh-token collection, with the    *)
(* administrator, the inactivity sweep, token expiry, the clean-up job,    *)
(* failing database calls and restarts around them.                        *)
(*                                                                         *)
(* A request is served by a worker.  Everything a handler does between two *)
(* awaits that matter is one action, so requests interleave exactly where  *)
(* the handlers await.  A browser keeps one refresh token in its cookie    *)
(* jar and presents it on every request; several tabs share the jar.       *)
(***************************************************************************)
EXTENDS ExpiryStage, FiniteSets, Naturals

CONSTANTS
    Clients,    \* browsers
    Workers,    \* requests in flight at once
    Tokens,     \* refresh token ids (random UUIDs)
    Lines,      \* ghost: a login and the tokens exchanged from it
    None

ASSUME NoneAssumption == None \notin Tokens \cup Users \cup Clients \cup Lines
\* The bounds below count them.
ASSUME FiniteAssumption == IsFiniteSet(Workers) /\ IsFiniteSet(Tokens) /\ IsFiniteSet(Lines)

VARIABLES
    registered, \* users present in the users collection
    flags,      \* the soft-delete and inactivity marks of each user
    docs,       \* the refreshtokens collection
    jar,        \* the refresh_token cookie of each browser
    work        \* the request each worker serves, and where it awaits

authVars == <<registered, flags, docs, jar, work>>
vars == <<authVars, stage>>

Flags == {"deleted", "inactive"}
PCs == {"idle", "save", "delete", "user", "revoke", "issue",
        "schedule", "respond"}

\* "line" and "shared" are ghosts: the login a token descends from, and whether
\* two requests of that login overlapped on the way.
Doc == [tok: Tokens, user: Users, line: Lines, shared: BOOLEAN, expired: BOOLEAN]
Request == [pc: PCs, op: {"none", "register", "login", "refresh", "logout"},
            client: Clients \cup {None}, user: Users \cup {None},
            tok: Tokens \cup {None}, line: Lines \cup {None},
            new: Tokens \cup {None}, shared: BOOLEAN, blocked: BOOLEAN]

TypeOK ==
    /\ registered \subseteq Users
    /\ flags \in [Users -> SUBSET Flags]
    /\ docs \subseteq Doc
    /\ jar \in [Clients -> Tokens \cup {None}]
    /\ work \in [Workers -> Request]
    /\ stage \in [Users -> Stages]

NoRequest == [pc |-> "idle", op |-> "none", client |-> None, user |-> None,
              tok |-> None, line |-> None, new |-> None,
              shared |-> FALSE, blocked |-> FALSE]

Init ==
    /\ registered = {}
    /\ flags = [u \in Users |-> {}]
    /\ docs = {}
    /\ jar = [c \in Clients |-> None]
    /\ work = [w \in Workers |-> NoRequest]
    /\ StageInit

-----------------------------------------------------------------------------
Suspended(u) == flags[u] # {}
Busy == {w \in Workers : work[w].pc # "idle"}
DocsOf(u) == {d \in docs : d.user = u}

\* randomUUID: an id that neither the database, a browser nor a handler knows.
FreshToken(t) ==
    /\ \A d \in docs : d.tok # t
    /\ \A c \in Clients : jar[c] # t
    /\ \A w \in Workers : work[w].tok # t /\ work[w].new # t

UnusedLine(l) ==
    /\ \A d \in docs : d.line # l
    /\ \A w \in Workers : work[w].line # l

\* Any fresh id is as good as another, so which one is taken does not matter.
NewToken == CHOOSE t \in Tokens : FreshToken(t)
NewLine == CHOOSE l \in Lines : UnusedLine(l)

\* Bound: a request starts only while every request in flight can have an id,
\* and a login only while fewer than |Lines| logins are known to the server.
RoomForRequest ==
    Cardinality({t \in Tokens : FreshToken(t)}) > Cardinality(Busy)
RoomForLogin ==
    /\ RoomForRequest
    /\ Cardinality({l \in Lines : UnusedLine(l)}) >
            Cardinality({w \in Busy : work[w].op \in {"register", "login"}})

LineOf(t) ==
    IF \E d \in docs : d.tok = t THEN (CHOOSE d \in docs : d.tok = t).line ELSE None
SharedToken(t) == \E d \in docs : d.tok = t /\ d.shared

\* A worker takes a request; it and those of the same login in flight are marked.
Serve(w, request) ==
    /\ work[w].pc = "idle"
    /\ LET others == {v \in Busy : request.line # None /\ work[v].line = request.line} IN
       work' = [v \in Workers |->
                    CASE v = w -> [request EXCEPT !.shared = @ \/ others # {}]
                      [] v \in others -> [work[v] EXCEPT !.shared = TRUE]
                      [] OTHER -> work[v]]

Goto(w, pc) == work' = [work EXCEPT ![w].pc = pc]
Finish(w) == work' = [work EXCEPT ![w] = NoRequest]
At(w, pc) == work[w].pc = pc

-----------------------------------------------------------------------------
\* Mutants: plausible slips in the handlers below.
RefreshKeepsToken(w) ==
    /\ At(w, "delete")
    /\ Goto(w, "user")
    /\ UNCHANGED <<registered, flags, docs, jar, stage>>

RefreshDeletesAll(w) ==
    /\ At(w, "delete")
    /\ docs' = docs \ DocsOf(work[w].user)
    /\ Goto(w, "user")
    /\ UNCHANGED <<registered, flags, jar, stage>>

RefreshChecksDeletedOnly(w) ==
    /\ At(w, "user")
    /\ \/ "deleted" \in flags[work[w].user] /\ Goto(w, "revoke") /\ UNCHANGED stage
       \/ /\ "deleted" \notin flags[work[w].user]
          /\ StageCancel(work[w].user)
          /\ Goto(w, "issue")
    /\ UNCHANGED <<registered, flags, docs, jar>>

LogoutClearsCookieOnly(w, c) ==
    /\ jar[c] # None
    /\ Serve(w, [NoRequest EXCEPT
                    !.pc = "respond", !.op = "logout", !.client = c, !.tok = jar[c],
                    !.line = LineOf(jar[c]), !.shared = SharedToken(jar[c])])
    /\ UNCHANGED <<registered, flags, docs, jar, stage>>

IssueWithoutUser(w) ==
    /\ At(w, "issue")
    /\ docs' = docs \cup {[tok |-> NewToken, user |-> None, line |-> NewLine,
                           shared |-> FALSE, expired |-> FALSE]}
    /\ Goto(w, "respond")
    /\ UNCHANGED <<registered, flags, jar, stage>>

-----------------------------------------------------------------------------
(* register: findOne by email, then save; the unique index refuses the     *)
(* second of two registrations that both found nobody.  No warning is      *)
(* scheduled on this path.                                                 *)
RegisterFind(w, c, u) ==
    /\ RoomForLogin
    /\ u \notin registered
    /\ Serve(w, [NoRequest EXCEPT !.pc = "save", !.op = "register",
                                  !.client = c, !.user = u])
    /\ UNCHANGED <<registered, flags, docs, jar, stage>>

RegisterSave(w) ==
    /\ At(w, "save")
    /\ \/ /\ work[w].user \notin registered
          /\ registered' = registered \cup {work[w].user}
          /\ Goto(w, "issue")
       \/ /\ work[w].user \in registered
          /\ Finish(w)
          /\ UNCHANGED registered
    /\ UNCHANGED <<flags, docs, jar, stage>>

(* login: findOne, password check, and the deleted and inactive checks on  *)
(* that snapshot.                                                          *)
LoginFind(w, c, u) ==
    /\ RoomForLogin
    /\ u \in registered /\ ~Suspended(u)
    /\ Serve(w, [NoRequest EXCEPT !.pc = "issue", !.op = "login",
                                  !.client = c, !.user = u])
    /\ UNCHANGED <<registered, flags, docs, jar, stage>>

(* refresh: the presented token is looked up, alive and not expired ...    *)
RefreshFind(w, c) ==
    /\ RoomForRequest
    /\ \E d \in docs :
        /\ d.tok = jar[c] /\ ~d.expired
        /\ Serve(w, [NoRequest EXCEPT
                        !.pc = "delete", !.op = "refresh", !.client = c,
                        !.user = d.user, !.tok = d.tok, !.line = d.line,
                        !.shared = d.shared, !.blocked = Suspended(d.user)])
    /\ UNCHANGED <<registered, flags, docs, jar, stage>>

(* ... deleted, whether or not it is still there ...                       *)
RefreshDelete(w) ==
    /\ At(w, "delete")
    /\ docs' = {d \in docs : d.tok # work[w].tok}
    /\ Goto(w, "user")
    /\ UNCHANGED <<registered, flags, jar, stage>>

(* ... and its user looked up: a suspended user's tokens are all removed,  *)
(* anyone else's pending forced logout is cancelled.                       *)
RefreshUser(w) ==
    /\ At(w, "user")
    /\ \/ /\ Suspended(work[w].user)
          /\ Goto(w, "revoke")
          /\ UNCHANGED stage
       \/ /\ ~Suspended(work[w].user)
          /\ StageCancel(work[w].user)
          /\ Goto(w, "issue")
    /\ UNCHANGED <<registered, flags, docs, jar>>

RefreshRevoke(w) ==
    /\ At(w, "revoke")
    /\ docs' = docs \ DocsOf(work[w].user)
    /\ Finish(w)
    /\ UNCHANGED <<registered, flags, jar, stage>>

(* generateRefreshToken: a new document; register answers right away, the  *)
(* others schedule the warning first.  A login or a registration starts a  *)
(* new line, an exchange continues the line of the token presented.        *)
generateRefreshToken(w) ==
    /\ At(w, "issue")
    /\ LET t == NewToken
           l == IF work[w].op = "refresh" THEN work[w].line ELSE NewLine
       IN
       /\ docs' = docs \cup {[tok |-> t, user |-> work[w].user, line |-> l,
                              shared |-> work[w].shared, expired |-> FALSE]}
       /\ work' = [work EXCEPT
                    ![w].new = t, ![w].line = l,
                    ![w].pc = IF work[w].op = "register" THEN "respond" ELSE "schedule"]
    /\ UNCHANGED <<registered, flags, jar, stage>>

(* The access token lives 15 minutes, so the warning is 14:30 away.        *)
ScheduleWarning(w) ==
    /\ At(w, "schedule")
    /\ StageSchedule(work[w].user, FALSE)
    /\ Goto(w, "respond")
    /\ UNCHANGED <<registered, flags, docs, jar>>

(* logout: no guard runs on this route, so only the token path of the      *)
(* service is ever taken; pending timers are left alone.                   *)
Logout(w, c) ==
    /\ jar[c] # None
    /\ Serve(w, [NoRequest EXCEPT
                    !.pc = "respond", !.op = "logout", !.client = c, !.tok = jar[c],
                    !.line = LineOf(jar[c]), !.shared = SharedToken(jar[c])])
    /\ docs' = {d \in docs : d.tok # jar[c]}
    /\ UNCHANGED <<registered, flags, jar, stage>>

(* The answer sets or clears the cookies, unless it is lost on the way.    *)
Respond(w) ==
    /\ At(w, "respond")
    /\ \/ jar' = [jar EXCEPT ![work[w].client] = work[w].new]
       \/ UNCHANGED jar
    /\ Finish(w)
    /\ UNCHANGED <<registered, flags, docs, stage>>

-----------------------------------------------------------------------------
(* A database call throws, before or after it took effect: the handler     *)
(* ends with an error and the browser keeps its cookie.                    *)
Fail(w) ==
    /\ ~At(w, "idle")
    /\ Finish(w)
    /\ UNCHANGED <<registered, flags, docs, jar, stage>>

(* The process restarts: requests and timers are lost.                     *)
Restart ==
    /\ work' = [w \in Workers |-> NoRequest]
    /\ StageRestart
    /\ UNCHANGED <<registered, flags, docs, jar>>

(* Administrators and the inactivity sweep set and clear the marks.        *)
Suspend(u, f) ==
    /\ u \in registered /\ f \notin flags[u]
    /\ flags' = [flags EXCEPT ![u] = @ \cup {f}]
    /\ UNCHANGED <<registered, docs, jar, work, stage>>

Reinstate(u, f) ==
    /\ f \in flags[u]
    /\ flags' = [flags EXCEPT ![u] = @ \ {f}]
    /\ work' = IF flags[u] = {f}
               THEN [w \in Workers |-> IF work[w].user = u
                        THEN [work[w] EXCEPT !.blocked = FALSE] ELSE work[w]]
               ELSE work
    /\ UNCHANGED <<registered, docs, jar, stage>>

(* Seven days pass for a token.                                            *)
Expire(t) ==
    /\ \E d \in docs :
        /\ d.tok = t /\ ~d.expired
        /\ docs' = (docs \ {d}) \cup {[d EXCEPT !.expired = TRUE]}
    /\ UNCHANGED <<registered, flags, jar, work, stage>>

(* RefreshTokenCleanupService, and MongoDB's TTL index.                    *)
removeExpiredRefreshTokens ==
    /\ \E d \in docs : d.expired
    /\ docs' = {d \in docs : ~d.expired}
    /\ UNCHANGED <<registered, flags, jar, work, stage>>

TimerFires(u) ==
    /\ StageWarn(u) \/ StageForceLogout(u)
    /\ UNCHANGED authVars

Arrive(w) == \E c \in Clients :
    \/ \E u \in Users : RegisterFind(w, c, u) \/ LoginFind(w, c, u)
    \/ RefreshFind(w, c)
    \/ Logout(w, c)

Continue(w) ==
    \/ RegisterSave(w)
    \/ RefreshDelete(w) \/ RefreshUser(w) \/ RefreshRevoke(w)
    \/ generateRefreshToken(w) \/ ScheduleWarning(w)
    \/ Respond(w)

Next ==
    \/ \E w \in Workers : Arrive(w) \/ Continue(w) \/ Fail(w)
    \/ Restart
    \/ \E u \in Users :
        \/ \E f \in Flags : Suspend(u, f) \/ Reinstate(u, f)
        \/ TimerFires(u)
    \/ \E t \in Tokens : Expire(t)
    \/ removeExpiredRefreshTokens

Spec == Init /\ [][Next]_vars

(* Handlers are scheduled, time passes, and the hourly job runs.           *)
Fairness ==
    /\ \A w \in Workers : WF_vars(Continue(w))
    /\ \A t \in Tokens : WF_vars(Expire(t))
    /\ WF_vars(removeExpiredRefreshTokens)

FairSpec == Spec /\ Fairness

-----------------------------------------------------------------------------
\* The tokens of a login that are alive or about to be issued in exchange.
Bearers(l, alone) ==
    Cardinality({d \in docs : d.line = l /\ (alone => ~d.shared)}) +
    Cardinality({w \in Workers : /\ work[w].line = l /\ (alone => ~work[w].shared)
                                 /\ work[w].pc \in {"user", "issue"}})

(* Rotation keeps a login at one refresh token: as long as no two requests *)
(* of a login overlap, an exchange never leaves two tokens alive, whatever *)
(* fails, restarts or is lost in between (auth.service.ts:168-212).        *)
RotationKeepsOneToken == \A l \in Lines : Bearers(l, TRUE) <= 1

(* A logout ends its login for good: when it answers, no token of the login*)
(* is alive or about to be issued, unless a refresh of it overlapped       *)
(* (auth.service.ts:143-148).                                              *)
LogoutEndsSession == \A w \in Workers :
    /\ work[w].op = "logout" /\ work[w].line # None /\ ~work[w].shared
    => Bearers(work[w].line, FALSE) = 0

(* A refresh that began while its user was suspended, and went on with the *)
(* user suspended all along, gets no token (auth.service.ts:189-207).      *)
SuspendedGetsNoToken == \A w \in Workers :
    work[w].blocked => work[w].pc \notin {"issue", "schedule", "respond"}

(* A request ends no session but its own: a live token disappears only     *)
(* when a request presents it, or when a refresh found its owner suspended.*)
OtherSessionsSurvive ==
    [][\A d \in docs : ~d.expired /\ (\A e \in docs' : e.tok # d.tok) =>
        \E w \in Workers :
            \/ work[w].tok = d.tok
            \/ work'[w].tok = d.tok
            \/ work[w].pc = "revoke" /\ work[w].user = d.user]_vars

(* A user who stays suspended ends up with no refresh token at all: what   *)
(* was in flight at the suspension is refused or expires in the end.       *)
SuspensionEndsSessions == \A u \in Users :
    <>[]Suspended(u) => <>[](DocsOf(u) = {})
=============================================================================
