------------------------------ MODULE Gateway ------------------------------
(***************************************************************************)
(* The WebSocket gateway (auth/auth.gateway.ts) between the token-expiry   *)
(* service and the tabs of the browsers that are logged in                 *)
(* (socket/authSocket.ts and the socket part of AuthContext.tsx): who is   *)
(* connected, who is announced to be online, and which tab hears that its  *)
(* token is about to expire.  The service is ExpiryStage, which            *)
(* TokenExpiry implements with its timers.                                 *)
(*                                                                         *)
(* Every tab is a browser of its own, with its own cookies.  The server    *)
(* joins a socket to its user's room in the same turn of the event loop in *)
(* which it registers it, so handleConnection is one step.  A socket id is *)
(* used again once neither side knows it.                                  *)
(***************************************************************************)
EXTENDS ExpiryStage, Naturals, Sequences

CONSTANTS
    Tabs,
    None,           \* nobody, or an absent map entry
    Sockets,        \* the ids the server gives to its connections
    QueueLimit      \* bound on the events on their way to a tab

ASSUME AbsentAssumption == None \notin Users \cup Sockets
ASSUME LimitAssumption == QueueLimit \in Nat \ {0}

VARIABLES
    tab,            \* AuthContext and authSocket.ts in each tab
    wire,           \* the server's socket of the tab, or None
    refresh,        \* the POST /auth/refresh of the tab that is under way
    peer,           \* client.data.userId of every connected socket, or None
    onlineUsers,    \* auth.gateway.ts: userId -> its socket ids
    due,            \* events emitted to the tab's socket and not yet delivered
    announced,      \* the last ONLINE_USERS_UPDATE sent to the tab's socket
    excused         \* ghost: nobody owes the tab a warning for its access token

gateway == <<peer, onlineUsers, announced>>
tabs == <<tab, wire, refresh, due, excused>>
vars == <<stage, tabs, gateway>>

\* "refused": the server hung up in handleConnection, and the client does not try again.
Tab == [user: Users \cup {None}, socket: {"null", "connecting", "open", "refused"},
        access: BOOLEAN, modal: BOOLEAN]
ClosedTab == [user |-> None, socket |-> "null", access |-> FALSE, modal |-> FALSE]

Refresh == [pc: {"none", "cancelled", "answered", "lost"}, user: Users \cup {None}]
NoRefresh == [pc |-> "none", user |-> None]

Events == {"TOKEN_EXPIRING", "FORCE_LOGOUT"}

GatewayTypeOK ==
    /\ stage \in [Users -> Stages]
    /\ tab \in [Tabs -> Tab]
    /\ wire \in [Tabs -> Sockets \cup {None}]
    /\ refresh \in [Tabs -> Refresh]
    /\ peer \in [Sockets -> Users \cup {None}]
    /\ DOMAIN onlineUsers \subseteq Users
    /\ \A u \in DOMAIN onlineUsers : onlineUsers[u] \subseteq Sockets
    /\ due \in [Tabs -> Seq(Events)]
    /\ announced \in [Tabs -> SUBSET Users]
    /\ excused \in [Tabs -> BOOLEAN]

GatewayInit ==
    /\ StageInit
    /\ tab = [t \in Tabs |-> ClosedTab]
    /\ wire = [t \in Tabs |-> None]
    /\ refresh = [t \in Tabs |-> NoRefresh]
    /\ peer = [s \in Sockets |-> None]
    /\ onlineUsers = [u \in {} |-> {}]
    /\ due = [t \in Tabs |-> <<>>]
    /\ announced = [t \in Tabs |-> {}]
    /\ excused = [t \in Tabs |-> FALSE]

-----------------------------------------------------------------------------
(* The gateway.                                                            *)
Connected(t) == wire[t] # None

\* server.emit: every connected socket is sent the users who are online now.
broadcastOnlineUsers ==
    announced' = [t \in Tabs |-> IF wire'[t] # None THEN DOMAIN onlineUsers' ELSE {}]

\* Mutant: a second socket of a user takes the place of the first.
RegisteredAlone(u, s) ==
    [v \in DOMAIN onlineUsers \cup {u} |-> IF v = u THEN {s} ELSE onlineUsers[v]]

Registered(u, s) ==
    [v \in DOMAIN onlineUsers \cup {u} |->
        (IF v \in DOMAIN onlineUsers THEN onlineUsers[v] ELSE {})
            \cup (IF v = u THEN {s} ELSE {})]

\* The user's entry goes with its last socket.
Unregistered(u, s) ==
    [v \in {w \in DOMAIN onlineUsers : w = u => onlineUsers[w] # {s}} |->
        IF v = u THEN onlineUsers[v] \ {s} ELSE onlineUsers[v]]

\* server.to(userId).emit: the room holds the connected sockets of the user.
Hears(t, u) == Connected(t) /\ peer[wire[t]] = u

emit(u, event) ==
    /\ \A t \in Tabs : Hears(t, u) => Len(due[t]) < QueueLimit
    /\ due' = [t \in Tabs |-> IF Hears(t, u) THEN Append(due[t], event) ELSE due[t]]

\* Mutant: nobody is told of a disconnection.
DisconnectUnannounced(s) ==
    /\ peer[s] # None
    /\ \A t \in Tabs : wire[t] # s
    /\ peer' = [peer EXCEPT ![s] = None]
    /\ onlineUsers' = Unregistered(peer[s], s)
    /\ UNCHANGED <<stage, tabs, announced>>

(* handleConnection: the handshake carries the access token of the cookie  *)
(* jar; without one, or with one that expired, the server hangs up.        *)
handleConnection(t, s) ==
    /\ tab[t].socket = "connecting"
    /\ tab[t].access
    /\ peer[s] = None
    /\ \A other \in Tabs : wire[other] # s
    /\ tab' = [tab EXCEPT ![t].socket = "open"]
    /\ wire' = [wire EXCEPT ![t] = s]
    /\ peer' = [peer EXCEPT ![s] = tab[t].user]
    /\ onlineUsers' = Registered(tab[t].user, s)
    /\ broadcastOnlineUsers
    /\ UNCHANGED <<stage, refresh, due, excused>>

ConnectionRefused(t) ==
    /\ tab[t].socket = "connecting"
    /\ ~tab[t].access
    /\ tab' = [tab EXCEPT ![t].socket = "refused"]
    /\ UNCHANGED <<stage, wire, refresh, due, excused, gateway>>

(* handleDisconnect: the server notices that a socket's tab is gone.       *)
handleDisconnect(s) ==
    /\ peer[s] # None
    /\ \A t \in Tabs : wire[t] # s
    /\ peer' = [peer EXCEPT ![s] = None]
    /\ onlineUsers' = Unregistered(peer[s], s)
    /\ UNCHANGED <<stage, tabs>>
    /\ broadcastOnlineUsers

(* The service's callbacks emit to the user's room.  A tab of the user     *)
(* whose socket is not there is not told, and never will be.  A delay is   *)
(* minutes long: the answer of the refresh that armed it arrives first.    *)
WarningFires(u) ==
    /\ StageWarn(u)
    /\ \A t \in Tabs : refresh[t].pc = "answered" => refresh[t].user # u
    /\ emit(u, "TOKEN_EXPIRING")
    /\ excused' = [t \in Tabs |-> excused[t] \/ (tab[t].user = u /\ ~Hears(t, u))]
    /\ UNCHANGED <<tab, wire, refresh, gateway>>

ForceLogoutFires(u) ==
    /\ StageForceLogout(u)
    /\ emit(u, "FORCE_LOGOUT")
    /\ UNCHANGED <<tab, wire, refresh, excused, gateway>>

-----------------------------------------------------------------------------
(* Logging in and refreshing.  The timers are kept per user: the schedule  *)
(* of one tab takes the place of the other tabs' warnings.                 *)
Superseded(t, u, skipped) ==
    [other \in Tabs |-> IF other = t THEN skipped \/ tab'[t].socket \in {"null", "refused"}
                        ELSE excused[other] \/ tab[other].user = u]

\* A login, or a page loaded with a refresh token in the cookie jar.  The second
\* disjunct: the answer is lost, and the server has scheduled all the same.
Login(t, u, skipped) ==
    /\ tab[t].user = None
    /\ refresh[t].pc = "none"
    /\ StageSchedule(u, skipped)
    /\ \/ tab' = [tab EXCEPT ![t] =
                    [user |-> u, socket |-> "connecting", access |-> TRUE, modal |-> FALSE]]
       \/ UNCHANGED tab
    /\ excused' = Superseded(t, u, skipped)
    /\ UNCHANGED <<wire, refresh, due, gateway>>

(* refreshTokens cancels the forced logout as soon as it has checked the   *)
(* refresh token, and schedules the next warning when the tokens are made. *)
RefreshCancels(t) ==
    /\ tab[t].user # None
    /\ refresh[t].pc = "none"
    /\ StageCancel(tab[t].user)
    /\ refresh' = [refresh EXCEPT ![t] = [pc |-> "cancelled", user |-> tab[t].user]]
    /\ UNCHANGED <<tab, wire, due, excused, gateway>>

\* Mutant: the schedule is forgotten.
RefreshUnscheduled(t, skipped) ==
    /\ refresh[t].pc = "cancelled"
    /\ refresh' = [refresh EXCEPT ![t].pc = "answered"]
    /\ UNCHANGED <<stage, tab, wire, due, gateway>>
    /\ excused' = Superseded(t, refresh[t].user, skipped)

RefreshSchedules(t, skipped) ==
    /\ refresh[t].pc = "cancelled"
    /\ StageSchedule(refresh[t].user, skipped)
    /\ refresh' = [refresh EXCEPT ![t].pc = "answered"]
    /\ UNCHANGED <<tab, wire, due, gateway>>
    /\ excused' = Superseded(t, refresh[t].user, skipped)

\* The modal's refresh closes it; the one of the response interceptor leaves it open.
Refreshed(t) ==
    /\ refresh[t].pc = "answered"
    /\ refresh' = [refresh EXCEPT ![t] = NoRefresh]
    /\ \E modal \in {FALSE, tab[t].modal} :
        tab' = [tab EXCEPT ![t].access = (tab[t].user # None), ![t].modal = modal]
    /\ UNCHANGED <<stage, wire, due, excused, gateway>>

\* Mutant: disconnectAuthSocket is not called.
LogoutKeepsSocket(t) ==
    /\ tab' = [tab EXCEPT ![t].user = None, ![t].modal = FALSE]
    /\ UNCHANGED <<wire, due, announced>>
    /\ excused' = [excused EXCEPT ![t] = FALSE]

(* performLogout, after a click, a FORCE_LOGOUT, a modal that ran out or a *)
(* refresh that failed; a tab that is closed comes to the same.  No guard  *)
(* runs on POST /auth/logout, so the server touches no timer.              *)
performLogout(t) ==
    /\ tab' = [tab EXCEPT ![t] = ClosedTab]
    /\ wire' = [wire EXCEPT ![t] = None]
    /\ due' = [due EXCEPT ![t] = <<>>]
    /\ announced' = [announced EXCEPT ![t] = {}]
    /\ excused' = [excused EXCEPT ![t] = FALSE]

RefreshFails(t) ==
    /\ refresh[t].pc # "none"
    /\ refresh' = [refresh EXCEPT ![t] = NoRefresh]
    /\ performLogout(t)
    /\ UNCHANGED <<stage, peer, onlineUsers>>

Logout(t) ==
    /\ tab[t].user # None
    /\ performLogout(t)
    /\ UNCHANGED <<stage, refresh, peer, onlineUsers>>

-----------------------------------------------------------------------------
(* The events reach the tab, in the order in which they were emitted.      *)
TokenExpiringArrives(t) ==
    /\ due[t] # <<>> /\ Head(due[t]) = "TOKEN_EXPIRING"
    /\ tab' = [tab EXCEPT ![t].modal = TRUE]
    /\ due' = [due EXCEPT ![t] = Tail(@)]
    /\ UNCHANGED <<stage, wire, refresh, excused, gateway>>

ForceLogoutArrives(t) ==
    /\ due[t] # <<>> /\ Head(due[t]) = "FORCE_LOGOUT"
    /\ performLogout(t)
    /\ UNCHANGED <<stage, refresh, peer, onlineUsers>>

Deliver(t) == TokenExpiringArrives(t) \/ ForceLogoutArrives(t)

(* The access token expires.  Its warning is due half a minute earlier, so *)
(* a tab that is owed one does not outlive a pending warning.              *)
AccessExpires(t) ==
    /\ tab[t].access
    /\ excused[t] \/ refresh[t].pc # "none" \/ stage[tab[t].user] # "warning"
    /\ tab' = [tab EXCEPT ![t].access = FALSE]
    /\ UNCHANGED <<stage, wire, refresh, due, excused, gateway>>

\* The tab loses its connection, and connects again by itself.
Disconnected(lost) ==
    /\ tab' = [t \in Tabs |-> IF t \in lost THEN [tab[t] EXCEPT !.socket = "connecting"] ELSE tab[t]]
    /\ wire' = [t \in Tabs |-> IF t \in lost THEN None ELSE wire[t]]
    /\ due' = [t \in Tabs |-> IF t \in lost THEN <<>> ELSE due[t]]
    /\ announced' = [t \in Tabs |-> IF t \in lost THEN {} ELSE announced[t]]

NetworkDrops(t) ==
    /\ Connected(t)
    /\ Disconnected({t})
    /\ excused' = [excused EXCEPT ![t] = TRUE]
    /\ UNCHANGED <<stage, refresh, peer, onlineUsers>>

\* The server restarts: timers, sockets and onlineUsers are in memory only.
ServerRestarts ==
    /\ StageRestart
    /\ Disconnected({t \in Tabs : Connected(t)})
    /\ peer' = [s \in Sockets |-> None]
    /\ onlineUsers' = [u \in {} |-> {}]
    /\ refresh' = [t \in Tabs |->
            IF refresh[t].pc = "none" THEN NoRefresh ELSE [refresh[t] EXCEPT !.pc = "lost"]]
    /\ excused' = [t \in Tabs |-> tab[t].user # None]

GatewayNext ==
    \/ \E t \in Tabs :
        \/ \E u \in Users, skipped \in BOOLEAN : Login(t, u, skipped)
        \/ \E skipped \in BOOLEAN : RefreshSchedules(t, skipped)
        \/ RefreshCancels(t) \/ Refreshed(t) \/ RefreshFails(t) \/ Logout(t)
        \/ \E s \in Sockets : handleConnection(t, s)
        \/ ConnectionRefused(t) \/ NetworkDrops(t) \/ AccessExpires(t)
        \/ Deliver(t)
    \/ \E s \in Sockets : handleDisconnect(s)
    \/ \E u \in Users : WarningFires(u) \/ ForceLogoutFires(u)
    \/ ServerRestarts

GatewaySpec == GatewayInit /\ [][GatewayNext]_vars

-----------------------------------------------------------------------------
(* onlineUsers lists exactly the connected sockets of every user, and only *)
(* users who have one: with several browsers of a user, reconnections that *)
(* overtake the disconnection of the old socket, and restarts, nobody      *)
(* stays online as a ghost or goes missing (auth.gateway.ts:62-68, 89-97). *)
OnlineMatchesSockets ==
    /\ DOMAIN onlineUsers = {peer[s] : s \in Sockets} \ {None}
    /\ \A u \in DOMAIN onlineUsers : onlineUsers[u] = {s \in Sockets : peer[s] = u}

(* Every connected tab has been sent the users who are online now: each    *)
(* change is announced to all, the newcomer included (auth.gateway.ts:74,  *)
(* 103).                                                                   *)
AnnouncementsCurrent ==
    \A t \in Tabs : Connected(t) => announced[t] = DOMAIN onlineUsers

\* The tab has been told, or is about to be, that its session expires.
Told(t) == tab[t].modal \/ \E i \in DOMAIN due[t] : due[t][i] = "TOKEN_EXPIRING"

(* No access token of a logged-in tab expires without a word: the modal is *)
(* open, or TOKEN_EXPIRING is on its way.  Excused are a tab that lost its *)
(* connection or whose server restarted, a delay that is skipped, and a    *)
(* tab whose warning was superseded by the same user in another browser    *)
(* (token-expiry.service.ts:21-45, auth.gateway.ts:106-108).               *)
ExpiryAnnounced ==
    \A t \in Tabs :
        tab[t].user # None /\ ~tab[t].access /\ refresh[t].pc = "none" /\ ~excused[t] =>
            Told(t)

\* The inductive invariant.  A tab's socket is in the room of its user, and two tabs
\* never share one.
RoomsMatchTabs ==
    /\ \A t \in Tabs : Connected(t) => peer[wire[t]] = tab[t].user /\ tab[t].user # None
    /\ \A t \in Tabs : tab[t].user = None => tab[t].socket = "null"
    /\ \A t1, t2 \in Tabs : Connected(t1) /\ wire[t1] = wire[t2] => t1 = t2

\* Whoever is owed a warning has been told, or the service still keeps one for the
\* user, and the token is alive.
WarningOwed ==
    \A t \in Tabs : tab[t].user # None /\ ~excused[t] =>
        /\ refresh[t].pc = "none" =>
            Told(t) \/ (tab[t].access /\ stage[tab[t].user] = "warning")
        /\ refresh[t].pc = "answered" => stage[tab[t].user] = "warning"

\* Whose refresh is under way: the tab's user's, unless the tab has logged out since.
RefreshHasUser ==
    \A t \in Tabs : refresh[t].pc # "none" =>
        refresh[t].user \in Users /\ tab[t].user \in {None, refresh[t].user}

GatewayIInv ==
    /\ GatewayTypeOK
    /\ OnlineMatchesSockets
    /\ RoomsMatchTabs
    /\ AnnouncementsCurrent
    /\ WarningOwed
    /\ RefreshHasUser
=============================================================================
