--------------------------- MODULE GatewayProofs ---------------------------
(***************************************************************************)
(* The theorems about Gateway, for every set of users, tabs and sockets    *)
(* and every bound on the events under way.                                *)
(***************************************************************************)
EXTENDS Gateway, TLAPS

USE AbsentAssumption

-----------------------------------------------------------------------------
(* The type invariant.                                                     *)
LEMMA LogoutTypes ==
  ASSUME GatewayTypeOK, NEW t \in Tabs, performLogout(t)
  PROVE  /\ tab' \in [Tabs -> Tab]
         /\ wire' \in [Tabs -> Sockets \cup {None}]
         /\ due' \in [Tabs -> Seq(Events)]
         /\ announced' \in [Tabs -> SUBSET Users]
         /\ excused' \in [Tabs -> BOOLEAN]
BY DEF GatewayTypeOK, performLogout, Tab, ClosedTab

\* A tab with one of its fields written is a tab.
LEMMA TabTypes ==
  ASSUME GatewayTypeOK, NEW t \in Tabs
  PROVE  /\ [tab EXCEPT ![t].socket = "open"] \in [Tabs -> Tab]
         /\ [tab EXCEPT ![t].socket = "refused"] \in [Tabs -> Tab]
         /\ [tab EXCEPT ![t].modal = TRUE] \in [Tabs -> Tab]
         /\ [tab EXCEPT ![t].access = FALSE] \in [Tabs -> Tab]
         /\ \A access, modal \in BOOLEAN :
                [tab EXCEPT ![t].access = access, ![t].modal = modal] \in [Tabs -> Tab]
         /\ \A u \in Users : [tab EXCEPT ![t] = [user |-> u, socket |-> "connecting",
                                access |-> TRUE, modal |-> FALSE]] \in [Tabs -> Tab]
         /\ [tab[t] EXCEPT !.socket = "connecting"] \in Tab
<1>1. tab \in [Tabs -> Tab] /\ tab[t] \in Tab
  BY DEF GatewayTypeOK
<1>2. QED
  BY <1>1 DEF Tab

\* Tabs that lost their connections keep their types.
LEMMA DisconnectedTypes ==
  ASSUME GatewayTypeOK, NEW lost \in SUBSET Tabs, Disconnected(lost)
  PROVE  /\ tab' \in [Tabs -> Tab]
         /\ wire' \in [Tabs -> Sockets \cup {None}]
         /\ due' \in [Tabs -> Seq(Events)]
         /\ announced' \in [Tabs -> SUBSET Users]
<1>1. tab' \in [Tabs -> Tab]
  BY TabTypes DEF Disconnected, GatewayTypeOK
<1>2. QED
  BY <1>1 DEF Disconnected, GatewayTypeOK

\* Registering and removing a socket keep onlineUsers a map of users to sockets.
LEMMA RegisteredTypes ==
  ASSUME GatewayTypeOK, NEW u \in Users, NEW s \in Sockets
  PROVE  /\ DOMAIN Registered(u, s) \subseteq Users
         /\ \A v \in DOMAIN Registered(u, s) : Registered(u, s)[v] \subseteq Sockets
         /\ DOMAIN Unregistered(u, s) \subseteq Users
         /\ \A v \in DOMAIN Unregistered(u, s) : Unregistered(u, s)[v] \subseteq Sockets
BY DEF GatewayTypeOK, Registered, Unregistered

\* Emitting to a room queues events at tabs.
LEMMA EmitTypes ==
  ASSUME GatewayTypeOK, NEW u \in Users, NEW event \in Events, emit(u, event)
  PROVE  due' \in [Tabs -> Seq(Events)]
BY DEF GatewayTypeOK, emit

\* Every step keeps the types.
LEMMA TypeStep ==
  ASSUME GatewayTypeOK, RoomsMatchTabs, RefreshHasUser, [GatewayNext]_vars
  PROVE  GatewayTypeOK'
<1> USE DEF GatewayTypeOK, Refresh, Stages, gateway, NoRefresh
<1>1. ASSUME NEW t \in Tabs, NEW u \in Users, NEW skipped \in BOOLEAN, Login(t, u, skipped)
      PROVE  GatewayTypeOK'
  <2>1. stage' \in [Users -> Stages]
    BY <1>1 DEF Login, StageSchedule
  <2>2. tab' \in [Tabs -> Tab]
    <3>1. [tab EXCEPT ![t] = [user |-> u, socket |-> "connecting",
                              access |-> TRUE, modal |-> FALSE]] \in [Tabs -> Tab]
      BY TabTypes
    <3>2. QED
      BY <1>1, <3>1 DEF Login
  <2>3. excused' \in [Tabs -> BOOLEAN]
    BY <1>1 DEF Login, Superseded
  <2>4. QED
    BY <1>1, <2>1, <2>2, <2>3 DEF Login
<1>2. ASSUME NEW t \in Tabs, NEW skipped \in BOOLEAN, RefreshSchedules(t, skipped)
      PROVE  GatewayTypeOK'
  <2>1. stage' \in [Users -> Stages]
    BY <1>2 DEF RefreshSchedules, StageSchedule
  <2>2. excused' \in [Tabs -> BOOLEAN]
    BY <1>2 DEF RefreshSchedules, Superseded
  <2>3. QED
    BY <1>2, <2>1, <2>2 DEF RefreshSchedules
<1>3. ASSUME NEW t \in Tabs, RefreshCancels(t) PROVE GatewayTypeOK'
  <2>1. tab[t].user \in Users
    BY <1>3 DEF RefreshCancels, Tab
  <2>2. stage' \in [Users -> Stages]
    BY <1>3, <2>1 DEF RefreshCancels, StageCancel
  <2>3. refresh' \in [Tabs -> Refresh]
    BY <1>3, <2>1 DEF RefreshCancels
  <2>4. QED
    BY <1>3, <2>2, <2>3 DEF RefreshCancels
<1>4. ASSUME NEW t \in Tabs, Refreshed(t) PROVE GatewayTypeOK'
  <2>1. tab[t].modal \in BOOLEAN
    BY DEF Tab
  <2>2. PICK modal \in {FALSE, tab[t].modal} :
          tab' = [tab EXCEPT ![t].access = (tab[t].user # None), ![t].modal = modal]
    BY <1>4 DEF Refreshed
  <2>3. tab' \in [Tabs -> Tab]
    BY <2>1, <2>2, TabTypes
  <2>4. QED
    BY <1>4, <2>3 DEF Refreshed
<1>5. ASSUME NEW t \in Tabs, RefreshFails(t) PROVE GatewayTypeOK'
  BY <1>5, LogoutTypes DEF RefreshFails, NoRefresh
<1>6. ASSUME NEW t \in Tabs, Logout(t) PROVE GatewayTypeOK'
  BY <1>6, LogoutTypes DEF Logout
<1>7. ASSUME NEW t \in Tabs, NEW s \in Sockets, handleConnection(t, s) PROVE GatewayTypeOK'
  <2>1. tab[t].user \in Users
    BY <1>7 DEF handleConnection, RoomsMatchTabs, Tab
  <2>2. onlineUsers' = Registered(tab[t].user, s)
    BY <1>7 DEF handleConnection
  <2>3. /\ DOMAIN onlineUsers' \subseteq Users
        /\ \A u \in DOMAIN onlineUsers' : onlineUsers'[u] \subseteq Sockets
    BY <2>1, <2>2, RegisteredTypes
  <2>4. announced' \in [Tabs -> SUBSET Users]
    BY <1>7, <2>3 DEF handleConnection, broadcastOnlineUsers
  <2>5. QED
    BY <1>7, <2>1, <2>3, <2>4, TabTypes DEF handleConnection
<1>8. ASSUME NEW t \in Tabs, ConnectionRefused(t) PROVE GatewayTypeOK'
  BY <1>8, TabTypes DEF ConnectionRefused
<1>9. ASSUME NEW t \in Tabs, NetworkDrops(t) PROVE GatewayTypeOK'
  <2>1. /\ tab' \in [Tabs -> Tab]
        /\ wire' \in [Tabs -> Sockets \cup {None}]
        /\ due' \in [Tabs -> Seq(Events)]
        /\ announced' \in [Tabs -> SUBSET Users]
    BY <1>9, DisconnectedTypes DEF NetworkDrops
  <2>2. QED
    BY <1>9, <2>1 DEF NetworkDrops
<1>10. ASSUME NEW t \in Tabs, AccessExpires(t) PROVE GatewayTypeOK'
  BY <1>10, TabTypes DEF AccessExpires
<1>11. ASSUME NEW t \in Tabs, Deliver(t) PROVE GatewayTypeOK'
  <2>1. CASE TokenExpiringArrives(t)
    <3>1. tab' \in [Tabs -> Tab]
      BY <2>1, TabTypes DEF TokenExpiringArrives
    <3>2. due' \in [Tabs -> Seq(Events)]
      BY <2>1 DEF TokenExpiringArrives
    <3>3. QED
      BY <2>1, <3>1, <3>2 DEF TokenExpiringArrives
  <2>2. CASE ForceLogoutArrives(t)
    BY <2>2, LogoutTypes DEF ForceLogoutArrives
  <2>3. QED
    BY <1>11, <2>1, <2>2 DEF Deliver
<1>12. ASSUME NEW s \in Sockets, handleDisconnect(s) PROVE GatewayTypeOK'
  <2>1. peer[s] \in Users /\ onlineUsers' = Unregistered(peer[s], s)
    BY <1>12 DEF handleDisconnect
  <2>2. /\ DOMAIN onlineUsers' \subseteq Users
        /\ \A u \in DOMAIN onlineUsers' : onlineUsers'[u] \subseteq Sockets
    BY <2>1, RegisteredTypes
  <2>3. announced' \in [Tabs -> SUBSET Users]
    BY <1>12, <2>2 DEF handleDisconnect, broadcastOnlineUsers
  <2>4. QED
    BY <1>12, <2>2, <2>3 DEF handleDisconnect, tabs
<1>13. ASSUME NEW u \in Users, WarningFires(u) PROVE GatewayTypeOK'
  <2>1. due' \in [Tabs -> Seq(Events)]
    BY <1>13, EmitTypes DEF WarningFires, Events
  <2>2. QED
    BY <1>13, <2>1 DEF WarningFires, StageWarn
<1>14. ASSUME NEW u \in Users, ForceLogoutFires(u) PROVE GatewayTypeOK'
  <2>1. due' \in [Tabs -> Seq(Events)]
    BY <1>14, EmitTypes DEF ForceLogoutFires, Events
  <2>2. QED
    BY <1>14, <2>1 DEF ForceLogoutFires, StageForceLogout
<1>15. CASE ServerRestarts
  <2>1. /\ tab' \in [Tabs -> Tab]
        /\ wire' \in [Tabs -> Sockets \cup {None}]
        /\ due' \in [Tabs -> Seq(Events)]
        /\ announced' \in [Tabs -> SUBSET Users]
    BY <1>15, DisconnectedTypes DEF ServerRestarts
  <2>2. stage' \in [Users -> Stages] /\ peer' \in [Sockets -> Users \cup {None}]
    BY <1>15 DEF ServerRestarts, StageRestart
  <2>3. refresh' \in [Tabs -> Refresh]
    <3>1. \A other \in Tabs : [refresh[other] EXCEPT !.pc = "lost"] \in Refresh
      <4>1. \A other \in Tabs : refresh[other] \in Refresh
        OBVIOUS
      <4>2. QED
        BY <4>1
    <3>2. QED
      BY <1>15, <3>1 DEF ServerRestarts
  <2>4. onlineUsers' = [u \in {} |-> {}] /\ excused' \in [Tabs -> BOOLEAN]
    BY <1>15 DEF ServerRestarts
  <2>5. QED
    BY <2>1, <2>2, <2>3, <2>4
<1>16. CASE UNCHANGED vars
  BY <1>16 DEF vars, tabs
<1>17. QED
  BY <1>1, <1>2, <1>3, <1>4, <1>5, <1>6, <1>7, <1>8, <1>9, <1>10, <1>11, <1>12, <1>13,
     <1>14, <1>15, <1>16 DEF GatewayNext

-----------------------------------------------------------------------------
(* Rooms, onlineUsers and announcements.                                   *)
Presence == OnlineMatchesSockets /\ RoomsMatchTabs /\ AnnouncementsCurrent

\* Steps that leave the connections and everybody's user alone.
LEMMA PresenceFrame ==
  ASSUME Presence, UNCHANGED <<wire, gateway>>,
         \A t \in Tabs : Connected(t) => tab'[t].user = tab[t].user,
         \A t \in Tabs : tab'[t].user = None => tab'[t].socket = "null"
  PROVE  Presence'
BY DEF Presence, gateway, OnlineMatchesSockets, RoomsMatchTabs, AnnouncementsCurrent, Connected

\* A tab that leaves: its socket stays in its room until the server notices.
LEMMA PresenceAfterLeaving ==
  ASSUME Presence, GatewayTypeOK, NEW lost \in SUBSET Tabs,
         UNCHANGED <<peer, onlineUsers>>,
         wire' = [t \in Tabs |-> IF t \in lost THEN None ELSE wire[t]],
         announced' = [t \in Tabs |-> IF t \in lost THEN {} ELSE announced[t]],
         \A t \in Tabs \ lost : tab'[t] = tab[t],
         \A t \in lost : tab'[t].user = None => tab'[t].socket = "null"
  PROVE  Presence'
<1>1. OnlineMatchesSockets'
  BY DEF Presence, OnlineMatchesSockets
<1>2. RoomsMatchTabs'
  BY DEF Presence, RoomsMatchTabs, Connected
<1>3. AnnouncementsCurrent'
  BY DEF Presence, AnnouncementsCurrent, Connected
<1>4. QED
  BY <1>1, <1>2, <1>3 DEF Presence

\* Logging out keeps onlineUsers true.
LEMMA PresenceAfterLogout ==
  ASSUME Presence, GatewayTypeOK, NEW t \in Tabs, performLogout(t),
         UNCHANGED <<peer, onlineUsers>>
  PROVE  Presence'
<1>1. wire' = [x \in Tabs |-> IF x \in {t} THEN None ELSE wire[x]]
  BY DEF performLogout, GatewayTypeOK
<1>2. announced' = [x \in Tabs |-> IF x \in {t} THEN {} ELSE announced[x]]
  BY DEF performLogout, GatewayTypeOK
<1>3. /\ \A x \in Tabs \ {t} : tab'[x] = tab[x]
      /\ tab'[t].socket = "null"
  BY DEF performLogout, GatewayTypeOK, ClosedTab
<1>4. {t} \in SUBSET Tabs /\ \A x \in {t} : tab'[x].user = None => tab'[x].socket = "null"
  BY <1>3
<1>5. \A x \in Tabs \ {t} : tab'[x] = tab[x]
  BY <1>3
<1>6. QED
  BY <1>1, <1>2, <1>4, <1>5, PresenceAfterLeaving

\* A connection registers its socket and announces it.
LEMMA PresenceAfterConnection ==
  ASSUME Presence, GatewayTypeOK, NEW t \in Tabs, NEW s \in Sockets, handleConnection(t, s)
  PROVE  Presence'
<1> DEFINE u == tab[t].user
<1>1. u \in Users
  BY DEF handleConnection, Presence, RoomsMatchTabs, GatewayTypeOK, Tab
<1>2. /\ peer' = [peer EXCEPT ![s] = u]
      /\ onlineUsers' = Registered(u, s)
      /\ wire' = [wire EXCEPT ![t] = s]
      /\ peer[s] = None
  BY DEF handleConnection
<1>3. OnlineMatchesSockets'
  <2>1. DOMAIN onlineUsers' = DOMAIN onlineUsers \cup {u}
    BY <1>2 DEF Registered
  <2>2. {peer'[x] : x \in Sockets} \ {None} = ({peer[x] : x \in Sockets} \ {None}) \cup {u}
    BY <1>1, <1>2 DEF GatewayTypeOK
  <2>3. ASSUME NEW v \in DOMAIN onlineUsers'
        PROVE  onlineUsers'[v] = {x \in Sockets : peer'[x] = v}
    <3>1. CASE v \in DOMAIN onlineUsers
      <4>1. onlineUsers[v] = {x \in Sockets : peer[x] = v}
        BY <3>1 DEF Presence, OnlineMatchesSockets
      <4>2. v # None
        BY <3>1 DEF GatewayTypeOK
      <4>3. QED
        BY <1>1, <1>2, <3>1, <4>1, <4>2 DEF Registered, GatewayTypeOK
    <3>2. CASE v \notin DOMAIN onlineUsers
      <4>1. v = u
        BY <2>1, <3>2
      <4>2. \A x \in Sockets : peer[x] # u
        BY <1>1, <3>2, <4>1 DEF Presence, OnlineMatchesSockets
      <4>3. QED
        BY <1>1, <1>2, <3>2, <4>1, <4>2 DEF Registered, GatewayTypeOK
    <3>3. QED
      BY <3>1, <3>2
  <2>4. QED
    BY <2>1, <2>2, <2>3 DEF Presence, OnlineMatchesSockets
<1>4. RoomsMatchTabs'
  <2>1. \A x \in Tabs : tab'[x].user = tab[x].user
    BY DEF handleConnection, GatewayTypeOK, Tab
  <2>2. \A x \in Tabs : x # t => tab'[x] = tab[x] /\ wire'[x] = wire[x] /\ wire[x] # s
    BY <1>2 DEF handleConnection, GatewayTypeOK
  <2>3. wire'[t] = s /\ peer'[s] = u /\ s # None
    BY <1>2 DEF GatewayTypeOK
  <2>4. ASSUME NEW x \in Tabs, Connected(x)'
        PROVE  peer'[wire'[x]] = tab'[x].user /\ tab'[x].user # None
    <3>1. CASE x = t
      BY <1>1, <2>1, <2>3, <3>1
    <3>2. CASE x # t
      <4>1. peer[wire[x]] = tab[x].user /\ tab[x].user # None /\ wire[x] \in Sockets
        BY <2>2, <2>4, <3>2 DEF Presence, RoomsMatchTabs, Connected, GatewayTypeOK
      <4>2. QED
        BY <1>2, <2>1, <2>2, <3>2, <4>1 DEF GatewayTypeOK
    <3>3. QED
      BY <3>1, <3>2
  <2>5. \A x \in Tabs : tab'[x].user = None => tab'[x].socket = "null"
    BY <1>1, <2>1, <2>2 DEF Presence, RoomsMatchTabs
  <2>6. \A x, y \in Tabs : Connected(x)' /\ wire'[x] = wire'[y] => x = y
    BY <2>2, <2>3 DEF Presence, RoomsMatchTabs, Connected
  <2>7. QED
    BY <2>4, <2>5, <2>6 DEF RoomsMatchTabs
<1>5. AnnouncementsCurrent'
  BY DEF handleConnection, broadcastOnlineUsers, AnnouncementsCurrent, Connected
<1>6. QED
  BY <1>3, <1>4, <1>5 DEF Presence

\* A disconnection removes its socket and announces it if it was the last.
LEMMA PresenceAfterDisconnection ==
  ASSUME Presence, GatewayTypeOK, NEW s \in Sockets, handleDisconnect(s)
  PROVE  Presence'
<1> DEFINE u == peer[s]
<1>1. u \in Users
  BY DEF handleDisconnect, GatewayTypeOK
<1>2. /\ peer' = [peer EXCEPT ![s] = None]
      /\ onlineUsers' = Unregistered(u, s)
      /\ UNCHANGED <<tab, wire>>
  BY DEF handleDisconnect, tabs
<1>3. u \in DOMAIN onlineUsers /\ onlineUsers[u] = {x \in Sockets : peer[x] = u}
  BY <1>1 DEF Presence, OnlineMatchesSockets
<1>4. OnlineMatchesSockets'
  <2>1. \A v \in DOMAIN onlineUsers' :
            v \in DOMAIN onlineUsers /\ (v = u => onlineUsers[u] # {s})
    BY <1>2 DEF Unregistered
  <2>2. \A v \in DOMAIN onlineUsers :
            v # u \/ onlineUsers[u] # {s} => v \in DOMAIN onlineUsers'
    BY <1>2 DEF Unregistered
  <2>3. ASSUME NEW v \in DOMAIN onlineUsers'
        PROVE  /\ onlineUsers'[v] = {x \in Sockets : peer'[x] = v}
               /\ v \in {peer'[x] : x \in Sockets} \ {None}
    <3>1. v \in DOMAIN onlineUsers /\ v # None
      BY <2>1 DEF GatewayTypeOK
    <3>2. onlineUsers[v] = {x \in Sockets : peer[x] = v}
      BY <3>1 DEF Presence, OnlineMatchesSockets
    <3>3. onlineUsers'[v] = IF v = u THEN onlineUsers[v] \ {s} ELSE onlineUsers[v]
      BY <1>2 DEF Unregistered
    <3>4. onlineUsers'[v] = {x \in Sockets : peer'[x] = v}
      BY <1>2, <3>1, <3>2, <3>3 DEF GatewayTypeOK
    <3>5. \E x \in Sockets : x # s /\ peer[x] = v
      <4>1. CASE v = u
        BY <1>3, <2>1, <4>1
      <4>2. CASE v # u
        BY <3>1, <4>2 DEF Presence, OnlineMatchesSockets
      <4>3. QED
        BY <4>1, <4>2
    <3>6. QED
      BY <1>2, <3>1, <3>4, <3>5 DEF GatewayTypeOK
  <2>4. ASSUME NEW x \in Sockets, peer'[x] # None
        PROVE  peer'[x] \in DOMAIN onlineUsers'
    <3>1. x # s /\ peer'[x] = peer[x]
      BY <1>2, <2>4 DEF GatewayTypeOK
    <3>2. peer[x] \in DOMAIN onlineUsers
      BY <2>4, <3>1 DEF Presence, OnlineMatchesSockets
    <3>3. peer[x] = u => onlineUsers[u] # {s}
      BY <1>3, <3>1
    <3>4. QED
      BY <2>2, <3>1, <3>2, <3>3
  <2>5. QED
    BY <2>3, <2>4 DEF OnlineMatchesSockets
<1>5. RoomsMatchTabs'
  BY <1>2 DEF handleDisconnect, Presence, RoomsMatchTabs, Connected, GatewayTypeOK
<1>6. AnnouncementsCurrent'
  BY DEF handleDisconnect, broadcastOnlineUsers, AnnouncementsCurrent, Connected
<1>7. QED
  BY <1>4, <1>5, <1>6 DEF Presence

\* Every step keeps onlineUsers and what was announced true.
LEMMA PresenceStep ==
  ASSUME GatewayIInv, [GatewayNext]_vars
  PROVE  Presence'
<1>0. Presence /\ GatewayTypeOK
  BY DEF GatewayIInv, Presence
<1> USE DEF gateway
<1>1. ASSUME NEW t \in Tabs, NEW u \in Users, NEW skipped \in BOOLEAN, Login(t, u, skipped)
      PROVE  Presence'
  <2>1. ~Connected(t)
    BY <1>0, <1>1 DEF Login, Presence, RoomsMatchTabs
  <2>2. \A x \in Tabs : /\ x # t => tab'[x] = tab[x]
                        /\ tab'[x].user = None => tab'[x] = tab[x]
    BY <1>0, <1>1 DEF Login, GatewayTypeOK
  <2>3. \A x \in Tabs : tab'[x].user = None => tab'[x].socket = "null"
    BY <1>0, <2>2 DEF Presence, RoomsMatchTabs
  <2>4. UNCHANGED <<wire, gateway>>
    BY <1>1 DEF Login
  <2>5. QED
    BY <1>0, <2>1, <2>2, <2>3, <2>4, PresenceFrame
<1>2. ASSUME NEW t \in Tabs,
             \/ \E skipped \in BOOLEAN : RefreshSchedules(t, skipped)
             \/ RefreshCancels(t)
      PROVE  Presence'
  <2>1. UNCHANGED <<tab, wire, gateway>>
    BY <1>2 DEF RefreshSchedules, RefreshCancels
  <2>2. QED
    BY <1>0, <2>1, PresenceFrame DEF Presence, RoomsMatchTabs
<1>3. ASSUME NEW t \in Tabs,
             Refreshed(t) \/ AccessExpires(t) \/ ConnectionRefused(t) \/ TokenExpiringArrives(t)
      PROVE  Presence'
  <2>1. UNCHANGED <<wire, gateway>>
    BY <1>3 DEF Refreshed, AccessExpires, ConnectionRefused, TokenExpiringArrives
  <2>2. \A x \in Tabs : tab'[x].user = tab[x].user
    BY <1>0, <1>3 DEF Refreshed, AccessExpires, ConnectionRefused, TokenExpiringArrives,
                      GatewayTypeOK, Tab
  <2>3. \A x \in Tabs : tab'[x].socket = tab[x].socket \/ tab[x].socket = "connecting"
    BY <1>0, <1>3 DEF Refreshed, AccessExpires, ConnectionRefused, TokenExpiringArrives,
                      GatewayTypeOK, Tab
  <2>4. \A x \in Tabs : tab'[x].user = None => tab'[x].socket = "null"
    BY <1>0, <2>2, <2>3 DEF Presence, RoomsMatchTabs
  <2>5. QED
    BY <1>0, <2>1, <2>2, <2>4, PresenceFrame
<1>4. ASSUME NEW t \in Tabs, RefreshFails(t) \/ Logout(t) \/ ForceLogoutArrives(t)
      PROVE  Presence'
  <2>1. performLogout(t) /\ UNCHANGED <<peer, onlineUsers>>
    BY <1>4 DEF RefreshFails, Logout, ForceLogoutArrives
  <2>2. QED
    BY <1>0, <2>1, PresenceAfterLogout
<1>5. ASSUME NEW t \in Tabs, NetworkDrops(t) PROVE Presence'
  <2>1. /\ UNCHANGED <<peer, onlineUsers>>
        /\ wire' = [x \in Tabs |-> IF x \in {t} THEN None ELSE wire[x]]
        /\ announced' = [x \in Tabs |-> IF x \in {t} THEN {} ELSE announced[x]]
        /\ \A x \in Tabs \ {t} : tab'[x] = tab[x]
    BY <1>5 DEF NetworkDrops, Disconnected
  <2>2. tab'[t].user = tab[t].user /\ tab[t].user # None
    BY <1>0, <1>5 DEF NetworkDrops, Disconnected, GatewayTypeOK, Tab, Presence, RoomsMatchTabs
  <2>3. {t} \in SUBSET Tabs /\ \A x \in {t} : tab'[x].user = None => tab'[x].socket = "null"
    BY <2>2
  <2>4. QED
    BY <1>0, <2>1, <2>3, PresenceAfterLeaving
<1>6. ASSUME NEW u \in Users, WarningFires(u) \/ ForceLogoutFires(u) PROVE Presence'
  <2>1. UNCHANGED <<tab, wire, gateway>>
    BY <1>6 DEF WarningFires, ForceLogoutFires
  <2>2. QED
    BY <1>0, <2>1, PresenceFrame DEF Presence, RoomsMatchTabs
<1>7. CASE ServerRestarts
  <2>1. \A t \in Tabs : ~Connected(t)' /\ tab'[t].user = tab[t].user
    BY <1>0, <1>7 DEF ServerRestarts, Disconnected, Connected, GatewayTypeOK, Tab
  <2>2. \A t \in Tabs : tab'[t].user = None => tab'[t] = tab[t]
    BY <1>0, <1>7, <2>1 DEF ServerRestarts, Disconnected, Connected, Presence, RoomsMatchTabs
  <2>3. RoomsMatchTabs'
    BY <1>0, <2>1, <2>2 DEF Presence, RoomsMatchTabs
  <2>4. AnnouncementsCurrent'
    BY <2>1 DEF AnnouncementsCurrent
  <2>5. OnlineMatchesSockets'
    BY <1>7 DEF ServerRestarts, OnlineMatchesSockets
  <2>6. QED
    BY <2>3, <2>4, <2>5 DEF Presence
<1>8. CASE UNCHANGED vars
  BY <1>0, <1>8, PresenceFrame DEF vars, tabs, Presence, RoomsMatchTabs
<1>9. QED
  BY <1>0, <1>1, <1>2, <1>3, <1>4, <1>5, <1>6, <1>7, <1>8, PresenceAfterConnection,
     PresenceAfterDisconnection DEF GatewayNext, Deliver

\* Every step keeps a user behind every tab that refreshes.
LEMMA RefreshUserStep ==
  ASSUME GatewayIInv, [GatewayNext]_vars
  PROVE  RefreshHasUser'
<1>1. /\ GatewayTypeOK /\ RefreshHasUser
      /\ refresh \in [Tabs -> Refresh] /\ tab \in [Tabs -> Tab]
      /\ \A t \in Tabs : tab[t].user \in Users \cup {None}
  BY DEF GatewayIInv, GatewayTypeOK, Tab
<1>2. ASSUME UNCHANGED refresh, \A t \in Tabs : tab'[t].user \in {None, tab[t].user}
      PROVE  RefreshHasUser'
  BY <1>1, <1>2 DEF RefreshHasUser
<1>3. ASSUME NEW t \in Tabs, NEW u \in Users, NEW skipped \in BOOLEAN, Login(t, u, skipped)
      PROVE  RefreshHasUser'
  BY <1>1, <1>3 DEF Login, RefreshHasUser
<1>4. ASSUME NEW t \in Tabs, NEW skipped \in BOOLEAN, RefreshSchedules(t, skipped)
      PROVE  RefreshHasUser'
  BY <1>1, <1>4 DEF RefreshSchedules, RefreshHasUser, Refresh
<1>5. ASSUME NEW t \in Tabs, RefreshCancels(t) PROVE RefreshHasUser'
  BY <1>1, <1>5 DEF RefreshCancels, RefreshHasUser
<1>6. ASSUME NEW t \in Tabs, Refreshed(t) PROVE RefreshHasUser'
  <2>1. \A x \in Tabs : tab'[x].user = tab[x].user
    BY <1>1, <1>6 DEF Refreshed, Tab
  <2>2. QED
    BY <1>1, <1>6, <2>1 DEF Refreshed, NoRefresh, RefreshHasUser
<1>7. ASSUME NEW t \in Tabs, performLogout(t),
             UNCHANGED refresh \/ refresh' = [refresh EXCEPT ![t] = NoRefresh]
      PROVE  RefreshHasUser'
  BY <1>1, <1>7 DEF performLogout, ClosedTab, NoRefresh, RefreshHasUser
<1>8. ASSUME NEW t \in Tabs,
             \/ \E s \in Sockets : handleConnection(t, s)
             \/ ConnectionRefused(t) \/ NetworkDrops(t) \/ AccessExpires(t)
             \/ TokenExpiringArrives(t)
      PROVE  RefreshHasUser'
  <2>1. UNCHANGED refresh
    BY <1>8 DEF handleConnection, ConnectionRefused, NetworkDrops, AccessExpires,
                TokenExpiringArrives
  <2>2. \A x \in Tabs : tab'[x].user = tab[x].user
    BY <1>1, <1>8 DEF handleConnection, ConnectionRefused, NetworkDrops, AccessExpires,
                      TokenExpiringArrives, Disconnected, Tab
  <2>3. QED
    BY <1>2, <2>1, <2>2
<1>9. CASE ServerRestarts
  <2>1. \A x \in Tabs : tab'[x].user = tab[x].user
    BY <1>1, <1>9 DEF ServerRestarts, Disconnected, Tab
  <2>2. QED
    BY <1>1, <1>9, <2>1 DEF ServerRestarts, NoRefresh, RefreshHasUser, Refresh
<1>10. ASSUME UNCHANGED <<tab, refresh>> PROVE RefreshHasUser'
  BY <1>2, <1>10
<1>11. QED
  BY <1>3, <1>4, <1>5, <1>6, <1>7, <1>8, <1>9, <1>10
  DEF GatewayNext, Deliver, RefreshFails, Logout, ForceLogoutArrives, handleDisconnect,
      WarningFires, ForceLogoutFires, vars, tabs

-----------------------------------------------------------------------------
(* Warnings.                                                               *)
\* What WarningOwed says of one tab.
Owed(t) ==
    tab[t].user # None /\ ~excused[t] =>
        /\ refresh[t].pc = "none" =>
            Told(t) \/ (tab[t].access /\ stage[tab[t].user] = "warning")
        /\ refresh[t].pc = "answered" => stage[tab[t].user] = "warning"

\* A warning is owed tab by tab.
LEMMA OwedIsWarningOwed == WarningOwed <=> \A t \in Tabs : Owed(t)
BY DEF WarningOwed, Owed

\* An event behind the others does not take back what the tab has been told.
LEMMA AppendKeepsTold ==
  ASSUME NEW queue \in Seq(Events), NEW event \in Events
  PROVE  /\ \A i \in DOMAIN queue : i \in DOMAIN Append(queue, event)
                                    /\ Append(queue, event)[i] = queue[i]
         /\ \E i \in DOMAIN Append(queue, event) : Append(queue, event)[i] = event
<1>1. Len(queue) + 1 \in DOMAIN Append(queue, event)
      /\ Append(queue, event)[Len(queue) + 1] = event
  OBVIOUS
<1>2. QED
  BY <1>1

\* Every step keeps the warning owed to a tab.
LEMMA OwedStep ==
  ASSUME GatewayIInv, [GatewayNext]_vars, NEW t \in Tabs
  PROVE  Owed(t)'
<1>0. /\ GatewayTypeOK /\ RoomsMatchTabs /\ RefreshHasUser /\ Owed(t)
      /\ tab[t] \in Tab /\ due[t] \in Seq(Events) /\ refresh[t] \in Refresh
  BY OwedIsWarningOwed DEF GatewayIInv, GatewayTypeOK
\* Steps that leave this tab, its queue and its user's stage alone.
<1>1. ASSUME tab'[t].user = tab[t].user, tab'[t].access = tab[t].access,
             tab'[t].modal = tab[t].modal,
             due'[t] = due[t], refresh'[t] = refresh[t], excused[t] => excused'[t],
             \A u \in Users : stage[u] = "warning" => stage'[u] = "warning"
      PROVE  Owed(t)'
  BY <1>0, <1>1 DEF Owed, Told, Tab
\* A schedule for a user: another tab of that user is excused from then on.
<1>2. ASSUME NEW u \in Users, NEW skipped \in BOOLEAN, StageSchedule(u, skipped),
             tab'[t] = tab[t], due'[t] = due[t], refresh'[t] = refresh[t],
             excused'[t] = (excused[t] \/ tab[t].user = u)
      PROVE  Owed(t)'
  <2>1. tab[t].user # u /\ tab[t].user # None => stage'[tab[t].user] = stage[tab[t].user]
    BY <1>0, <1>2 DEF StageSchedule, GatewayTypeOK, Tab
  <2>2. QED
    BY <1>0, <1>2, <2>1 DEF Owed, Told
\* Nobody is owed anything in a tab without a user.
<1>3. ASSUME tab'[t].user = None \/ excused'[t] PROVE Owed(t)'
  BY <1>3 DEF Owed
<1>4. ASSUME NEW x \in Tabs, NEW u \in Users, NEW skipped \in BOOLEAN, Login(x, u, skipped)
      PROVE  Owed(t)'
  <2>1. CASE t # x
    BY <1>0, <1>2, <1>4, <2>1 DEF Login, Superseded, GatewayTypeOK
  <2>2. CASE t = x
    <3>1. CASE tab' = tab
      BY <1>3, <1>4, <2>2, <3>1 DEF Login
    <3>2. CASE tab'[t] = [user |-> u, socket |-> "connecting", access |-> TRUE, modal |-> FALSE]
      <4>1. excused'[t] = skipped /\ refresh'[t].pc = "none"
        BY <1>4, <2>2, <3>2 DEF Login, Superseded
      <4>2. ~skipped => stage'[u] = "warning"
        BY <1>0, <1>4 DEF Login, StageSchedule, GatewayTypeOK
      <4>3. QED
        BY <3>2, <4>1, <4>2 DEF Owed
    <3>3. QED
      BY <1>0, <1>4, <2>2, <3>1, <3>2 DEF Login, GatewayTypeOK
  <2>3. QED
    BY <2>1, <2>2
<1>5. ASSUME NEW x \in Tabs, NEW skipped \in BOOLEAN, RefreshSchedules(x, skipped)
      PROVE  Owed(t)'
  <2>1. refresh[x].user \in Users
    BY <1>0, <1>5 DEF RefreshSchedules, RefreshHasUser
  <2>2. CASE t # x
    BY <1>0, <1>2, <1>5, <2>1, <2>2 DEF RefreshSchedules, Superseded, GatewayTypeOK
  <2>3. CASE t = x
    <3>1. /\ refresh'[t].pc = "answered" /\ refresh'[t].user = refresh[t].user
          /\ tab'[t] = tab[t] /\ (skipped => excused'[t])
          /\ refresh[t].pc = "cancelled"
      BY <1>0, <1>5, <2>3 DEF RefreshSchedules, Superseded, GatewayTypeOK, Refresh
    <3>2. ~skipped => stage'[refresh[t].user] = "warning"
      BY <1>0, <1>5, <2>1, <2>3 DEF RefreshSchedules, StageSchedule, GatewayTypeOK
    <3>3. tab[t].user # None => tab[t].user = refresh[t].user
      BY <1>0, <3>1 DEF RefreshHasUser
    <3>4. QED
      BY <3>1, <3>2, <3>3 DEF Owed
  <2>4. QED
    BY <2>2, <2>3
<1>6. ASSUME NEW x \in Tabs, RefreshCancels(x) PROVE Owed(t)'
  <2>1. \A u \in Users : stage[u] = "warning" => stage'[u] = "warning"
    BY <1>0, <1>6 DEF RefreshCancels, StageCancel, GatewayTypeOK
  <2>2. CASE t # x
    BY <1>0, <1>1, <1>6, <2>1, <2>2 DEF RefreshCancels, GatewayTypeOK
  <2>3. CASE t = x
    <3>1. refresh'[t].pc = "cancelled"
      BY <1>0, <1>6, <2>3 DEF RefreshCancels, GatewayTypeOK
    <3>2. QED
      BY <3>1 DEF Owed
  <2>4. QED
    BY <2>2, <2>3
<1>7. ASSUME NEW x \in Tabs, Refreshed(x) PROVE Owed(t)'
  <2>1. CASE t # x
    BY <1>0, <1>1, <1>7, <2>1 DEF Refreshed, GatewayTypeOK
  <2>2. CASE t = x
    <3>1. /\ tab'[t].user = tab[t].user /\ (tab[t].user # None => tab'[t].access)
          /\ UNCHANGED <<stage, excused>>
          /\ refresh[t].pc = "answered" /\ refresh'[t].pc = "none"
      <4>1. PICK modal \in {FALSE, tab[t].modal} :
              tab' = [tab EXCEPT ![t].access = (tab[t].user # None), ![t].modal = modal]
        BY <1>7, <2>2 DEF Refreshed
      <4>2. tab'[t].user = tab[t].user /\ tab'[t].access = (tab[t].user # None)
        BY <1>0, <4>1 DEF GatewayTypeOK, Tab
      <4>3. refresh'[t] = NoRefresh
        BY <1>0, <1>7, <2>2 DEF Refreshed, GatewayTypeOK
      <4>4. QED
        <5>1. UNCHANGED <<stage, excused>> /\ refresh[t].pc = "answered"
          BY <1>7, <2>2 DEF Refreshed
        <5>2. refresh'[t].pc = "none"
          BY <4>3 DEF NoRefresh
        <5>3. QED
          BY <4>2, <5>1, <5>2
    <3>2. QED
      BY <1>0, <3>1 DEF Owed
  <2>3. QED
    BY <2>1, <2>2
<1>8. ASSUME NEW x \in Tabs, RefreshFails(x) \/ Logout(x) \/ ForceLogoutArrives(x)
      PROVE  Owed(t)'
  <2>1. performLogout(x) /\ UNCHANGED stage /\ (t # x => refresh'[t] = refresh[t])
    BY <1>0, <1>8 DEF RefreshFails, Logout, ForceLogoutArrives, GatewayTypeOK
  <2>2. CASE t # x
    BY <1>0, <1>1, <2>1, <2>2 DEF performLogout, GatewayTypeOK
  <2>3. CASE t = x
    BY <1>0, <1>3, <2>1, <2>3 DEF performLogout, ClosedTab, GatewayTypeOK
  <2>4. QED
    BY <2>2, <2>3
<1>9. ASSUME NEW x \in Tabs, (\E s \in Sockets : handleConnection(x, s)) \/ ConnectionRefused(x)
      PROVE  Owed(t)'
  <2>1. UNCHANGED <<stage, refresh, due, excused>>
    BY <1>9 DEF handleConnection, ConnectionRefused
  <2>2. /\ tab'[t].user = tab[t].user /\ tab'[t].access = tab[t].access
        /\ tab'[t].modal = tab[t].modal
    <3>1. \/ tab' = [tab EXCEPT ![x].socket = "open"]
          \/ tab' = [tab EXCEPT ![x].socket = "refused"]
      BY <1>9 DEF handleConnection, ConnectionRefused
    <3>2. QED
      <4>1. CASE x # t
        BY <1>0, <3>1, <4>1 DEF GatewayTypeOK
      <4>2. CASE x = t
        <5>1. \A value : /\ [tab[t] EXCEPT !.socket = value].user = tab[t].user
                         /\ [tab[t] EXCEPT !.socket = value].access = tab[t].access
                         /\ [tab[t] EXCEPT !.socket = value].modal = tab[t].modal
          BY <1>0 DEF Tab
        <5>2. tab \in [Tabs -> Tab]
          BY <1>0 DEF GatewayTypeOK
        <5>3. \E value : tab'[t] = [tab[t] EXCEPT !.socket = value]
          BY <3>1, <4>2, <5>2
        <5>4. QED
          BY <5>1, <5>3
      <4>3. QED
        BY <4>1, <4>2
  <2>3. QED
    BY <1>1, <2>1, <2>2
<1>10. ASSUME NEW x \in Tabs, NetworkDrops(x) PROVE Owed(t)'
  <2>1. CASE t # x
    BY <1>0, <1>1, <1>10, <2>1 DEF NetworkDrops, Disconnected, GatewayTypeOK
  <2>2. CASE t = x
    BY <1>0, <1>3, <1>10, <2>2 DEF NetworkDrops, GatewayTypeOK
  <2>3. QED
    BY <2>1, <2>2
<1>11. ASSUME NEW x \in Tabs, AccessExpires(x) PROVE Owed(t)'
  <2>1. CASE t # x
    BY <1>0, <1>1, <1>11, <2>1 DEF AccessExpires, GatewayTypeOK
  <2>2. CASE t = x
    <3>1. /\ UNCHANGED <<stage, due, excused, refresh>>
          /\ tab'[t].user = tab[t].user /\ tab'[t].modal = tab[t].modal
          /\ excused[t] \/ refresh[t].pc # "none" \/ stage[tab[t].user] # "warning"
      BY <1>0, <1>11, <2>2 DEF AccessExpires, GatewayTypeOK, Tab
    <3>2. QED
      BY <1>0, <3>1 DEF Owed, Told
  <2>3. QED
    BY <2>1, <2>2
<1>12. ASSUME NEW x \in Tabs, TokenExpiringArrives(x) PROVE Owed(t)'
  <2>1. CASE t # x
    BY <1>0, <1>1, <1>12, <2>1 DEF TokenExpiringArrives, GatewayTypeOK
  <2>2. CASE t = x
    <3>1. /\ UNCHANGED <<stage, excused, refresh>>
          /\ tab'[t].user = tab[t].user /\ tab'[t].modal
      BY <1>0, <1>12, <2>2 DEF TokenExpiringArrives, GatewayTypeOK, Tab
    <3>2. QED
      BY <1>0, <3>1 DEF Owed, Told
  <2>3. QED
    BY <2>1, <2>2
<1>13. ASSUME NEW s \in Sockets, handleDisconnect(s) PROVE Owed(t)'
  BY <1>1, <1>13 DEF handleDisconnect, tabs
<1>14. ASSUME NEW u \in Users, NEW event \in Events, emit(u, event), UNCHANGED tab, Told(t)
       PROVE  Told(t)'
  <2>1. due'[t] = due[t] \/ due'[t] = Append(due[t], event)
    BY <1>0, <1>14 DEF emit, GatewayTypeOK
  <2>2. CASE tab[t].modal
    BY <1>14, <2>2 DEF Told
  <2>3. CASE \E i \in DOMAIN due[t] : due[t][i] = "TOKEN_EXPIRING"
    <3>1. PICK i \in DOMAIN due[t] : due[t][i] = "TOKEN_EXPIRING"
      BY <2>3
    <3>2. due[t] \in Seq(Events)
      BY <1>0 DEF GatewayTypeOK
    <3>3. i \in DOMAIN Append(due[t], event) /\ Append(due[t], event)[i] = due[t][i]
      BY <3>2, AppendKeepsTold
    <3>4. i \in DOMAIN due'[t] /\ due'[t][i] = "TOKEN_EXPIRING"
      BY <2>1, <3>1, <3>3
    <3>5. QED
      BY <3>4 DEF Told
  <2>4. QED
    BY <1>14, <2>2, <2>3 DEF Told
<1>15. ASSUME NEW u \in Users, WarningFires(u) PROVE Owed(t)'
  <2>1. /\ UNCHANGED <<tab, refresh>> /\ emit(u, "TOKEN_EXPIRING")
        /\ "TOKEN_EXPIRING" \in Events /\ (excused[t] => excused'[t])
    BY <1>15 DEF WarningFires, Events
  <2>2. Told(t) => Told(t)'
    BY <1>14, <2>1
  <2>3. tab[t].user # u /\ tab[t].user # None => stage'[tab[t].user] = stage[tab[t].user]
    BY <1>0, <1>15 DEF WarningFires, StageWarn, GatewayTypeOK, Tab
  <2>4. CASE tab[t].user # u
    BY <1>0, <2>1, <2>2, <2>3, <2>4 DEF Owed
  <2>5. CASE tab[t].user = u /\ ~Hears(t, u)
    BY <1>0, <1>3, <1>15, <2>5 DEF WarningFires
  <2>6. CASE tab[t].user = u /\ Hears(t, u)
    <3>1. due'[t] = Append(due[t], "TOKEN_EXPIRING")
      BY <1>0, <2>1, <2>6 DEF emit, GatewayTypeOK
    <3>2. Told(t)'
      BY <1>0, <2>1, <3>1, AppendKeepsTold DEF Told
    <3>3. refresh[t].pc # "answered"
      BY <1>0, <1>15, <2>6 DEF WarningFires, RefreshHasUser
    <3>4. QED
      BY <2>1, <3>2, <3>3 DEF Owed
  <2>7. QED
    BY <2>4, <2>5, <2>6
<1>16. ASSUME NEW u \in Users, ForceLogoutFires(u) PROVE Owed(t)'
  <2>1. /\ UNCHANGED <<tab, refresh, excused>> /\ emit(u, "FORCE_LOGOUT")
        /\ "FORCE_LOGOUT" \in Events
    BY <1>16 DEF ForceLogoutFires, Events
  <2>2. Told(t) => Told(t)'
    BY <1>14, <2>1
  <2>3. \A v \in Users : stage[v] = "warning" => stage'[v] = "warning"
    BY <1>0, <1>16 DEF ForceLogoutFires, StageForceLogout, GatewayTypeOK
  <2>4. QED
    BY <1>0, <2>1, <2>2, <2>3 DEF Owed, Tab
<1>17. CASE ServerRestarts
  <2>1. tab'[t].user = tab[t].user /\ excused'[t] = (tab[t].user # None)
    BY <1>0, <1>17 DEF ServerRestarts, Disconnected, GatewayTypeOK, Tab
  <2>2. QED
    BY <1>3, <2>1
<1>18. CASE UNCHANGED vars
  BY <1>1, <1>18 DEF vars, tabs
<1>19. QED
  BY <1>4, <1>5, <1>6, <1>7, <1>8, <1>9, <1>10, <1>11, <1>12, <1>13, <1>15, <1>16, <1>17,
     <1>18 DEF GatewayNext, Deliver

-----------------------------------------------------------------------------

\* At first nobody is connected.
LEMMA InitHolds == GatewayInit => GatewayIInv
<1> SUFFICES ASSUME GatewayInit PROVE GatewayIInv
  OBVIOUS
<1>1. GatewayTypeOK
  BY DEF GatewayInit, StageInit, GatewayTypeOK, Stages, Tab, ClosedTab, Refresh, NoRefresh
<1>2. OnlineMatchesSockets
  BY DEF GatewayInit, OnlineMatchesSockets
<1>3. RoomsMatchTabs /\ AnnouncementsCurrent
  BY DEF GatewayInit, RoomsMatchTabs, AnnouncementsCurrent, Connected, ClosedTab
<1>4. WarningOwed /\ RefreshHasUser
  BY DEF GatewayInit, WarningOwed, RefreshHasUser, ClosedTab, NoRefresh
<1>5. QED
  BY <1>1, <1>2, <1>3, <1>4 DEF GatewayIInv

\* Types, rooms, announcements and the warnings that are owed (auth.gateway.ts and
\* AuthContext.tsx): the invariant that carries the theorems below.
THEOREM InductiveInvariant == GatewaySpec => []GatewayIInv
<1>1. GatewayIInv /\ [GatewayNext]_vars => GatewayIInv'
  <2> SUFFICES ASSUME GatewayIInv, [GatewayNext]_vars PROVE GatewayIInv'
    OBVIOUS
  <2>1. GatewayTypeOK'
    BY TypeStep DEF GatewayIInv
  <2>2. OnlineMatchesSockets' /\ RoomsMatchTabs' /\ AnnouncementsCurrent'
    BY PresenceStep DEF Presence
  <2>3. RefreshHasUser'
    BY RefreshUserStep
  <2>4. WarningOwed'
    BY OwedStep DEF WarningOwed, Owed
  <2>5. QED
    BY <2>1, <2>2, <2>3, <2>4 DEF GatewayIInv
<1>2. QED
  BY InitHolds, <1>1, PTL DEF GatewaySpec

\* The state of the gateway and of the tabs has its type (auth.gateway.ts:31,
\* authSocket.ts:3).
THEOREM GatewayTypeCorrect == GatewaySpec => []GatewayTypeOK
BY InductiveInvariant, PTL DEF GatewayIInv

\* Nobody stays online as a ghost and nobody is missing, for any number of users,
\* browsers and connections (auth.gateway.ts:62-68, 89-97).
THEOREM NoGhostsOnline == GatewaySpec => []OnlineMatchesSockets
BY InductiveInvariant, PTL DEF GatewayIInv

\* Every connected tab has been sent the list as it is (auth.gateway.ts:74, 103).
THEOREM EveryChangeAnnounced == GatewaySpec => []AnnouncementsCurrent
BY InductiveInvariant, PTL DEF GatewayIInv

\* A token never expires without a word in a tab that is owed one
\* (token-expiry.service.ts:38-43, auth.gateway.ts:106-108, AuthContext.tsx:173-175).
THEOREM ExpiryIsAnnounced == GatewaySpec => []ExpiryAnnounced
<1>1. GatewayIInv => ExpiryAnnounced
  BY DEF GatewayIInv, WarningOwed, ExpiryAnnounced
<1>2. QED
  BY InductiveInvariant, <1>1, PTL

\* The calls that the gateway's users make drive the service as ExpiryStage says it
\* may be driven (auth.service.ts:107-110, 209, 217-220).
THEOREM DrivesExpiryService == GatewaySpec => StageSpec
<1>1. GatewayInit => StageInit
  BY DEF GatewayInit
<1>2. GatewayIInv /\ [GatewayNext]_vars => [StageNext]_stage
  <2> SUFFICES ASSUME GatewayIInv, [GatewayNext]_vars PROVE [StageNext]_stage
    OBVIOUS
  <2>1. ASSUME NEW t \in Tabs, NEW u \in Users, NEW skipped \in BOOLEAN, Login(t, u, skipped)
        PROVE  StageNext
    BY <2>1 DEF Login, StageNext
  <2>2. ASSUME NEW t \in Tabs, NEW skipped \in BOOLEAN, RefreshSchedules(t, skipped)
        PROVE  StageNext
    <3>1. refresh[t].user \in Users
      BY <2>2 DEF RefreshSchedules, GatewayIInv, RefreshHasUser
    <3>2. QED
      BY <2>2, <3>1 DEF RefreshSchedules, StageNext
  <2>3. ASSUME NEW t \in Tabs, RefreshCancels(t) PROVE StageNext
    <3>1. tab[t].user \in Users
      BY <2>3 DEF RefreshCancels, GatewayIInv, GatewayTypeOK, Tab
    <3>2. QED
      BY <2>3, <3>1 DEF RefreshCancels, StageNext
  <2>4. ASSUME NEW u \in Users, WarningFires(u) \/ ForceLogoutFires(u) PROVE StageNext
    BY <2>4 DEF WarningFires, ForceLogoutFires, StageNext
  <2>5. CASE ServerRestarts
    BY <2>5 DEF ServerRestarts, StageNext
  <2>6. QED
    BY <2>1, <2>2, <2>3, <2>4, <2>5 DEF GatewayNext, Refreshed, RefreshFails, Logout,
       handleConnection, ConnectionRefused, NetworkDrops, AccessExpires, Deliver,
       TokenExpiringArrives, ForceLogoutArrives, handleDisconnect, vars
<1>3. QED
  BY <1>1, <1>2, InductiveInvariant, PTL DEF GatewaySpec, StageSpec
=============================================================================
