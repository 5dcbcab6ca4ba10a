------------------------------ MODULE ClientApp ------------------------------
(***************************************************************************)
(* The client in one tab (App.tsx): AuthContext with the interceptor, and  *)
(* the pages.  A login brings the pages up, whatever logs the user out     *)
(* takes them down, and TokenRefreshModal shows the spinner of the pages   *)
(* for the refresh that it awaits.  A call of an operation and the request *)
(* that carries it are not tied together: either may end at any time and   *)
(* in any way.                                                             *)
(***************************************************************************)
EXTENDS ClientAuth, Pages

appVars == <<vars, pagesVars>>

\* The modal's refresh is under way.
ModalAwaits == InFlight("refresh") /\ call["refresh"].by = "modal"

\* The tab is of one mind: the pages know whether somebody is logged in, and whether the
\* modal waits.
Linked ==
    /\ page = "login" <=> ~user
    /\ confirming <=> ModalAwaits
    /\ modal => user

\* Somebody is being logged in.
Entering ==
    \/ InFlight("refresh") /\ call["refresh"].by = "init"
    \/ \E r \in Requests : request[r].pc # "idle" /\ request[r].kind # "data"

\* Types; and whoever is being logged in finds nobody logged in, so that Enter does not
\* hold back an answer.
AppTypeOK == TypeOK /\ PagesTypeOK /\ Linked /\ (Entering => ~user)

AppInit == Init /\ PagesInit

-----------------------------------------------------------------------------
(* A login leads to /todos, a page that was loaded again stays where it    *)
(* was.                                                                    *)
LogsIn ==
    \E r \in Requests, admin \in BOOLEAN :
        \/ \E token \in Tokens : LoginSucceeds(r, token) /\ Enter(admin, "todos")
        \/ /\ request[r].kind = "me" /\ Succeeds(r)
           /\ \E p \in PageNames : Enter(admin, p)

(* performLogout, which finds nobody logged in when it runs again.         *)
LogsOut ==
    /\ \/ \E r \in Requests : InterceptorRefreshFailed(r)
       \/ LogoutAnswered \/ ForceLogout
    /\ IF user /\ ~user' THEN Logout ELSE UNCHANGED pagesVars

ModalStep ==
    \/ ConfirmRefresh /\ ModalConfirms
    \/ ModalRefreshed /\ ModalReturns(TRUE)
    \/ ModalRefreshFailed /\ ModalReturns(FALSE)

\* Bound: a login is sent only while nobody is being logged in.
AuthStep ==
    /\ \/ \E r \in Requests :
            \/ Send(r) \/ (SendLogin(r) /\ ~Entering)
            \/ request[r].kind # "me" /\ Succeeds(r)
            \/ Rejected(r) \/ Waits(r) \/ Refreshes(r) \/ RequestFails(r)
            \/ InterceptorRefreshed(r)
       \/ \E c \in Callers : Handled(c)
       \/ InitRefreshed \/ LogoutHandled
       \/ ClickLogout \/ TokenExpiring \/ AccessExpires \/ SessionDies
    /\ UNCHANGED pagesVars

AppStep(changes) ==
    \/ LogsIn \/ LogsOut \/ ModalStep \/ AuthStep
    \/ Reload /\ PageReloaded
    \/ PageStep(changes) /\ UNCHANGED vars

AppNext == AppStep(Kinds \ Loads)
AppSpec == AppInit /\ [][AppNext]_appVars
=============================================================================
