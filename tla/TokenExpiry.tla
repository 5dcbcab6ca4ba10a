---------------------------- MODULE TokenExpiry ----------------------------
(***************************************************************************)
(* TokenExpiryService (auth/token-expiry.service.ts): two maps of Node     *)
(* timer handles, one for the warning and one for the forced logout, over  *)
(* the event loop's set of armed timers.  A callback runs to completion,   *)
(* so each is one action.                                                  *)
(*                                                                         *)
(* A handle is never reused while the program can still reach it, so an id *)
(* is fresh when it is neither armed nor held by a map: the pool of ids    *)
(* stands for the allocator and does not bound the behaviours.             *)
(***************************************************************************)
EXTENDS Integers

CONSTANTS
    Users,
    Timers,     \* identities of NodeJS.Timeout objects
    None,       \* an absent map entry
    Delays      \* the values of warningDelay, in milliseconds

ASSUME HandleAssumption == None \notin Timers
ASSUME DelaysAssumption == Delays \subseteq Int

VARIABLES
    timeouts,               \* userId -> handle of the warning timer
    forceLogoutTimeouts,    \* userId -> handle of the force-logout timer
    armed,                  \* the timers the event loop will still fire
    lastEvent               \* the last socket event emitted to a user's room

timerVars == <<timeouts, forceLogoutTimeouts, armed, lastEvent>>

Kinds == {"warning", "logout"}
Timer == [id: Timers, user: Users, kind: Kinds]

TimersTypeOK ==
    /\ timeouts \in [Users -> Timers \cup {None}]
    /\ forceLogoutTimeouts \in [Users -> Timers \cup {None}]
    /\ armed \subseteq Timer
    /\ lastEvent \in [Users -> {"none", "TOKEN_EXPIRING", "FORCE_LOGOUT"}]

TimersInit ==
    /\ timeouts = [u \in Users |-> None]
    /\ forceLogoutTimeouts = [u \in Users |-> None]
    /\ armed = {}
    /\ lastEvent = [u \in Users |-> "none"]

-----------------------------------------------------------------------------
Unreachable(id) ==
    /\ \A t \in armed : t.id # id
    /\ \A u \in Users : timeouts[u] # id /\ forceLogoutTimeouts[u] # id

\* clearTimeout: the event loop drops the timer behind the handle, if any.
Cleared(timers, handle) == {t \in timers : t.id # handle}

\* Mutants: the code with a line left out, or a branch taken wrongly.
ScheduleKeepsOldTimer(u, delay) ==
    /\ forceLogoutTimeouts' = [forceLogoutTimeouts EXCEPT ![u] = None]
    /\ LET kept == Cleared(armed, forceLogoutTimeouts[u]) IN
       \/ /\ delay <= 0
          /\ timeouts' = [timeouts EXCEPT ![u] = None]
          /\ armed' = kept
       \/ /\ delay > 0
          /\ \E id \in Timers :
                /\ Unreachable(id)
                /\ timeouts' = [timeouts EXCEPT ![u] = id]
                /\ armed' = kept \cup {[id |-> id, user |-> u, kind |-> "warning"]}
    /\ UNCHANGED lastEvent

ScheduleKeepsForceLogout(u, delay) ==
    /\ LET kept == Cleared(armed, timeouts[u]) IN
       \/ /\ delay <= 0
          /\ timeouts' = [timeouts EXCEPT ![u] = None]
          /\ armed' = kept
       \/ /\ delay > 0
          /\ \E id \in Timers :
                /\ Unreachable(id)
                /\ timeouts' = [timeouts EXCEPT ![u] = id]
                /\ armed' = kept \cup {[id |-> id, user |-> u, kind |-> "warning"]}
    /\ UNCHANGED <<forceLogoutTimeouts, lastEvent>>

ScheduleSkipsToGrace(u, delay) ==
    /\ LET kept == Cleared(Cleared(armed, timeouts[u]), forceLogoutTimeouts[u]) IN
       \E id \in Timers :
            /\ Unreachable(id)
            /\ timeouts' = [timeouts EXCEPT ![u] = IF delay > 0 THEN id ELSE None]
            /\ forceLogoutTimeouts' =
                    [forceLogoutTimeouts EXCEPT ![u] = IF delay > 0 THEN None ELSE id]
            /\ armed' = kept \cup {[id |-> id, user |-> u,
                                    kind |-> IF delay > 0 THEN "warning" ELSE "logout"]}
    /\ UNCHANGED lastEvent

ForceLogoutRepeats(id) ==
    \E t \in armed :
        /\ t.id = id /\ t.kind = "logout"
        /\ lastEvent' = [lastEvent EXCEPT ![t.user] = "FORCE_LOGOUT"]
        /\ UNCHANGED <<timeouts, forceLogoutTimeouts, armed>>

CancelDropsHandleOnly(u) ==
    /\ forceLogoutTimeouts' = [forceLogoutTimeouts EXCEPT ![u] = None]
    /\ UNCHANGED <<timeouts, armed, lastEvent>>

-----------------------------------------------------------------------------
(* scheduleTokenExpiryWarning: clears the user's warning and force-logout  *)
(* timers, then arms a new warning unless the delay is not positive.       *)
scheduleTokenExpiryWarning(u, delay) ==
    /\ forceLogoutTimeouts' = [forceLogoutTimeouts EXCEPT ![u] = None]
    /\ LET kept == Cleared(Cleared(armed, timeouts[u]), forceLogoutTimeouts[u]) IN
       \/ /\ delay <= 0
          /\ timeouts' = [timeouts EXCEPT ![u] = None]
          /\ armed' = kept
       \/ /\ delay > 0
          /\ \E id \in Timers :
                /\ Unreachable(id)
                /\ timeouts' = [timeouts EXCEPT ![u] = id]
                /\ armed' = kept \cup {[id |-> id, user |-> u, kind |-> "warning"]}
    /\ UNCHANGED lastEvent

(* cancelForceLogout, called by refresh and logout. *)
cancelForceLogout(u) ==
    /\ armed' = Cleared(armed, forceLogoutTimeouts[u])
    /\ forceLogoutTimeouts' = [forceLogoutTimeouts EXCEPT ![u] = None]
    /\ UNCHANGED <<timeouts, lastEvent>>

(* The warning callback: forgets its handle, emits TOKEN_EXPIRING and      *)
(* calls scheduleForceLogout, which overwrites whatever handle it finds.   *)
fireWarning(id) ==
    \E t \in armed :
        /\ t.id = id /\ t.kind = "warning"
        /\ timeouts' = [timeouts EXCEPT ![t.user] = None]
        /\ lastEvent' = [lastEvent EXCEPT ![t.user] = "TOKEN_EXPIRING"]
        /\ \E fresh \in Timers :
            /\ Unreachable(fresh)
            /\ forceLogoutTimeouts' = [forceLogoutTimeouts EXCEPT ![t.user] = fresh]
            /\ armed' = (armed \ {t}) \cup
                            {[id |-> fresh, user |-> t.user, kind |-> "logout"]}

(* The force-logout callback: forgets its handle and emits FORCE_LOGOUT. *)
fireForceLogout(id) ==
    \E t \in armed :
        /\ t.id = id /\ t.kind = "logout"
        /\ forceLogoutTimeouts' = [forceLogoutTimeouts EXCEPT ![t.user] = None]
        /\ armed' = armed \ {t}
        /\ lastEvent' = [lastEvent EXCEPT ![t.user] = "FORCE_LOGOUT"]
        /\ UNCHANGED timeouts

(* A restart of the process: maps and timers are in memory only. *)
TimersRestart ==
    /\ timeouts' = [u \in Users |-> None]
    /\ forceLogoutTimeouts' = [u \in Users |-> None]
    /\ armed' = {}
    /\ UNCHANGED lastEvent

TimersNext ==
    \/ \E u \in Users :
        \/ \E delay \in Delays : scheduleTokenExpiryWarning(u, delay)
        \/ cancelForceLogout(u)
    \/ \E id \in Timers : fireWarning(id) \/ fireForceLogout(id)
    \/ TimersRestart

TimersSpec == TimersInit /\ [][TimersNext]_timerVars

\* The event loop fires every timer that stays armed.
TimersFairness == \A id \in Timers :
    WF_timerVars(fireWarning(id)) /\ WF_timerVars(fireForceLogout(id))

FairTimersSpec == TimersSpec /\ TimersFairness

-----------------------------------------------------------------------------
(* The event loop and the two maps agree: every armed timer is the one its *)
(* user's map holds, and every handle in a map is an armed timer.  A timer *)
(* that escaped its map could never be cancelled, and would log out a user *)
(* who has refreshed since (token-expiry.service.ts:21-27).                *)
TimersMatchHandles ==
    /\ \A t \in armed :
        \/ t.kind = "warning" /\ timeouts[t.user] = t.id
        \/ t.kind = "logout" /\ forceLogoutTimeouts[t.user] = t.id
    /\ \A u \in Users :
        /\ timeouts[u] # None =>
            [id |-> timeouts[u], user |-> u, kind |-> "warning"] \in armed
        /\ forceLogoutTimeouts[u] # None =>
            [id |-> forceLogoutTimeouts[u], user |-> u, kind |-> "logout"] \in armed

(* A user never waits for a warning and for a forced logout at once, over  *)
(* any sequence of logins, refreshes, cancellations and fired timers: a    *)
(* newer schedule always supersedes the older stage.                       *)
OneStagePerUser == \A t1, t2 \in armed : t1.user = t2.user => t1 = t2

\* The invariant that is inductive: handles of distinct users or kinds differ.
HandlesDistinct ==
    \A t1, t2 \in armed : t1.id = t2.id => t1 = t2

\* A pending forced logout was announced, and nothing was emitted since.
GraceAnnounced ==
    \A t \in armed : t.kind = "logout" => lastEvent[t.user] = "TOKEN_EXPIRING"

TimersIInv ==
    /\ TimersTypeOK
    /\ TimersMatchHandles
    /\ OneStagePerUser
    /\ HandlesDistinct
    /\ GraceAnnounced

\* The stage a user is in, read off the timers that are armed.
Waiting(u, kind) == \E t \in armed : t.user = u /\ t.kind = kind

StageOf(u) ==
    IF Waiting(u, "warning") THEN "warning"
    ELSE IF Waiting(u, "logout") THEN "grace" ELSE "idle"

Stage == INSTANCE ExpiryStage WITH stage <- [u \in Users |-> StageOf(u)]

(* The timers and maps implement the three-stage protocol of ExpiryStage:  *)
(* a user goes from a warning to the grace period to idle, and back to a   *)
(* warning only when a login or a refresh schedules one.                   *)
ImplementsStages == Stage!StageSpec

(* FORCE_LOGOUT reaches a user's browsers only as the sequel of the last   *)
(* event they got, TOKEN_EXPIRING, and never while a newer warning is      *)
(* pending (token-expiry.service.ts:27, 38-43, 67-71).                     *)
ForceLogoutFollowsWarning ==
    [][\A u \in Users :
        lastEvent'[u] = "FORCE_LOGOUT" /\ lastEvent[u] # "FORCE_LOGOUT" =>
            lastEvent[u] = "TOKEN_EXPIRING" /\ StageOf(u) = "grace"]_timerVars

(* With an event loop that fires armed timers, a user who is not scheduled *)
(* again for ever comes back to idle: a warning is always followed by the  *)
(* forced logout, and neither repeats.                                     *)
PendingStageSettles == \A u \in Users :
    \/ []<>(StageOf(u) = "idle")
    \/ []<><<\E delay \in Delays : scheduleTokenExpiryWarning(u, delay)>>_timerVars
=============================================================================
