---------------------------- MODULE ExpiryStage ----------------------------
(***************************************************************************)
(* What the token-expiry service promises for every user, with no timers:  *)
(* a user is "idle", has a "warning" pending, or is in the "grace" period  *)
(* between TOKEN_EXPIRING and FORCE_LOGOUT.  TokenExpiry implements this   *)
(* module; Sessions composes it with the authentication service.           *)
(***************************************************************************)
CONSTANT Users

VARIABLE stage      \* what is pending for each user

Stages == {"idle", "warning", "grace"}

StageInit == stage = [u \in Users |-> "idle"]

\* A positive delay arms the warning; a delay that is too short leaves nothing.
StageSchedule(u, skipped) ==
    stage' = [stage EXCEPT ![u] = IF skipped THEN "idle" ELSE "warning"]

StageCancel(u) ==
    stage' = [stage EXCEPT ![u] = IF @ = "grace" THEN "idle" ELSE @]

StageWarn(u) ==
    /\ stage[u] = "warning"
    /\ stage' = [stage EXCEPT ![u] = "grace"]

StageForceLogout(u) ==
    /\ stage[u] = "grace"
    /\ stage' = [stage EXCEPT ![u] = "idle"]

\* The pending timers live in the process only.
StageRestart == stage' = [u \in Users |-> "idle"]

StageNext ==
    \/ \E u \in Users :
        \/ \E skipped \in BOOLEAN : StageSchedule(u, skipped)
        \/ StageCancel(u)
        \/ StageWarn(u)
        \/ StageForceLogout(u)
    \/ StageRestart

StageSpec == StageInit /\ [][StageNext]_stage
=============================================================================
