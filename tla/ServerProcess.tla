--------------------------- MODULE ServerProcess ---------------------------
(***************************************************************************)
(* The one Node process of the server, with the two services that keep     *)
(* state in its memory while time passes: the timers of TokenExpiry and    *)
(* the batches of LogArchive.  Their steps interleave freely and share     *)
(* nothing, but a restart (main.ts, or a crash) ends both at once, in the  *)
(* middle of whatever the other one was doing.                             *)
(***************************************************************************)
EXTENDS LogArchive, TokenExpiry

ProcessInit == Init /\ TimersInit

ArchiveStep ==
    /\ \/ \E l \in Logs : Write(l) \/ Age(l)
       \/ \E r \in Runs : Begin(r) \/ Find(r) \/ BulkWrite(r) \/ DeleteMany(r) \/ Fail(r)
    /\ UNCHANGED timerVars

ExpiryStep ==
    /\ \/ \E u \in Users :
            \/ \E delay \in Delays : scheduleTokenExpiryWarning(u, delay)
            \/ cancelForceLogout(u)
       \/ \E id \in Timers : fireWarning(id) \/ fireForceLogout(id)
    /\ UNCHANGED vars

ProcessRestart == Restart /\ TimersRestart

ProcessNext == ArchiveStep \/ ExpiryStep \/ ProcessRestart

ProcessSpec == ProcessInit /\ [][ProcessNext]_<<vars, timerVars>>

FairProcessSpec == ProcessSpec /\ Fairness /\ TimersFairness

\* The state of both services has its type.
ProcessTypeOK == TypeOK /\ TimersTypeOK
=============================================================================
