------------------------ MODULE ServerProcessProofs ------------------------
(***************************************************************************)
(* The theorems about the server's process and its two services: first     *)
(* TokenExpiry, for every set of users, timer handles and delays, then     *)
(* LogArchive, for every set of entries and invocations and every batch    *)
(* size, and last the process, whose steps are steps of one service that   *)
(* leave the other alone, or restarts of both.                             *)
(***************************************************************************)
EXTENDS ServerProcess, FiniteSetTheorems, TLAPS

-----------------------------------------------------------------------------
(* TokenExpiry.                                                            *)
\* The state has its type in every reachable state (the maps of
\* token-expiry.service.ts:10-11 and the event loop's timers).
THEOREM TimersTypeCorrect == TimersSpec => []TimersTypeOK
<1>1. TimersInit => TimersTypeOK
  BY DEF TimersInit, TimersTypeOK
<1>2. TimersTypeOK /\ [TimersNext]_timerVars => TimersTypeOK'
  <2> SUFFICES ASSUME TimersTypeOK, [TimersNext]_timerVars PROVE TimersTypeOK'
    OBVIOUS
  <2> USE DEF TimersTypeOK, Timer, Kinds, Cleared
  <2>1. ASSUME NEW u \in Users, NEW delay \in Delays,
               scheduleTokenExpiryWarning(u, delay)
        PROVE  TimersTypeOK'
    BY <2>1 DEF scheduleTokenExpiryWarning
  <2>2. ASSUME NEW u \in Users, cancelForceLogout(u) PROVE TimersTypeOK'
    BY <2>2 DEF cancelForceLogout
  <2>3. ASSUME NEW id \in Timers, fireWarning(id) PROVE TimersTypeOK'
    BY <2>3 DEF fireWarning
  <2>4. ASSUME NEW id \in Timers, fireForceLogout(id) PROVE TimersTypeOK'
    BY <2>4 DEF fireForceLogout
  <2>5. CASE TimersRestart
    BY <2>5 DEF TimersRestart
  <2>6. CASE UNCHANGED timerVars
    BY <2>6 DEF timerVars
  <2>7. QED
    BY <2>1, <2>2, <2>3, <2>4, <2>5, <2>6 DEF TimersNext
<1>3. QED
  BY <1>1, <1>2, PTL DEF TimersSpec

\* clearTimeout of a user's handle drops exactly that user's timer of the kind.
LEMMA ClearedTimers ==
  ASSUME NEW u \in Users, TimersIInv
  PROVE  /\ Cleared(armed, timeouts[u]) =
                {t \in armed : ~(t.user = u /\ t.kind = "warning")}
         /\ Cleared(armed, forceLogoutTimeouts[u]) =
                {t \in armed : ~(t.user = u /\ t.kind = "logout")}
<1> USE HandleAssumption DEF TimersIInv
<1>1. ASSUME NEW t \in armed
      PROVE  /\ t \in Timer
             /\ t.id = timeouts[u] <=> t.user = u /\ t.kind = "warning"
             /\ t.id = forceLogoutTimeouts[u] <=> t.user = u /\ t.kind = "logout"
  <2>1. t \in Timer
    BY DEF TimersTypeOK
  <2>2. t.id # None /\ t.kind \in {"warning", "logout"}
    BY <2>1 DEF Timer, Kinds
  <2>3. t.user = u /\ t.kind = "warning" => t.id = timeouts[u]
    BY <2>2 DEF TimersMatchHandles
  <2>4. t.user = u /\ t.kind = "logout" => t.id = forceLogoutTimeouts[u]
    BY <2>2 DEF TimersMatchHandles
  <2>5. ASSUME t.id = timeouts[u] PROVE t.user = u /\ t.kind = "warning"
    <3> DEFINE w == [id |-> timeouts[u], user |-> u, kind |-> "warning"]
    <3>1. w \in armed
      BY <2>2, <2>5 DEF TimersMatchHandles
    <3>2. w.id = t.id
      BY <2>5
    <3>3. w = t
      BY <3>1, <3>2 DEF HandlesDistinct
    <3>4. QED
      BY <3>3
  <2>6. ASSUME t.id = forceLogoutTimeouts[u] PROVE t.user = u /\ t.kind = "logout"
    <3> DEFINE w == [id |-> forceLogoutTimeouts[u], user |-> u, kind |-> "logout"]
    <3>1. w \in armed
      BY <2>2, <2>6 DEF TimersMatchHandles
    <3>2. w.id = t.id
      BY <2>6
    <3>3. w = t
      BY <3>1, <3>2 DEF HandlesDistinct
    <3>4. QED
      BY <3>3
  <2>7. QED
    BY <2>1, <2>3, <2>4, <2>5, <2>6
<1>2. QED
  BY <1>1 DEF Cleared

\* Arming a timer under a fresh id, after the user's two handles have been
\* cleared, keeps the correspondence between maps and event loop.
LEMMA ScheduleKeepsIInv ==
  ASSUME NEW u \in Users, NEW delay \in Delays,
         TimersIInv, TimersTypeOK', scheduleTokenExpiryWarning(u, delay)
  PROVE  TimersIInv'
<1> USE DEF TimersIInv
<1> DEFINE kept == {t \in armed : t.user # u}
<1>1. Cleared(Cleared(armed, timeouts[u]), forceLogoutTimeouts[u]) = kept
  <2>1. \A t \in armed : t.kind \in {"warning", "logout"}
    BY DEF TimersTypeOK, Timer, Kinds
  <2>2. QED
    BY <2>1, ClearedTimers DEF Cleared
<1>2. forceLogoutTimeouts' = [forceLogoutTimeouts EXCEPT ![u] = None]
  BY DEF scheduleTokenExpiryWarning
<1>3. UNCHANGED lastEvent
  BY DEF scheduleTokenExpiryWarning
<1>4. CASE delay <= 0
  <2>1. timeouts' = [timeouts EXCEPT ![u] = None] /\ armed' = kept
    BY <1>1, <1>4, DelaysAssumption DEF scheduleTokenExpiryWarning
  <2>2. TimersMatchHandles'
    BY <1>2, <2>1 DEF TimersMatchHandles, TimersTypeOK, Timer
  <2>3. OneStagePerUser' /\ HandlesDistinct'
    BY <2>1 DEF OneStagePerUser, HandlesDistinct
  <2>4. GraceAnnounced'
    BY <1>3, <2>1 DEF GraceAnnounced
  <2>5. QED
    BY <2>2, <2>3, <2>4
<1>5. CASE delay > 0
  <2>1. PICK id \in Timers :
          /\ Unreachable(id)
          /\ timeouts' = [timeouts EXCEPT ![u] = id]
          /\ armed' = kept \cup {[id |-> id, user |-> u, kind |-> "warning"]}
    BY <1>1, <1>5, DelaysAssumption DEF scheduleTokenExpiryWarning
  <2>2. TimersMatchHandles'
    BY <1>2, <2>1, HandleAssumption DEF TimersMatchHandles, TimersTypeOK, Timer
  <2>3. OneStagePerUser'
    BY <2>1 DEF OneStagePerUser
  <2>4. HandlesDistinct'
    BY <2>1 DEF HandlesDistinct, Unreachable
  <2>5. GraceAnnounced'
    BY <1>3, <2>1 DEF GraceAnnounced
  <2>6. QED
    BY <2>2, <2>3, <2>4, <2>5
<1>6. QED
  BY <1>4, <1>5, DelaysAssumption

\* The warning callback replaces its own timer by the force-logout timer.
LEMMA WarningKeepsIInv ==
  ASSUME NEW i \in Timers, TimersIInv, TimersTypeOK', fireWarning(i)
  PROVE  TimersIInv'
<1> USE DEF TimersIInv
<1>1. PICK t \in armed :
        /\ t.id = i /\ t.kind = "warning"
        /\ timeouts' = [timeouts EXCEPT ![t.user] = None]
        /\ lastEvent' = [lastEvent EXCEPT ![t.user] = "TOKEN_EXPIRING"]
        /\ \E fresh \in Timers :
            /\ Unreachable(fresh)
            /\ forceLogoutTimeouts' = [forceLogoutTimeouts EXCEPT ![t.user] = fresh]
            /\ armed' = (armed \ {t}) \cup
                            {[id |-> fresh, user |-> t.user, kind |-> "logout"]}
  BY DEF fireWarning
<1>2. PICK fresh \in Timers :
        /\ Unreachable(fresh)
        /\ forceLogoutTimeouts' = [forceLogoutTimeouts EXCEPT ![t.user] = fresh]
        /\ armed' = (armed \ {t}) \cup
                        {[id |-> fresh, user |-> t.user, kind |-> "logout"]}
  BY <1>1
<1>3. t \in Timer
  BY DEF TimersTypeOK
<1>4. TimersMatchHandles'
  BY <1>1, <1>2, <1>3, HandleAssumption
  DEF TimersMatchHandles, OneStagePerUser, TimersTypeOK, Timer
<1>5. OneStagePerUser' /\ HandlesDistinct'
  BY <1>1, <1>2, <1>3 DEF OneStagePerUser, HandlesDistinct, Unreachable
<1>6. GraceAnnounced'
  BY <1>1, <1>2, <1>3 DEF GraceAnnounced, TimersTypeOK, Timer
<1>7. QED
  BY <1>4, <1>5, <1>6

\* Maps and event loop agree, and no user has two timers: the inductive
\* invariant of the service (token-expiry.service.ts:15-74).
THEOREM TimersInductiveInvariant == TimersSpec => []TimersIInv
<1>1. TimersInit => TimersIInv
  BY HandleAssumption
  DEF TimersInit, TimersIInv, TimersTypeOK, TimersMatchHandles, OneStagePerUser, HandlesDistinct, GraceAnnounced
<1>2. TimersIInv /\ TimersTypeOK' /\ [TimersNext]_timerVars => TimersIInv'
  <2> SUFFICES ASSUME TimersIInv, TimersTypeOK', [TimersNext]_timerVars PROVE TimersIInv'
    OBVIOUS
  <2>1. ASSUME NEW u \in Users, NEW delay \in Delays,
               scheduleTokenExpiryWarning(u, delay)
        PROVE  TimersIInv'
    BY <2>1, ScheduleKeepsIInv
  <2>2. ASSUME NEW u \in Users, cancelForceLogout(u) PROVE TimersIInv'
    <3>1. armed' = {t \in armed : ~(t.user = u /\ t.kind = "logout")}
      BY <2>2, ClearedTimers DEF cancelForceLogout
    <3>2. QED
      BY <2>2, <3>1 DEF cancelForceLogout, TimersIInv, TimersTypeOK, Timer,
          TimersMatchHandles, OneStagePerUser, HandlesDistinct, GraceAnnounced
  <2>3. ASSUME NEW id \in Timers, fireWarning(id) PROVE TimersIInv'
    BY <2>3, WarningKeepsIInv
  <2>4. ASSUME NEW id \in Timers, fireForceLogout(id) PROVE TimersIInv'
    BY <2>4, HandleAssumption
    DEF fireForceLogout, TimersIInv, TimersTypeOK, Timer,
        TimersMatchHandles, OneStagePerUser, HandlesDistinct, GraceAnnounced
  <2>5. CASE TimersRestart
    BY <2>5, HandleAssumption
    DEF TimersRestart, TimersIInv, TimersMatchHandles, OneStagePerUser, HandlesDistinct, GraceAnnounced
  <2>6. CASE UNCHANGED timerVars
    BY <2>6 DEF timerVars, Unreachable, TimersIInv, TimersTypeOK, TimersMatchHandles,
        OneStagePerUser, HandlesDistinct, GraceAnnounced
  <2>7. QED
    BY <2>1, <2>2, <2>3, <2>4, <2>5, <2>6 DEF TimersNext
<1>3. QED
  BY <1>1, <1>2, TimersTypeCorrect, PTL DEF TimersSpec

\* No timer escapes its map and no handle is stale, so that the clearTimeout
\* calls of schedule and cancel reach every pending timer.
THEOREM NoTimerEscapes == TimersSpec => []TimersMatchHandles
  BY TimersInductiveInvariant, PTL DEF TimersIInv

\* A newer login or refresh supersedes the older stage of the same user.
THEOREM OneStage == TimersSpec => []OneStagePerUser
  BY TimersInductiveInvariant, PTL DEF TimersIInv

\* A forced logout is the sequel of the last TOKEN_EXPIRING of its user.
THEOREM ForceLogoutAnnounced == TimersSpec => ForceLogoutFollowsWarning
<1>1. ASSUME TimersIInv, [TimersNext]_timerVars, NEW u \in Users,
             lastEvent'[u] = "FORCE_LOGOUT", lastEvent[u] # "FORCE_LOGOUT"
      PROVE  lastEvent[u] = "TOKEN_EXPIRING" /\ StageOf(u) = "grace"
  <2>1. lastEvent' # lastEvent
    BY <1>1
  <2>2. PICK id \in Timers : fireWarning(id) \/ fireForceLogout(id)
    BY <1>1, <2>1 DEF TimersNext, timerVars, scheduleTokenExpiryWarning, cancelForceLogout, TimersRestart
  <2>3. ~fireWarning(id)
    BY <1>1 DEF fireWarning, TimersIInv, TimersTypeOK, Timer
  <2>4. PICK t \in armed : t.kind = "logout" /\ t.user = u
    BY <1>1, <2>2, <2>3 DEF fireForceLogout, TimersIInv, TimersTypeOK, Timer
  <2>5. lastEvent[u] = "TOKEN_EXPIRING"
    BY <1>1, <2>4 DEF TimersIInv, GraceAnnounced
  <2>6. StageOf(u) = "grace"
    BY <1>1, <2>4 DEF TimersIInv, OneStagePerUser, StageOf, Waiting
  <2>7. QED
    BY <2>5, <2>6
<1>2. TimersIInv /\ [TimersNext]_timerVars =>
        [\A u \in Users :
            lastEvent'[u] = "FORCE_LOGOUT" /\ lastEvent[u] # "FORCE_LOGOUT" =>
                lastEvent[u] = "TOKEN_EXPIRING" /\ StageOf(u) = "grace"]_timerVars
  BY <1>1
<1>3. QED
  BY <1>2, TimersInductiveInvariant, PTL DEF TimersSpec, ForceLogoutFollowsWarning

-----------------------------------------------------------------------------
\* A step changes the stage of the users whose timers it touches and no other.
LEMMA StageFrame ==
  ASSUME NEW u \in Users, {t \in armed' : t.user = u} = {t \in armed : t.user = u}
  PROVE  StageOf(u)' = StageOf(u)
<1>1. \A t : t \in armed' /\ t.user = u <=> t \in armed /\ t.user = u
  OBVIOUS
<1>2. \A k : (\E t \in armed' : t.user = u /\ t.kind = k)
                <=> (\E t \in armed : t.user = u /\ t.kind = k)
  BY <1>1
<1>3. /\ (\E t \in armed' : t.user = u /\ t.kind = "warning")
            <=> (\E t \in armed : t.user = u /\ t.kind = "warning")
      /\ (\E t \in armed' : t.user = u /\ t.kind = "logout")
            <=> (\E t \in armed : t.user = u /\ t.kind = "logout")
  BY <1>2
<1>4. QED
  BY <1>3 DEF StageOf, Waiting

\* The three stages in terms of the user's timers.
LEMMA StageValues ==
  ASSUME NEW u \in Users, TimersIInv
  PROVE  /\ StageOf(u) = "warning" <=>
                \E t \in armed : t.user = u /\ t.kind = "warning"
         /\ StageOf(u) = "grace" <=>
                \E t \in armed : t.user = u /\ t.kind = "logout"
         /\ StageOf(u) \in {"idle", "warning", "grace"}
<1>1. \A t1, t2 \in armed :
        ~(t1.user = u /\ t1.kind = "warning" /\ t2.user = u /\ t2.kind = "logout")
  BY DEF TimersIInv, OneStagePerUser
<1>2. QED
  BY <1>1 DEF StageOf, Waiting

\* Every step of the timers is a step of the three-stage protocol or leaves
\* it unchanged.
LEMMA StepImplementsStages ==
  ASSUME TimersIInv, TimersIInv', [TimersNext]_timerVars
  PROVE  [Stage!StageNext]_([u \in Users |-> StageOf(u)])
<1> DEFINE st == [u \in Users |-> StageOf(u)]
<1> USE DEF Stage!StageNext
<1>1. ASSUME NEW u \in Users, NEW delay \in Delays,
             scheduleTokenExpiryWarning(u, delay)
      PROVE  \E skipped \in BOOLEAN : Stage!StageSchedule(u, skipped)
  <2> DEFINE kept == {t \in armed : t.user # u}
  <2>1. \A t \in armed : t.kind \in {"warning", "logout"}
    BY DEF TimersIInv, TimersTypeOK, Timer, Kinds
  <2>2. Cleared(Cleared(armed, timeouts[u]), forceLogoutTimeouts[u]) = kept
    BY <2>1, ClearedTimers DEF Cleared
  <2>3. \A v \in Users : v # u => StageOf(v)' = StageOf(v)
    <3>1. kept \subseteq armed' /\ \A t \in armed' : t \in kept \/ t.user = u
      BY <1>1, <2>2 DEF scheduleTokenExpiryWarning
    <3>2. ASSUME NEW v \in Users, v # u
          PROVE  {t \in armed' : t.user = v} = {t \in armed : t.user = v}
      BY <3>1, <3>2
    <3>3. QED
      BY <3>2, StageFrame
  <2>4. StageOf(u)' = IF delay <= 0 THEN "idle" ELSE "warning"
    <3>1. CASE delay <= 0
      <4>1. armed' = kept
        BY <1>1, <2>2, <3>1, DelaysAssumption DEF scheduleTokenExpiryWarning
      <4>2. QED
        BY <3>1, <4>1 DEF StageOf, Waiting
    <3>2. CASE ~(delay <= 0)
      <4>1. PICK id \in Timers :
              armed' = kept \cup {[id |-> id, user |-> u, kind |-> "warning"]}
        BY <1>1, <2>2, <3>2, DelaysAssumption DEF scheduleTokenExpiryWarning
      <4> DEFINE w == [id |-> id, user |-> u, kind |-> "warning"]
      <4>2. w \in armed' /\ w.user = u /\ w.kind = "warning"
        BY <4>1
      <4>3. QED
        BY <3>2, <4>2 DEF StageOf, Waiting
    <3>3. QED
      BY <3>1, <3>2
  <2>5. st' = [st EXCEPT ![u] = IF delay <= 0 THEN "idle" ELSE "warning"]
    BY <2>3, <2>4
  <2>7. CASE delay <= 0
    <3>1. Stage!StageSchedule(u, TRUE)
      BY <2>5, <2>7 DEF Stage!StageSchedule
    <3>2. QED
      BY <3>1
  <2>8. CASE ~(delay <= 0)
    <3>1. Stage!StageSchedule(u, FALSE)
      BY <2>5, <2>8 DEF Stage!StageSchedule
    <3>2. QED
      BY <3>1
  <2>9. QED
    BY <2>7, <2>8
<1>2. ASSUME NEW u \in Users, cancelForceLogout(u)
      PROVE  Stage!StageCancel(u)
  <2>1. armed' = {t \in armed : ~(t.user = u /\ t.kind = "logout")}
    BY <1>2, ClearedTimers DEF cancelForceLogout
  <2>2. \A v \in Users : v # u => StageOf(v)' = StageOf(v)
    <3>1. ASSUME NEW v \in Users, v # u
          PROVE  {t \in armed' : t.user = v} = {t \in armed : t.user = v}
      BY <2>1, <3>1
    <3>2. QED
      BY <3>1, StageFrame
  <2>3. StageOf(u)' = IF StageOf(u) = "grace" THEN "idle" ELSE StageOf(u)
    <3>1. ~ \E t \in armed' : t.user = u /\ t.kind = "logout"
      BY <2>1
    <3>2. (\E t \in armed' : t.user = u /\ t.kind = "warning")
            <=> (\E t \in armed : t.user = u /\ t.kind = "warning")
      BY <2>1
    <3>3. StageOf(u)' = IF \E t \in armed : t.user = u /\ t.kind = "warning"
                        THEN "warning" ELSE "idle"
      BY <3>1, <3>2 DEF StageOf, Waiting
    <3>4. QED
      BY <3>3, StageValues
  <2>4. st' = [st EXCEPT ![u] = IF @ = "grace" THEN "idle" ELSE @]
    BY <2>2, <2>3
  <2>5. QED
    BY <2>4 DEF Stage!StageCancel
<1>3. ASSUME NEW id \in Timers, fireWarning(id)
      PROVE  \E u \in Users : Stage!StageWarn(u)
  <2>1. PICK t \in armed :
          /\ t.kind = "warning"
          /\ \E fresh \in Timers :
                armed' = (armed \ {t}) \cup
                            {[id |-> fresh, user |-> t.user, kind |-> "logout"]}
    BY <1>3 DEF fireWarning
  <2>2. PICK fresh \in Timers :
          armed' = (armed \ {t}) \cup
                      {[id |-> fresh, user |-> t.user, kind |-> "logout"]}
    BY <2>1
  <2>3. t.user \in Users
    BY DEF TimersIInv, TimersTypeOK, Timer
  <2>4. StageOf(t.user) = "warning"
    BY <2>1, <2>3 DEF StageOf, Waiting
  <2>5. StageOf(t.user)' = "grace"
    <3>1. ~ \E s \in armed' : s.user = t.user /\ s.kind = "warning"
      BY <2>2 DEF TimersIInv, OneStagePerUser
    <3> DEFINE w == [id |-> fresh, user |-> t.user, kind |-> "logout"]
    <3>2. w \in armed' /\ w.user = t.user /\ w.kind = "logout"
      BY <2>2
    <3>3. QED
      BY <3>1, <3>2 DEF StageOf, Waiting
  <2>6. \A v \in Users : v # t.user => StageOf(v)' = StageOf(v)
    <3>1. ASSUME NEW v \in Users, v # t.user
          PROVE  {s \in armed' : s.user = v} = {s \in armed : s.user = v}
      BY <2>2, <3>1
    <3>2. QED
      BY <3>1, StageFrame
  <2>7. st' = [st EXCEPT ![t.user] = "grace"]
    BY <2>3, <2>5, <2>6
  <2>8. st[t.user] = "warning"
    BY <2>3, <2>4
  <2>9. QED
    BY <2>3, <2>7, <2>8 DEF Stage!StageWarn
<1>4. ASSUME NEW id \in Timers, fireForceLogout(id)
      PROVE  \E u \in Users : Stage!StageForceLogout(u)
  <2>1. PICK t \in armed :
          /\ t.kind = "logout"
          /\ armed' = armed \ {t}
    BY <1>4 DEF fireForceLogout
  <2>2. t.user \in Users
    BY DEF TimersIInv, TimersTypeOK, Timer
  <2>3. StageOf(t.user) = "grace"
    BY <2>1, <2>2, StageValues
  <2>4. StageOf(t.user)' = "idle"
    <3>1. ~ \E s \in armed' : s.user = t.user
      BY <2>1 DEF TimersIInv, OneStagePerUser
    <3>2. QED
      BY <3>1 DEF StageOf, Waiting
  <2>5. \A v \in Users : v # t.user => StageOf(v)' = StageOf(v)
    <3>1. ASSUME NEW v \in Users, v # t.user
          PROVE  {s \in armed' : s.user = v} = {s \in armed : s.user = v}
      BY <2>1, <3>1
    <3>2. QED
      BY <3>1, StageFrame
  <2>6. st' = [st EXCEPT ![t.user] = "idle"] /\ st[t.user] = "grace"
    BY <2>2, <2>3, <2>4, <2>5
  <2>7. QED
    BY <2>2, <2>6 DEF Stage!StageForceLogout
<1>5. CASE TimersRestart
  <2>1. \A v \in Users : StageOf(v)' = "idle"
    BY <1>5 DEF TimersRestart, StageOf, Waiting
  <2>2. Stage!StageRestart
    BY <1>5, <2>1 DEF TimersRestart, Stage!StageRestart
  <2>3. QED
    BY <2>2
<1>6. CASE UNCHANGED timerVars
  BY <1>6 DEF timerVars, StageOf, Waiting
<1>7. CASE TimersNext
  <2>1. CASE \E u \in Users, delay \in Delays : scheduleTokenExpiryWarning(u, delay)
    BY <2>1, <1>1
  <2>2. CASE \E u \in Users : cancelForceLogout(u)
    BY <2>2, <1>2
  <2>3. CASE \E id \in Timers : fireWarning(id) \/ fireForceLogout(id)
    BY <2>3, <1>3, <1>4
  <2>4. QED
    BY <1>7, <2>1, <2>2, <2>3, <1>5 DEF TimersNext
<1>8. QED
  BY <1>6, <1>7

\* The timers and maps of TokenExpiryService implement the three-stage
\* protocol idle -> warning -> grace -> idle.
THEOREM TimersImplementStages == TimersSpec => ImplementsStages
<1>1. TimersInit => Stage!StageInit
  BY DEF TimersInit, Stage!StageInit, StageOf, Waiting
<1>2. TimersIInv /\ TimersIInv' /\ [TimersNext]_timerVars => [Stage!StageNext]_([u \in Users |-> StageOf(u)])
  BY StepImplementsStages
<1>3. QED
  BY <1>1, <1>2, TimersInductiveInvariant, PTL DEF TimersSpec, ImplementsStages, Stage!StageSpec

-----------------------------------------------------------------------------
(* LogArchive.                                                             *)
\* What an invocation reads, it may move: batches are sets of candidates.
LEMMA BatchesAreCandidates ==
  ASSUME NEW r \in Runs, NEW found \in Batches(r)
  PROVE  found \subseteq Candidates(r) /\ Cardinality(found) <= BatchSize
BY BatchSizeAssumption DEF Batches

\* An invocation that holds no batch is within the limit.
LEMMA NoBatchFits == Cardinality({}) <= BatchSize
BY BatchSizeAssumption, FS_EmptySet

\* An upsert leaves exactly one copy of each entry it is asked for, and the
\* other entries alone.
LEMMA UpsertedCopies ==
  ASSUME copies \in [Logs -> Nat], NEW entries
  PROVE  /\ Upserted(entries) \in [Logs -> Nat]
         /\ \A l \in Logs : l \in entries => Upserted(entries)[l] > 0
         /\ \A l \in Logs : copies[l] > 0 => Upserted(entries)[l] = copies[l]
         /\ \A l \in Logs : l \notin entries => Upserted(entries)[l] = copies[l]
         /\ \A l \in Logs : copies[l] <= 1 => Upserted(entries)[l] <= 1
BY DEF Upserted

\* The state has its type in every reachable state (log-archive.service.ts).
THEOREM TypeCorrect == Spec => []TypeOK
<1>1. Init => TypeOK
  <2> SUFFICES ASSUME Init PROVE TypeOK
    OBVIOUS
  <2>1. copies \in [Logs -> Nat]
    BY DEF Init
  <2>2. /\ pc \in [Runs -> {"idle", "find", "bulkWrite", "deleteMany"}]
        /\ cutoff \in [Runs -> SUBSET Logs]
        /\ batch \in [Runs -> SUBSET Logs]
    BY DEF Init
  <2>3. QED
    BY <2>1, <2>2, NoBatchFits DEF Init, TypeOK
<1>2. TypeOK /\ [Next]_vars => TypeOK'
  <2> SUFFICES ASSUME TypeOK, [Next]_vars PROVE TypeOK'
    OBVIOUS
  <2> USE NoBatchFits DEF TypeOK
  <2>1. ASSUME NEW l \in Logs, Write(l) PROVE TypeOK'
    BY <2>1 DEF Write
  <2>2. ASSUME NEW l \in Logs, Age(l) PROVE TypeOK'
    BY <2>2 DEF Age
  <2>3. ASSUME NEW r \in Runs, Begin(r) PROVE TypeOK'
    BY <2>3 DEF Begin
  <2>4. ASSUME NEW r \in Runs, Find(r) PROVE TypeOK'
    <3>1. CASE Candidates(r) = {} /\ EndRun(r)
      BY <2>4, <3>1 DEF Find, EndRun
    <3>2. CASE \E found \in Batches(r) :
                  /\ batch' = [batch EXCEPT ![r] = found]
                  /\ pc' = [pc EXCEPT ![r] = "bulkWrite"]
                  /\ UNCHANGED <<isRunning, cutoff>>
      BY <2>4, <3>2, BatchesAreCandidates DEF Find, Candidates
    <3>3. QED
      BY <2>4, <3>1, <3>2 DEF Find
  <2>5. ASSUME NEW r \in Runs, BulkWrite(r) PROVE TypeOK'
    BY <2>5, UpsertedCopies DEF BulkWrite
  <2>6. ASSUME NEW r \in Runs, DeleteMany(r) PROVE TypeOK'
    BY <2>6 DEF DeleteMany
  <2>7. ASSUME NEW r \in Runs, Fail(r) PROVE TypeOK'
    <3>1. logs' \subseteq Logs /\ copies' \in [Logs -> Nat]
      BY <2>7, UpsertedCopies DEF Fail
    <3>2. QED
      BY <2>7, <3>1 DEF Fail, EndRun
  <2>8. CASE Restart
    BY <2>8 DEF Restart
  <2>9. CASE UNCHANGED vars
    BY <2>9 DEF vars
  <2>10. QED
    BY <2>1, <2>2, <2>3, <2>4, <2>5, <2>6, <2>7, <2>8, <2>9 DEF Next
<1>3. QED
  BY <1>1, <1>2, PTL DEF Spec

\* A call that fails half way keeps the invariant: whatever part of a batch was
\* copied or deleted, a deleted entry has its copy.
LEMMA FailKeepsIInv ==
  ASSUME NEW r \in Runs, IInv, TypeOK', Fail(r)
  PROVE  IInv'
<1> USE DEF IInv
<1>1. /\ isRunning' = FALSE
      /\ pc' = [pc EXCEPT ![r] = "idle"]
      /\ cutoff' = [cutoff EXCEPT ![r] = {}]
      /\ batch' = [batch EXCEPT ![r] = {}]
      /\ UNCHANGED <<written, old>>
  BY DEF Fail, EndRun
<1>2. pc[r] # "idle"
  BY DEF Fail
<1>3. \A q \in Runs : pc'[q] = "idle" /\ batch'[q] \in {{}, batch[q]}
                      /\ cutoff'[q] \in {{}, cutoff[q]}
  BY <1>1, <1>2 DEF OneRunAtATime, TypeOK
<1>4. OneRunAtATime' /\ RunningWhileActive'
  BY <1>3 DEF OneRunAtATime, RunningWhileActive
<1>5. \A l \in Logs : /\ copies[l] > 0 => copies'[l] > 0
                      /\ copies'[l] > 0 => copies[l] > 0 \/ l \in batch[r]
                      /\ copies'[l] <= 1
  <2>1. CASE UNCHANGED copies
    BY <2>1 DEF ArchivedOnce
  <2>2. CASE \E done \in SUBSET batch[r] : copies' = Upserted(done)
    BY <2>2, UpsertedCopies DEF ArchivedOnce, TypeOK
  <2>3. QED
    BY <2>1, <2>2 DEF Fail
<1>6. logs' \subseteq logs /\ \A l \in logs \ logs' : copies[l] > 0
  BY DEF Fail, BatchKnown
<1>7. NoLogLost' /\ ArchivedOnce'
  BY <1>1, <1>5, <1>6 DEF NoLogLost, ArchivedOnce, TypeOK
<1>8. CopiesWritten'
  BY <1>1, <1>5, <1>6 DEF CopiesWritten, BatchKnown
<1>9. BatchKnown'
  BY <1>1, <1>3 DEF BatchKnown
<1>10. QED
  BY <1>4, <1>7, <1>8, <1>9

\* The inductive invariant: what is in a batch at deleteMany has been copied.
THEOREM InductiveInvariant == Spec => []IInv
<1>1. Init /\ TypeOK => IInv
  BY DEF Init, IInv, NoLogLost, ArchivedOnce, OneRunAtATime,
         BatchKnown, CopiesWritten, RunningWhileActive
<1>2. IInv /\ TypeOK' /\ [Next]_vars => IInv'
  <2> SUFFICES ASSUME IInv, TypeOK', [Next]_vars PROVE IInv'
    OBVIOUS
  <2> USE DEF IInv
  <2>1. ASSUME NEW l \in Logs, Write(l) PROVE IInv'
    BY <2>1 DEF Write, TypeOK, NoLogLost, ArchivedOnce, OneRunAtATime,
                BatchKnown, CopiesWritten, RunningWhileActive
  <2>2. ASSUME NEW l \in Logs, Age(l) PROVE IInv'
    BY <2>2 DEF Age, TypeOK, NoLogLost, ArchivedOnce, OneRunAtATime,
                BatchKnown, CopiesWritten, RunningWhileActive
  <2>3. ASSUME NEW r \in Runs, Begin(r) PROVE IInv'
    <3>1. \A q \in Runs : q # r => pc[q] = "idle" /\ pc'[q] = "idle"
      BY <2>3 DEF Begin, RunningWhileActive, TypeOK
    <3>2. OneRunAtATime' /\ RunningWhileActive'
      BY <2>3, <3>1 DEF Begin, OneRunAtATime, RunningWhileActive
    <3>3. BatchKnown'
      BY <2>3, <3>1 DEF Begin, BatchKnown, TypeOK
    <3>4. QED
      BY <2>3, <3>2, <3>3 DEF Begin, NoLogLost, ArchivedOnce, CopiesWritten
  <2>4. ASSUME NEW r \in Runs, Find(r) PROVE IInv'
    <3>1. UNCHANGED <<logs, copies, written, old>>
      BY <2>4 DEF Find
    <3>2. CASE EndRun(r)
      <4>1. OneRunAtATime' /\ RunningWhileActive'
        BY <2>4, <3>2 DEF Find, EndRun, OneRunAtATime, RunningWhileActive, TypeOK
      <4>2. BatchKnown'
        BY <3>1, <3>2 DEF EndRun, BatchKnown, TypeOK
      <4>3. QED
        BY <3>1, <4>1, <4>2 DEF NoLogLost, ArchivedOnce, CopiesWritten
    <3>3. CASE ~EndRun(r)
      <4>1. PICK found \in Batches(r) :
              /\ batch' = [batch EXCEPT ![r] = found]
              /\ pc' = [pc EXCEPT ![r] = "bulkWrite"]
              /\ UNCHANGED <<isRunning, cutoff>>
        BY <2>4, <3>3 DEF Find
      <4>2. found \subseteq logs \cap Movable \cap cutoff[r]
        BY BatchesAreCandidates DEF Candidates
      <4>3. OneRunAtATime' /\ RunningWhileActive'
        BY <2>4, <4>1 DEF Find, OneRunAtATime, RunningWhileActive, TypeOK
      <4>4. BatchKnown'
        BY <3>1, <4>1, <4>2 DEF BatchKnown, CopiesWritten, TypeOK
      <4>5. QED
        BY <3>1, <4>3, <4>4 DEF NoLogLost, ArchivedOnce, CopiesWritten
    <3>4. QED
      BY <3>2, <3>3
  <2>5. ASSUME NEW r \in Runs, BulkWrite(r) PROVE IInv'
    <3>1. \A l \in Logs : /\ copies[l] > 0 => copies'[l] > 0
                          /\ l \in batch[r] => copies'[l] > 0
                          /\ copies'[l] > 0 => copies[l] > 0 \/ l \in batch[r]
                          /\ copies'[l] <= 1
      BY <2>5, UpsertedCopies DEF BulkWrite, TypeOK, ArchivedOnce
    <3>2. NoLogLost' /\ ArchivedOnce'
      BY <2>5, <3>1 DEF BulkWrite, NoLogLost, ArchivedOnce, TypeOK
    <3>3. CopiesWritten'
      BY <2>5, <3>1 DEF BulkWrite, CopiesWritten, BatchKnown
    <3>4. BatchKnown'
      BY <2>5, <3>1 DEF BulkWrite, BatchKnown, TypeOK
    <3>5. OneRunAtATime' /\ RunningWhileActive'
      BY <2>5 DEF BulkWrite, OneRunAtATime, RunningWhileActive, TypeOK
    <3>6. QED
      BY <3>2, <3>3, <3>4, <3>5
  <2>6. ASSUME NEW r \in Runs, DeleteMany(r) PROVE IInv'
    <3>1. NoLogLost' /\ ArchivedOnce' /\ CopiesWritten'
      BY <2>6 DEF DeleteMany, NoLogLost, ArchivedOnce, CopiesWritten, BatchKnown
    <3>2. OneRunAtATime' /\ RunningWhileActive'
      BY <2>6 DEF DeleteMany, OneRunAtATime, RunningWhileActive, TypeOK
    <3>3. BatchKnown'
      BY <2>6 DEF DeleteMany, BatchKnown, TypeOK
    <3>4. QED
      BY <3>1, <3>2, <3>3
  <2>7. ASSUME NEW r \in Runs, Fail(r) PROVE IInv'
    BY <2>7, FailKeepsIInv
  <2>8. CASE Restart
    BY <2>8 DEF Restart, NoLogLost, ArchivedOnce, OneRunAtATime,
                BatchKnown, CopiesWritten, RunningWhileActive
  <2>9. CASE UNCHANGED vars
    BY <2>9 DEF vars, NoLogLost, ArchivedOnce, OneRunAtATime,
                BatchKnown, CopiesWritten, RunningWhileActive
  <2>10. QED
    BY <2>1, <2>2, <2>3, <2>4, <2>5, <2>6, <2>7, <2>8, <2>9 DEF Next
<1>3. QED
  BY <1>1, <1>2, TypeCorrect, PTL DEF Spec

\* No entry is lost, whatever fails and whenever the process restarts.
THEOREM LogsAreKept == Spec => []NoLogLost
  BY InductiveInvariant, PTL DEF IInv

\* No entry has two documents in the archive.
THEOREM LogsArchivedOnce == Spec => []ArchivedOnce
  BY InductiveInvariant, PTL DEF IInv

\* The flag keeps the startup and the scheduled invocation apart.
THEOREM RunsExcludeEachOther == Spec => []OneRunAtATime
  BY InductiveInvariant, PTL DEF IInv

-----------------------------------------------------------------------------
\* Deleting part of a batch moves that part, in the abstract.
LEMMA DeletionMoves ==
  ASSUME IInv, NEW r \in Runs, NEW done \in SUBSET batch[r],
         logs' = logs \ done, UNCHANGED <<written, old>>
  PROVE  \E moved \in SUBSET (old \cap Movable) : Move!MoveBatch(moved)
<1>1. done \subseteq old \cap Movable \cap written
  BY DEF IInv, BatchKnown
<1>2. \A l \in done : l \in Logs /\ PlaceOf(l) \in {"logs", "archive"}
  BY <1>1 DEF PlaceOf, IInv, TypeOK
<1>3. \A l \in Logs : PlaceOf(l)' = IF l \in done THEN "archive" ELSE PlaceOf(l)
  BY <1>1 DEF PlaceOf
<1>4. Move!MoveBatch(done)
  BY <1>2, <1>3 DEF Move!MoveBatch
<1>5. QED
  BY <1>1, <1>4

\* Every step of the archiver is an atomic move, a write, the passing of time,
\* or invisible.
LEMMA StepImplementsMove ==
  ASSUME IInv, [Next]_vars
  PROVE  [Move!MoveNext]_(Move!moveVars)
<1> USE DEF Move!MoveNext, Move!moveVars
<1>1. ASSUME NEW l \in Logs, Write(l) PROVE Move!MoveWrite(l)
  <2>1. PlaceOf(l) = "unwritten" /\ PlaceOf(l)' = "logs"
    BY <1>1 DEF Write, PlaceOf
  <2>2. \A k \in Logs : k # l => PlaceOf(k)' = PlaceOf(k)
    BY <1>1 DEF Write, PlaceOf
  <2>3. QED
    BY <1>1, <2>1, <2>2 DEF Write, Move!MoveWrite
<1>2. ASSUME NEW l \in Logs, Age(l) PROVE Move!MoveAge(l)
  BY <1>2 DEF Age, Move!MoveAge, PlaceOf
<1>3. ASSUME UNCHANGED <<logs, written, old>>
      PROVE  UNCHANGED Move!moveVars
  BY <1>3 DEF PlaceOf
<1>4. ASSUME NEW r \in Runs, DeleteMany(r)
      PROVE  [Move!MoveNext]_(Move!moveVars)
  <2>1. \E moved \in SUBSET (old \cap Movable) : Move!MoveBatch(moved)
    BY <1>4, DeletionMoves DEF DeleteMany
  <2>2. QED
    BY <2>1
<1>5. ASSUME NEW r \in Runs, Fail(r)
      PROVE  [Move!MoveNext]_(Move!moveVars)
  <2>1. CASE UNCHANGED logs
    BY <1>3, <1>5, <2>1 DEF Fail
  <2>2. CASE \E done \in SUBSET batch[r] : logs' = logs \ done
    <3>1. \E moved \in SUBSET (old \cap Movable) : Move!MoveBatch(moved)
      BY <1>5, <2>2, DeletionMoves DEF Fail
    <3>2. QED
      BY <3>1
  <2>3. QED
    BY <1>5, <2>1, <2>2 DEF Fail
<1>6. ASSUME NEW r \in Runs, Begin(r) \/ Find(r) \/ BulkWrite(r)
      PROVE  UNCHANGED Move!moveVars
  BY <1>3, <1>6 DEF Begin, Find, BulkWrite
<1>7. CASE Restart
  BY <1>3, <1>7 DEF Restart
<1>8. CASE UNCHANGED vars
  BY <1>3, <1>8 DEF vars
<1>9. CASE Next
  <2>1. CASE \E l \in Logs : Write(l) \/ Age(l)
    BY <1>1, <1>2, <2>1
  <2>2. CASE \E r \in Runs : Begin(r) \/ Find(r) \/ BulkWrite(r) \/ DeleteMany(r) \/ Fail(r)
    BY <1>4, <1>5, <1>6, <2>2
  <2>3. QED
    BY <1>7, <1>9, <2>1, <2>2 DEF Next
<1>10. QED
  BY <1>8, <1>9

\* Copying and deleting in batches implements the atomic move of LogMove: only
\* old info entries leave the logs, and an entry that left does not come back.
THEOREM ArchiveImplementsMove == Spec => ImplementsMove
<1>1. Init => Move!MoveInit
  BY DEF Init, Move!MoveInit, PlaceOf
<1>2. IInv /\ [Next]_vars => [Move!MoveNext]_(Move!moveVars)
  BY StepImplementsMove
<1>3. QED
  BY <1>1, <1>2, InductiveInvariant, PTL DEF Spec, ImplementsMove, Move!MoveSpec

-----------------------------------------------------------------------------
(* The process.                                                            *)
LEMMA ProcessStepIsServiceStep ==
  ASSUME [ProcessNext]_<<vars, timerVars>>
  PROVE  [Next]_vars /\ [TimersNext]_timerVars
<1>1. CASE ArchiveStep
  BY <1>1 DEF ArchiveStep, Next
<1>2. CASE ExpiryStep
  BY <1>2 DEF ExpiryStep, TimersNext
<1>3. CASE ProcessRestart
  BY <1>3 DEF ProcessRestart, Next, TimersNext
<1>4. CASE UNCHANGED <<vars, timerVars>>
  BY <1>4
<1>5. QED
  BY <1>1, <1>2, <1>3, <1>4 DEF ProcessNext

\* The process implements both services (log-archive.service.ts and
\* token-expiry.service.ts), whatever the other one is doing and however often the
\* process restarts.
THEOREM ProcessImplementsServices == ProcessSpec => Spec /\ TimersSpec
<1>1. ProcessInit => Init /\ TimersInit
  BY DEF ProcessInit
<1>2. [ProcessNext]_<<vars, timerVars>> => [Next]_vars /\ [TimersNext]_timerVars
  BY ProcessStepIsServiceStep
<1>3. QED
  BY <1>1, <1>2, PTL DEF ProcessSpec, Spec, TimersSpec

\* The state of both services has its type in the process that runs them.
THEOREM ProcessTypeCorrect == ProcessSpec => []ProcessTypeOK
BY ProcessImplementsServices, TypeCorrect, TimersTypeCorrect, PTL DEF ProcessTypeOK

\* No restart of the process makes it lose a log entry, archive one twice, or leave a
\* timer armed that its maps do not hold.
THEOREM ProcessKeepsLogsAndTimers ==
  ProcessSpec => []NoLogLost /\ []ArchivedOnce /\ []TimersMatchHandles
BY ProcessImplementsServices, LogsAreKept, LogsArchivedOnce, NoTimerEscapes, PTL

\* The abstract specifications of both services hold of the process.
THEOREM ProcessImplementsAbstractions ==
  ProcessSpec => ImplementsMove /\ ImplementsStages
BY ProcessImplementsServices, ArchiveImplementsMove, TimersImplementStages, PTL
=============================================================================
