----------------------------- MODULE Automation -----------------------------
(***************************************************************************)
(* AutomationService.handleTodoCompleted (automation/automation.service.ts)*)
(* for one user: the completion count and the streak of consecutive UTC    *)
(* days.  A handler reads the statistics, computes the streak and writes   *)
(* it back; handlers of several events interleave at the two awaits.       *)
(* TodoEvents composes this module with the todos and the event bus.       *)
(***************************************************************************)
EXTENDS Naturals, FiniteSets, FiniteSetsExt

CONSTANTS
    Handlers,   \* handler invocations in flight at once
    MaxDay,     \* bound: the last day of the model's calendar
    MaxEvents   \* bound: no more events once this many have been emitted

ASSUME BoundsAssumption == MaxDay \in Nat \ {0} /\ MaxEvents \in Nat

VARIABLES
    stats,      \* the user's document in userautomationstats
    handler,    \* the event each handler invocation works on, and its snapshot
    heeded,     \* ghost: the days that were not older than the last one known
    raced       \* ghost: two invocations have been in flight at once

autoVars == <<stats, handler, heeded, raced>>

NoDay == 0      \* null
Days == 1..MaxDay
StatsType == [completedTodoEvents: Nat, lastCompletedTodoAt: 0..MaxDay,
              currentStreakDays: Nat, bestStreakDays: Nat,
              lastCompletionDay: 0..MaxDay]
NoStats == [completedTodoEvents |-> 0, lastCompletedTodoAt |-> NoDay,
            currentStreakDays |-> 0, bestStreakDays |-> 0,
            lastCompletionDay |-> NoDay]
IdleHandler == [pc |-> "idle", day |-> NoDay, existing |-> NoStats]

AutoTypeOK ==
    /\ stats \in StatsType
    /\ handler \in [Handlers -> [pc: {"idle", "find", "write"}, day: 0..MaxDay,
                                 existing: StatsType]]
    /\ \A h \in Handlers : handler[h].pc # "idle" => handler[h].day \in Days
    /\ heeded \subseteq Days
    /\ raced \in BOOLEAN

AutoInit ==
    /\ stats = NoStats
    /\ handler = [h \in Handlers |-> IdleHandler]
    /\ heeded = {}
    /\ raced = FALSE

BusyHandlers == {h \in Handlers : handler[h].pc # "idle"}

-----------------------------------------------------------------------------
IsNextUtcDay(previousDay, day) == day = previousDay + 1

\* Mutants: plausible slips in NextStreak.
RestartStreakEachDay(existing, day) ==
    IF existing.lastCompletionDay = NoDay \/ day > existing.lastCompletionDay
    THEN 1 ELSE existing.currentStreakDays

CountEveryEvent(existing, day) ==
    IF day >= existing.lastCompletionDay /\ day <= existing.lastCompletionDay + 1
    THEN existing.currentStreakDays + 1 ELSE existing.currentStreakDays

(* The streak after an event of the given day, from the statistics read.   *)
NextStreak(existing, day) ==
    CASE existing.lastCompletionDay = NoDay -> 1
      [] existing.lastCompletionDay # NoDay
            /\ IsNextUtcDay(existing.lastCompletionDay, day) ->
                Max({existing.currentStreakDays, 1}) + 1
      [] existing.lastCompletionDay # NoDay
            /\ day > existing.lastCompletionDay + 1 -> 1
      [] OTHER -> existing.currentStreakDays

(* The updateOne: the count is incremented by the database, the rest is    *)
(* set to what was computed from the snapshot.                             *)
UpdatedStats(existing, day) ==
    LET streak == NextStreak(existing, day) IN
    [completedTodoEvents |-> stats.completedTodoEvents + 1,
     lastCompletedTodoAt |-> Max({existing.lastCompletedTodoAt, day}),
     currentStreakDays |-> streak,
     bestStreakDays |-> Max({existing.bestStreakDays, streak}),
     lastCompletionDay |-> Max({existing.lastCompletionDay, day})]

-----------------------------------------------------------------------------
\* Mutant: the day before, as a local time west of UTC would give.
StartHandlerDayBefore(h, day) ==
    /\ handler[h].pc = "idle"
    /\ handler' = [handler EXCEPT ![h] = [pc |-> "find", day |-> day - 1, existing |-> NoStats]]
    /\ raced' = (raced \/ BusyHandlers # {})
    /\ UNCHANGED <<stats, heeded>>

StartHandler(h, day) ==
    /\ handler[h].pc = "idle"
    /\ handler' = [handler EXCEPT ![h] = [pc |-> "find", day |-> day, existing |-> NoStats]]
    /\ raced' = (raced \/ BusyHandlers # {})
    /\ UNCHANGED <<stats, heeded>>

FindStats(h) ==
    /\ handler[h].pc = "find"
    /\ handler' = [handler EXCEPT ![h].pc = "write", ![h].existing = stats]
    /\ UNCHANGED <<stats, heeded, raced>>

\* Mutant: the count is set from the snapshot instead of incremented.
UpdateStatsFromSnapshot(h) ==
    /\ handler[h].pc = "write"
    /\ stats' = [UpdatedStats(handler[h].existing, handler[h].day) EXCEPT
                    !.completedTodoEvents = handler[h].existing.completedTodoEvents + 1]
    /\ handler' = [handler EXCEPT ![h] = IdleHandler]
    /\ UNCHANGED <<heeded, raced>>

UpdateStats(h) ==
    /\ handler[h].pc = "write"
    /\ stats' = UpdatedStats(handler[h].existing, handler[h].day)
    /\ heeded' = IF handler[h].day >= handler[h].existing.lastCompletionDay
                 THEN heeded \cup {handler[h].day} ELSE heeded
    /\ handler' = [handler EXCEPT ![h] = IdleHandler]
    /\ UNCHANGED raced

(* A database call rejects: the event bus logs the error, the event is gone. *)
DropEvent(h) ==
    /\ handler[h].pc # "idle"
    /\ handler' = [handler EXCEPT ![h] = IdleHandler]
    /\ UNCHANGED <<stats, heeded, raced>>

\* Any subscriber of the bus sees events of any day, in any order.
Arrive(h, day) ==
    /\ stats.completedTodoEvents + Cardinality(BusyHandlers) < MaxEvents
    /\ StartHandler(h, day)

AutoNext == \E h \in Handlers :
    \/ \E day \in Days : Arrive(h, day)
    \/ FindStats(h)
    \/ UpdateStats(h)
    \/ DropEvent(h)

AutoSpec == AutoInit /\ [][AutoNext]_autoVars

-----------------------------------------------------------------------------
\* The length of the run of consecutive days of a set that ends on a day.
RunEndingOn(days, day) ==
    Max({n \in 0..day : \A d \in (day - n + 1)..day : d \in days})

(* As long as events were handled one at a time, the streak kept step by   *)
(* step is the run of consecutive days that ends on the last day, and the  *)
(* best streak the longest run of all; days older than the last one known  *)
(* at their time do not count (automation.service.ts:80-99).               *)
StreakIsExact ==
    ~raced /\ heeded # {} =>
        /\ stats.lastCompletionDay = Max(heeded)
        /\ stats.currentStreakDays = RunEndingOn(heeded, Max(heeded))
        /\ stats.bestStreakDays = Max({RunEndingOn(heeded, d) : d \in heeded})

(* Handlers that race may lose days, but never invent one: the streak and  *)
(* the best streak are at most what the handled days justify, and the best *)
(* streak is never below the current one.                                  *)
StreakNeverOverstated ==
    heeded # {} =>
        /\ stats.currentStreakDays <= RunEndingOn(heeded, stats.lastCompletionDay)
        /\ stats.bestStreakDays <= Max({RunEndingOn(heeded, d) : d \in heeded})
        /\ stats.currentStreakDays <= stats.bestStreakDays

(* An event of an older day leaves the last completion day and the streak  *)
(* alone (automation.service.spec.ts:142, "ignores older out-of-order      *)
(* completion day for streak state").                                      *)
OlderDayIgnored == [][stats'.lastCompletionDay >= stats.lastCompletionDay]_autoVars
=============================================================================
