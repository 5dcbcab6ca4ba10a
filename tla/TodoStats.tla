------------------------------ MODULE TodoStats ------------------------------
(***************************************************************************)
(* The statistics of TodosService (todos/todos.service.ts).                *)
(* getLast14DaysStats notes the time and then awaits three aggregates, one *)
(* for each series; AdminService.getApplicationDetails awaits four counts. *)
(* Todos change between the awaits.  A moment is an instant of the         *)
(* server's clock, DayLength of them make a UTC day.  The server dates a   *)
(* write before the database makes it, and an update reads the todo before *)
(* that: updates of one todo may overtake each other.  What an update does *)
(* besides is the subject of TodoEvents.  The calls only read, so one at a *)
(* time is enough.                                                         *)
(***************************************************************************)
EXTENDS Integers, FiniteSets

CONSTANTS
    Todos,
    Updates,        \* PATCH requests under way at once
    NoTodo,
    DayLength,
    LastMoment,     \* bound: the clock stops here
    Window,         \* days in a series (14)
    SpringForward   \* UTC days on which the server's local time skips an hour

ASSUME CalendarAssumption ==
    /\ DayLength \in Nat \ {0} /\ LastMoment \in Nat /\ Window \in Nat \ {0}
    /\ SpringForward \subseteq Nat

ASSUME TodosAssumption == IsFiniteSet(Todos) /\ NoTodo \notin Todos

Never == -1

VARIABLES
    todos,      \* the collection
    now,
    update,     \* the PATCH requests under way, between their two awaits
    stats,      \* the call under way or last answered, and what it has found
    removed,    \* ghost: when each todo was deleted, or Never
    touched,    \* ghost: todos written to after they were deleted
    since,      \* ghost: todos written to since the call began
    odd         \* ghost: todos created as completed, or that two updates worked on at once

statsVars == <<todos, now, update, stats, removed, touched, since, odd>>

Moments == 0..LastMoment
TodoDoc == [exists: BOOLEAN, completed: BOOLEAN, deleted: BOOLEAN,
         createdAt: Moments, updatedAt: Moments, completedAt: Moments \cup {Never}]
Unborn == [exists |-> FALSE, completed |-> FALSE, deleted |-> FALSE,
           createdAt |-> 0, updatedAt |-> 0, completedAt |-> Never]

\* The clients send "completed" or a title; "open" is the todo as update has read it, if
\* that matters to it, "at" the date of its payload.
Wishes == {"complete", "reopen", "title"}
Update == [todo: Todos \cup {NoTodo}, wish: Wishes, open: BOOLEAN, at: Moments]
NoUpdate == [todo |-> NoTodo, wish |-> "title", open |-> TRUE, at |-> 0]

\* The awaits of the two calls, in order; "got" holds what each has found, "today" when
\* the call began.
Series == {"created", "completed", "deleted"}
Totals == {"total", "totalCompleted", "totalActive", "totalDeleted"}
NoStats == [pc |-> "idle", today |-> 0, got |-> [s \in {} |-> {}]]
After == [created |-> "completed", completed |-> "deleted", deleted |-> "stats",
          total |-> "totalCompleted", totalCompleted |-> "totalActive",
          totalActive |-> "totalDeleted", totalDeleted |-> "details"]

UnderWay == stats.pc \in Series \cup Totals
\* The answer has gone as soon as something else happens.
Elapses(written) ==
    /\ stats' = IF UnderWay THEN stats ELSE NoStats
    /\ since' = IF UnderWay THEN since \cup written ELSE {}

Existing == {t \in Todos : todos[t].exists}
Day(moment) == moment \div DayLength

StatsTypeOK ==
    /\ todos \in [Todos -> TodoDoc] /\ now \in Moments
    /\ update \in [Updates -> Update]
    /\ stats.pc \in {"idle", "stats", "details"} \cup Series \cup Totals
    /\ stats.today <= now
    /\ DOMAIN stats.got \subseteq Series \/ DOMAIN stats.got \subseteq Totals
    /\ removed \in [Todos -> Moments \cup {Never}]
    /\ touched \subseteq Todos /\ since \subseteq Todos /\ odd \subseteq Todos

StatsInit ==
    /\ todos = [t \in Todos |-> Unborn]
    /\ now = 0
    /\ update = [u \in Updates |-> NoUpdate]
    /\ stats = NoStats
    /\ removed = [t \in Todos |-> Never] /\ touched = {}
    /\ since = {} /\ odd = {}

-----------------------------------------------------------------------------
(* The days of a series, and what an aggregate groups by them.             *)
StartDay(today) == Day(today) - (Window - 1)
\* A date that is null matches no window.  Mutant: the upper end is left out of the match.
MatchesOpenEnd(moment, today) == moment # Never /\ StartDay(today) <= Day(moment)

Matches(moment, today) ==
    moment # Never /\ StartDay(today) <= Day(moment) /\ moment <= today

Stamp(series, t) ==
    CASE series = "created" -> todos[t].createdAt
      [] series = "completed" -> todos[t].completedAt
      [] series = "deleted" -> todos[t].updatedAt

Selects(series, t) ==
    /\ todos[t].exists
    /\ series = "completed" => todos[t].completed
    /\ series = "deleted" => todos[t].deleted

Aggregate(series, today) ==
    LET found == {t \in Todos : Selects(series, t) /\ Matches(Stamp(series, t), today)}
    IN  [d \in {Day(Stamp(series, t)) : t \in found} |->
            Cardinality({t \in found : Day(Stamp(series, t)) = d})]

(* The loop steps through the days in local time: after the clock went     *)
(* forward a step lands an hour before midnight UTC, on the day before.    *)
Key(start, i) ==
    IF \E d \in SpringForward : start <= d /\ d < start + i THEN start + i - 1 ELSE start + i
Keys(today) == {Key(StartDay(today), i) : i \in 0..(Window - 1)}

Buckets(found, today) ==
    [d \in Keys(today) \cup DOMAIN found |-> IF d \in DOMAIN found THEN found[d] ELSE 0]

-----------------------------------------------------------------------------
(* Todos are written by their users.                                       *)
Writes(t, todo) ==
    /\ todos' = [todos EXCEPT ![t] = todo]
    /\ touched' = IF todos[t].deleted THEN touched \cup {t} ELSE touched
    /\ Elapses({t})
    /\ UNCHANGED now

\* The body may create a todo that is completed or deleted already.
CreateTodo(t, completed, deleted) ==
    /\ ~todos[t].exists
    /\ Writes(t, [Unborn EXCEPT !.exists = TRUE, !.completed = completed, !.deleted = deleted,
                                !.createdAt = now, !.updatedAt = now])
    /\ removed' = [removed EXCEPT ![t] = IF deleted THEN now ELSE Never]
    /\ odd' = IF completed THEN odd \cup {t} ELSE odd
    /\ UNCHANGED update

\* Bound: updates under way at once began in one moment, and are made before the next
\* is over.
NoneOld == \A u \in Updates : update[u].todo # NoTodo => update[u].at = now

(* update reads the todo and makes the payload of its write.               *)
UpdateFind(u, t, wish) ==
    /\ update[u].todo = NoTodo /\ NoneOld
    /\ todos[t].exists
    /\ update' = [update EXCEPT ![u] = [todo |-> t, wish |-> wish,
                                        open |-> wish = "title" \/ ~todos[t].completed,
                                        at |-> now]]
    /\ odd' = IF \E v \in Updates : update[v].todo = t THEN odd \cup {t} ELSE odd
    /\ Elapses({})
    /\ UNCHANGED <<todos, now, removed, touched>>

Dated(r, completedAt) ==
    IF r.wish = "complete" /\ r.open THEN r.at
    ELSE IF r.wish = "reopen" /\ ~r.open THEN Never ELSE completedAt

UpdateWrite(u) ==
    LET r == update[u]
    IN  /\ r.todo # NoTodo
        /\ Writes(r.todo, [todos[r.todo] EXCEPT
                !.completed = IF r.wish = "title" THEN @ ELSE r.wish = "complete",
                !.completedAt = Dated(r, @), !.updatedAt = r.at])
        /\ update' = [update EXCEPT ![u] = NoUpdate]
        /\ UNCHANGED <<removed, odd>>

\* A call of update rejects, or the server restarts.
UpdateFails(u) ==
    /\ update[u].todo # NoTodo
    /\ update' = [update EXCEPT ![u] = NoUpdate]
    /\ Elapses({})
    /\ UNCHANGED <<todos, now, removed, touched, odd>>

\* A todo that is deleted already can be deleted again.
DeleteTodo(t) ==
    /\ todos[t].exists
    /\ Writes(t, [todos[t] EXCEPT !.deleted = TRUE, !.updatedAt = now])
    /\ removed' = IF todos[t].deleted THEN removed ELSE [removed EXCEPT ![t] = now]
    /\ UNCHANGED <<update, odd>>

ClockAdvances ==
    /\ now < LastMoment
    /\ NoneOld
    /\ now' = now + 1
    /\ Elapses({})
    /\ UNCHANGED <<todos, update, removed, touched, odd>>

-----------------------------------------------------------------------------
(* GET /todos/stats/last-14-days, and the counts of GET /admin/details.    *)
Count(which) ==
    Cardinality({t \in Existing :
        CASE which = "total" -> TRUE
          [] which = "totalCompleted" -> todos[t].completed /\ ~todos[t].deleted
          [] which = "totalActive" -> ~todos[t].completed /\ ~todos[t].deleted
          [] which = "totalDeleted" -> todos[t].deleted})

BeginCall(first) ==
    /\ ~UnderWay
    /\ stats' = [NoStats EXCEPT !.pc = first, !.today = now]
    /\ since' = {}
    /\ UNCHANGED <<todos, now, update, removed, touched, odd>>

BeginStats == BeginCall("created")
BeginDetails == BeginCall("total")

Found(pc) == IF pc \in Series THEN Buckets(Aggregate(pc, stats.today), stats.today) ELSE Count(pc)

Awaited ==
    /\ UnderWay
    /\ stats' = [stats EXCEPT !.pc = After[@],
                              !.got = [s \in DOMAIN @ \cup {stats.pc} |->
                                          IF s = stats.pc THEN Found(s) ELSE @[s]]]
    /\ UNCHANGED <<todos, now, update, removed, touched, since, odd>>

AwaitFails ==
    /\ UnderWay
    /\ stats' = NoStats
    /\ UNCHANGED <<todos, now, update, removed, touched, since, odd>>

StatsNext ==
    \/ \E t \in Todos :
        \/ \E completed, deleted \in BOOLEAN : CreateTodo(t, completed, deleted)
        \/ DeleteTodo(t)
    \/ \E u \in Updates :
        \/ \E t \in Todos, wish \in Wishes : UpdateFind(u, t, wish)
        \/ UpdateWrite(u) \/ UpdateFails(u)
    \/ ClockAdvances
    \/ BeginStats \/ BeginDetails \/ Awaited \/ AwaitFails

StatsSpec == StatsInit /\ [][StatsNext]_statsVars

-----------------------------------------------------------------------------
(* The answer shows each series as it was when the call began, although    *)
(* the aggregates run one after the other and todos are written meanwhile: *)
(* whatever is not written to while the call is under way is counted on    *)
(* the day it was created; on the day it was completed, if it still is; on *)
(* the day it was deleted, unless something wrote to it afterwards         *)
(* (todos.service.ts:217-346).  A todo written to meanwhile may be missing *)
(* from a series, but none is counted that is dated after the call began.  *)
Shown(series, d) ==
    IF d \in DOMAIN stats.got[series] THEN stats.got[series][d] ELSE 0

On(d, stamp) == stamp # Never /\ Day(stamp) = d
Must(series, d) == {t \in Existing \ since :
    CASE series = "created" -> On(d, todos[t].createdAt)
      [] series = "completed" -> todos[t].completed /\ On(d, todos[t].completedAt)
      [] series = "deleted" -> t \notin touched /\ On(d, removed[t])}

UpTo(d, stamp) == On(d, stamp) /\ stamp <= stats.today
May(series, d) == {t \in Existing :
    CASE series = "created" -> UpTo(d, todos[t].createdAt)
      [] series = "completed" -> t \in since \/ UpTo(d, todos[t].completedAt)
      [] series = "deleted" -> t \in touched \/ UpTo(d, removed[t])}

SeriesExact ==
    stats.pc = "stats" =>
        \A series \in Series, d \in StartDay(stats.today)..Day(stats.today) :
            /\ Cardinality(Must(series, d)) <= Shown(series, d)
            /\ Shown(series, d) <= Cardinality(May(series, d))

\* No bucket lies outside the days of the window.
SeriesInWindow ==
    stats.pc = "stats" => \A s \in Series :
        DOMAIN stats.got[s] \subseteq StartDay(stats.today)..Day(stats.today)

(* The dashboard draws the values of the three series in their order over  *)
(* the days of the first (DashBoard.tsx:50-77), which is right if they     *)
(* have the same days; local time must not skip an hour in the window.     *)
SeriesAligned ==
    stats.pc = "stats" /\ SpringForward \cap StartDay(stats.today)..(Day(stats.today) - 1) = {} =>
        \A s \in Series :
            DOMAIN stats.got[s] = StartDay(stats.today)..Day(stats.today)

(* The totals of the dashboard add up unless a todo changed while they     *)
(* were counted (admin.service.ts:297-300).                                *)
TotalsAddUp ==
    stats.pc = "details" /\ since = {} =>
        stats.got["total"] = stats.got["totalCompleted"] + stats.got["totalActive"]
                             + stats.got["totalDeleted"]

(* A todo has the date of its completion while it is completed, however    *)
(* often it is completed and reopened: only one that was created as        *)
(* completed, or that two updates worked on at once, may lack the date or  *)
(* keep an old one (todos.service.ts:78-81, 99-132).                       *)
CompletionsDated ==
    \A t \in Existing \ odd : todos[t].completed <=> todos[t].completedAt # Never

StatsTruthful == SeriesExact /\ SeriesInWindow /\ SeriesAligned /\ TotalsAddUp /\ CompletionsDated
=============================================================================
