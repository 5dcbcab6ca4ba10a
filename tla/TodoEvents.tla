----------------------------- MODULE TodoEvents -----------------------------
(***************************************************************************)
(* TodosService.create and update (todos/todos.service.ts), the event bus  *)
(* (events/app-event-bus.service.ts) and the automation handler, for the   *)
(* todos of one user.  update reads the todo, decides from that snapshot   *)
(* whether the completion is new, writes, and emits; requests interleave   *)
(* at each of its awaits, and a restart forgets every event in flight.     *)
(***************************************************************************)
EXTENDS Automation, Sequences

CONSTANTS
    Todos,
    Workers,    \* update requests in flight at once
    None

ASSUME NoneAssumption == None \notin Todos

VARIABLES
    todos,      \* the documents
    request,    \* the update each worker serves
    queue,      \* days of the events behind setImmediate, oldest first
    today,
    emitted,    \* ghost: events emitted for each todo
    events,     \* ghost: events emitted in all
    lost,       \* ghost: emitted events that a failure or a restart dropped
    overlapped  \* ghost: todos that two updates worked on at once

vars == <<todos, request, queue, today, emitted, events, lost, overlapped, autoVars>>

Todo == [exists: BOOLEAN, completed: BOOLEAN, completedAt: 0..MaxDay,
         completionEventCounted: BOOLEAN]
NoTodo == [exists |-> FALSE, completed |-> FALSE, completedAt |-> NoDay,
           completionEventCounted |-> FALSE]

\* What the body of a PATCH may ask for: "other" leaves completed alone.
Wishes == {"complete", "reopen", "other"}

\* "completed" and "counted" are what findOne returned, "day" is the completedAt
\* that findOneAndUpdate returned.
Request == [pc: {"idle", "write", "emit"}, todo: Todos \cup {None}, wish: Wishes,
            completed: BOOLEAN, counted: BOOLEAN, day: 0..MaxDay]
IdleRequest == [pc |-> "idle", todo |-> None, wish |-> "other",
                completed |-> FALSE, counted |-> FALSE, day |-> NoDay]

RequestsOK ==
    /\ todos \in [Todos -> Todo]
    /\ request \in [Workers -> Request]
    /\ emitted \in [Todos -> Nat]
    /\ overlapped \subseteq Todos
    /\ today \in Days
    /\ \A w \in Workers :
        /\ request[w].pc = "idle" <=> request[w].todo = None
        /\ request[w].todo # None => todos[request[w].todo].exists
    /\ \A t \in Todos : todos[t].completionEventCounted => todos[t].exists

TypeOK ==
    /\ RequestsOK
    /\ queue \in Seq(Days)
    /\ events \in Nat /\ lost \in Nat
    /\ AutoTypeOK

Init ==
    /\ todos = [t \in Todos |-> NoTodo]
    /\ request = [w \in Workers |-> IdleRequest]
    /\ queue = <<>>
    /\ today = 1
    /\ emitted = [t \in Todos |-> 0]
    /\ events = 0
    /\ lost = 0
    /\ overlapped = {}
    /\ AutoInit

-----------------------------------------------------------------------------
(* The decisions of update: the payload comes from the snapshot, and the   *)
(* completion is new if the snapshot says so and the todo is completed now.*)
Completes(r) == r.wish = "complete" /\ ~r.completed
Reopens(r) == r.wish = "reopen" /\ r.completed

Payload(r, todo) ==
    [exists |-> todo.exists,
     completed |-> IF r.wish = "other" THEN todo.completed ELSE r.wish = "complete",
     completedAt |-> IF Completes(r) THEN today
                     ELSE IF Reopens(r) THEN NoDay ELSE todo.completedAt,
     completionEventCounted |-> todo.completionEventCounted \/ (Completes(r) /\ ~r.counted)]

\* Mutant: a todo counted before counts again.
IgnoresCounted(r, updated) == ~r.completed /\ updated.completed

-----------------------------------------------------------------------------
IsNewCompletion(r, updated) == ~r.completed /\ updated.completed /\ ~r.counted

(* create: the body may create a todo that is completed already.           *)
Create(t, completed) ==
    /\ ~todos[t].exists
    /\ todos' = [todos EXCEPT ![t] = [NoTodo EXCEPT !.exists = TRUE, !.completed = completed]]
    /\ UNCHANGED <<request, queue, today, emitted, events, lost, overlapped, autoVars>>

(* update, up to its first await's answer. *)
UpdateFind(w, t, wish) ==
    /\ events < MaxEvents
    /\ request[w].pc = "idle"
    /\ todos[t].exists
    /\ request' = [request EXCEPT ![w] =
            [pc |-> "write", todo |-> t, wish |-> wish, completed |-> todos[t].completed,
             counted |-> todos[t].completionEventCounted, day |-> NoDay]]
    /\ overlapped' =
        IF \E v \in Workers : request[v].todo = t THEN overlapped \cup {t} ELSE overlapped
    /\ UNCHANGED <<todos, queue, today, emitted, events, lost, autoVars>>

(* findOneAndUpdate sets the payload whatever the todo is by now; without  *)
(* a new completion nothing is left to do but to answer.                   *)
UpdateWrite(w) ==
    LET r == request[w]
        updated == Payload(r, todos[r.todo])
    IN
    /\ r.pc = "write"
    /\ todos' = [todos EXCEPT ![r.todo] = updated]
    /\ request' = [request EXCEPT ![w] =
            IF IsNewCompletion(r, updated)
            THEN [r EXCEPT !.pc = "emit", !.day = updated.completedAt]
            ELSE IdleRequest]
    /\ UNCHANGED <<queue, today, emitted, events, lost, overlapped, autoVars>>

\* Mutant: the event carries the completion date of a todo created as completed.
EmitWithoutDay(w) ==
    LET r == request[w] IN
    /\ r.pc = "emit"
    /\ queue' = Append(queue, r.day)
    /\ emitted' = [emitted EXCEPT ![r.todo] = @ + 1] /\ events' = events + 1
    /\ request' = [request EXCEPT ![w] = IdleRequest]
    /\ UNCHANGED <<todos, today, lost, overlapped, autoVars>>

(* The answer of the write arrives: a new completion is queued behind      *)
(* setImmediate with the day it was completed on.                          *)
UpdateEmit(w) ==
    LET r == request[w] IN
    /\ r.pc = "emit"
    /\ queue' = Append(queue, IF r.day = NoDay THEN today ELSE r.day)
    /\ emitted' = [emitted EXCEPT ![r.todo] = @ + 1] /\ events' = events + 1
    /\ request' = [request EXCEPT ![w] = IdleRequest]
    /\ UNCHANGED <<todos, today, lost, overlapped, autoVars>>

(* A database call of update rejects, before or after its effect.          *)
UpdateFail(w) ==
    /\ request[w].pc # "idle"
    /\ request' = [request EXCEPT ![w] = IdleRequest]
    /\ UNCHANGED <<todos, queue, today, emitted, events, lost, overlapped, autoVars>>

(* The event loop runs the oldest setImmediate callback.                   *)
Dispatch(h) ==
    /\ queue # <<>>
    /\ StartHandler(h, Head(queue))
    /\ queue' = Tail(queue)
    /\ UNCHANGED <<todos, request, today, emitted, events, lost, overlapped>>

Handle(h) ==
    /\ FindStats(h) \/ UpdateStats(h)
    /\ UNCHANGED <<todos, request, queue, today, emitted, events, lost, overlapped>>

HandlerFails(h) ==
    /\ DropEvent(h)
    /\ lost' = lost + 1
    /\ UNCHANGED <<todos, request, queue, today, emitted, events, overlapped>>

Midnight ==
    /\ today < MaxDay
    /\ today' = today + 1
    /\ UNCHANGED <<todos, request, queue, emitted, events, lost, overlapped, autoVars>>

(* The process restarts: requests, queued events and handlers are gone.    *)
Restart ==
    /\ request' = [w \in Workers |-> IdleRequest]
    /\ queue' = <<>>
    /\ handler' = [h \in Handlers |-> IdleHandler]
    /\ lost' = lost + Len(queue) + Cardinality(BusyHandlers)
    /\ UNCHANGED <<todos, today, emitted, events, overlapped, stats, heeded, raced>>

Next ==
    \/ \E t \in Todos, completed \in BOOLEAN : Create(t, completed)
    \/ \E w \in Workers :
        \/ \E t \in Todos, wish \in Wishes : UpdateFind(w, t, wish)
        \/ UpdateWrite(w) \/ UpdateEmit(w) \/ UpdateFail(w)
    \/ \E h \in Handlers : Dispatch(h) \/ Handle(h) \/ HandlerFails(h)
    \/ Midnight
    \/ Restart

Spec == Init /\ [][Next]_vars

-----------------------------------------------------------------------------
(* Every emitted event is waiting, being handled, counted or known to have *)
(* been dropped by a failure: concurrent handlers never lose an increment  *)
(* nor count an event twice (automation.service.ts:107-110).               *)
EventsAccountedFor ==
    events = stats.completedTodoEvents + Len(queue) + Cardinality(BusyHandlers) + lost

(* A todo that no two updates worked on at once is counted at most once,   *)
(* over any number of completions and reopenings (todos.service.ts:110-138).*)
CountedAtMostOnce == \A t \in Todos \ overlapped : emitted[t] <= 1

\* What makes it inductive: one update at a time on such a todo, whose snapshot is
\* current until it writes, and whose event is the first of a todo marked as counted.
AloneOnTodo == \A w, v \in Workers :
    request[w].todo = request[v].todo /\ request[w].todo \in Todos \ overlapped => w = v

SnapshotCurrent == \A w \in Workers :
    LET r == request[w] IN
    r.pc = "write" /\ r.todo \notin overlapped =>
        /\ r.completed = todos[r.todo].completed
        /\ r.counted = todos[r.todo].completionEventCounted

EmitIsFirst == \A w \in Workers :
    LET r == request[w] IN
    r.pc = "emit" /\ r.todo \notin overlapped =>
        emitted[r.todo] = 0 /\ todos[r.todo].completionEventCounted

EmittedImpliesCounted == \A t \in Todos \ overlapped :
    emitted[t] > 0 => todos[t].completionEventCounted

CountIInv ==
    /\ RequestsOK
    /\ AloneOnTodo
    /\ SnapshotCurrent
    /\ EmitIsFirst
    /\ EmittedImpliesCounted
    /\ CountedAtMostOnce

(* Every todo is counted at most once, however its updates interleave      *)
(* (todos.service.spec.ts:215, "does not emit completion event when todo   *)
(* was already counted before").                                           *)
CountedOnceAlways == \A t \in Todos : emitted[t] <= 1
=============================================================================
