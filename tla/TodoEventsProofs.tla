-------------------------- MODULE TodoEventsProofs --------------------------
(***************************************************************************)
(* Proofs about TodoEvents, for any todos, workers, handlers and bounds: a *)
(* todo whose updates never overlap emits its completion event once, every *)
(* event is accounted for, and the automation's streaks are those of the   *)
(* calendar.                                                               *)
(***************************************************************************)
EXTENDS TodoEvents, FiniteSetTheorems, NaturalsInduction, WellFoundedInduction, TLAPS

\* A step that leaves the todos and their requests alone keeps the invariant.
LEMMA CountUnchanged ==
  ASSUME CountIInv, RequestsOK', UNCHANGED <<todos, request, emitted, overlapped>>
  PROVE  CountIInv'
BY DEF CountIInv, RequestsOK, AloneOnTodo, SnapshotCurrent, EmitIsFirst,
       EmittedImpliesCounted, CountedAtMostOnce

\* A worker at rest, and a todo that does not exist, are of their types.
LEMMA IdleIsRequest ==
  /\ IdleRequest \in Request
  /\ IdleRequest.pc = "idle" /\ IdleRequest.todo = None
  /\ NoTodo \in Todo /\ ~NoTodo.completionEventCounted /\ NoDay \in 0..MaxDay
<1>1. NoDay \in 0..MaxDay
  BY BoundsAssumption DEF NoDay
<1>2. QED
  BY <1>1 DEF IdleRequest, Request, Wishes, NoTodo, Todo

\* An event is new only for an update whose own payload marks the todo as counted,
\* when the snapshot it decides from is current.
LEMMA NewCompletionCounts ==
  ASSUME NEW r \in Request, NEW todo \in Todo, r.completed = todo.completed,
         IsNewCompletion(r, Payload(r, todo))
  PROVE  ~r.counted /\ Payload(r, todo).completionEventCounted
BY DEF Request, Todo, IsNewCompletion, Payload, Completes, Wishes

\* The payload of an update is a todo, and never unmarks one.
LEMMA PayloadIsTodo ==
  ASSUME NEW r \in Request, NEW todo \in Todo, today \in 0..MaxDay
  PROVE  /\ Payload(r, todo) \in Todo
         /\ Payload(r, todo).exists = todo.exists
         /\ todo.completionEventCounted => Payload(r, todo).completionEventCounted
<1> DEFINE p == Payload(r, todo)
<1>1. p = [exists |-> p.exists, completed |-> p.completed,
           completedAt |-> p.completedAt,
           completionEventCounted |-> p.completionEventCounted]
  BY DEF Payload
<1>2. p.exists = todo.exists /\ todo.exists \in BOOLEAN
  BY DEF Payload, Todo
<1>3. p.completed \in BOOLEAN
  <2>1. p.completed \in {todo.completed, r.wish = "complete"}
    BY DEF Payload
  <2>2. todo.completed \in BOOLEAN
    BY DEF Todo
  <2>3. QED
    BY <2>1, <2>2
<1>4. p.completedAt \in 0..MaxDay
  BY IdleIsRequest DEF Payload, Todo
<1>5. /\ p.completionEventCounted \in BOOLEAN
      /\ todo.completionEventCounted => p.completionEventCounted
  BY DEF Payload
<1> HIDE DEF p
<1>6. p \in Todo
  BY <1>1, <1>2, <1>3, <1>4, <1>5 DEF Todo
<1>7. QED
  BY <1>2, <1>5, <1>6 DEF p

\* Todos, requests and events keep their types (todos.service.ts).
THEOREM RequestsCorrect == Spec => []RequestsOK
<1>1. Init => RequestsOK
  BY BoundsAssumption, IdleIsRequest DEF Init, RequestsOK, Days
<1>2. RequestsOK /\ [Next]_vars => RequestsOK'
  <2> SUFFICES ASSUME RequestsOK, [Next]_vars PROVE RequestsOK'
    OBVIOUS
  <2> USE IdleIsRequest DEF RequestsOK
  <2>0. today \in 0..MaxDay
    BY DEF Days
  <2>1. ASSUME NEW t \in Todos, NEW completed \in BOOLEAN, Create(t, completed)
        PROVE  RequestsOK'
    <3>1. [NoTodo EXCEPT !.exists = TRUE, !.completed = completed] \in Todo
      BY DEF Todo
    <3>2. todos' \in [Todos -> Todo]
      BY <2>1, <3>1 DEF Create
    <3>3. \A u \in Todos : todos[u].exists => todos'[u].exists
      BY <2>1 DEF Create, NoTodo
    <3>4. ASSUME NEW w \in Workers, request[w].todo # None
          PROVE  todos'[request[w].todo].exists
      BY <3>3, <3>4 DEF Request
    <3>5. \A u \in Todos : todos'[u].completionEventCounted => todos'[u].exists
      BY <2>1, <3>1 DEF Create, NoTodo
    <3>6. QED
      BY <2>1, <3>2, <3>4, <3>5 DEF Create
  <2>2. ASSUME NEW w \in Workers, NEW t \in Todos, NEW wish \in Wishes,
               UpdateFind(w, t, wish)
        PROVE  RequestsOK'
    <3> DEFINE r == [pc |-> "write", todo |-> t, wish |-> wish,
                     completed |-> todos[t].completed,
                     counted |-> todos[t].completionEventCounted, day |-> NoDay]
    <3>1. r \in Request /\ r.todo = t /\ r.pc = "write"
      BY DEF Request, Todo
    <3>2. request' = [request EXCEPT ![w] = r]
      BY <2>2 DEF UpdateFind
    <3> HIDE DEF r
    <3>3. QED
      BY <2>2, <3>1, <3>2, NoneAssumption DEF UpdateFind
  <2>3. ASSUME NEW w \in Workers, UpdateWrite(w) PROVE RequestsOK'
    <3> DEFINE r == request[w]
               updated == Payload(r, todos[r.todo])
               waiting == [r EXCEPT !.pc = "emit", !.day = updated.completedAt]
    <3>1. r.pc = "write" /\ r \in Request /\ r.todo \in Todos /\ todos[r.todo] \in Todo
      BY <2>3 DEF UpdateWrite, Request
    <3>2. updated \in Todo /\ updated.exists = todos[r.todo].exists
      BY <3>1, <2>0, PayloadIsTodo
    <3>3. updated.completedAt \in 0..MaxDay
      BY <3>2 DEF Todo
    <3>4. todos' = [todos EXCEPT ![r.todo] = updated]
      BY <2>3 DEF UpdateWrite
    <3>5. request' \in {[request EXCEPT ![w] = IdleRequest], [request EXCEPT ![w] = waiting]}
      BY <2>3 DEF UpdateWrite
    <3>6. waiting \in Request /\ waiting.pc = "emit" /\ waiting.todo = r.todo
      BY <3>1, <3>3 DEF Request
    <3> HIDE DEF updated, waiting
    <3>7. /\ request' \in [Workers -> Request]
          /\ \A v \in Workers :
              /\ request'[v].pc = "idle" <=> request'[v].todo = None
              /\ request'[v].todo \in {None, request[v].todo}
      BY <3>1, <3>5, <3>6, NoneAssumption
    <3>8. /\ todos' \in [Todos -> Todo]
          /\ \A u \in Todos : todos'[u].exists = todos[u].exists
      BY <3>1, <3>2, <3>4
    <3>9. ASSUME NEW v \in Workers, request'[v].todo # None
          PROVE  todos'[request'[v].todo].exists
      BY <3>7, <3>8, <3>9 DEF Request
    <3>10. \A u \in Todos : todos'[u].completionEventCounted => todos'[u].exists
      BY <3>1, <3>2, <3>4 DEF Request
    <3>11. QED
      BY <2>3, <3>7, <3>8, <3>9, <3>10 DEF UpdateWrite
  <2>4. ASSUME NEW w \in Workers, UpdateEmit(w) \/ UpdateFail(w) PROVE RequestsOK'
    <3>1. request' = [request EXCEPT ![w] = IdleRequest]
      BY <2>4 DEF UpdateEmit, UpdateFail
    <3>2. emitted' \in [Todos -> Nat]
      BY <2>4 DEF UpdateEmit, UpdateFail
    <3>3. QED
      BY <2>4, <3>1, <3>2 DEF UpdateEmit, UpdateFail
  <2>5. CASE Restart
    BY <2>5 DEF Restart
  <2>6. CASE Midnight
    BY <2>6, BoundsAssumption DEF Midnight, Days
  <2>7. ASSUME NEW h \in Handlers, Dispatch(h) \/ Handle(h) \/ HandlerFails(h)
        PROVE  RequestsOK'
    BY <2>7 DEF Dispatch, Handle, HandlerFails
  <2>8. CASE UNCHANGED vars
    BY <2>8 DEF vars
  <2>9. QED
    BY <2>1, <2>2, <2>3, <2>4, <2>5, <2>6, <2>7, <2>8 DEF Next
<1>3. QED
  BY <1>1, <1>2, PTL DEF Spec

\* The inductive invariant: on a todo whose updates never overlapped, the snapshot of
\* the only update is current, and its event the first.
THEOREM InductiveInvariant == Spec => []CountIInv
<1>1. Init => CountIInv
  <2>1. Init => AloneOnTodo /\ SnapshotCurrent /\ EmitIsFirst
    BY NoneAssumption DEF Init, AloneOnTodo, SnapshotCurrent, EmitIsFirst, IdleRequest
  <2>2. Init => EmittedImpliesCounted /\ CountedAtMostOnce
    BY DEF Init, EmittedImpliesCounted, CountedAtMostOnce
  <2>3. Init => RequestsOK
    BY BoundsAssumption, IdleIsRequest DEF Init, RequestsOK, Days
  <2>4. QED
    BY <2>1, <2>2, <2>3 DEF CountIInv
<1>2. CountIInv /\ RequestsOK' /\ [Next]_vars => CountIInv'
  <2> SUFFICES ASSUME CountIInv, RequestsOK', [Next]_vars
               PROVE  CountIInv'
    OBVIOUS
  <2>0. today \in 0..MaxDay /\ RequestsOK
    BY DEF Days, CountIInv, RequestsOK
  <2>1. ASSUME NEW t \in Todos, NEW completed \in BOOLEAN, Create(t, completed)
        PROVE  CountIInv'
    <3>1. \A u \in Todos :
            /\ u # t => todos'[u] = todos[u]
            /\ u = t => ~todos[u].exists
            /\ todos'[u].completionEventCounted = todos[u].completionEventCounted
      BY <2>1, <2>0 DEF Create, RequestsOK, NoTodo, Todo
    <3>2. \A w \in Workers : request[w].todo # None => request[w].todo \in Todos \ {t}
      BY <3>1, <2>0 DEF RequestsOK, Request
    <3>3. SnapshotCurrent'
      BY <2>1, <2>0, <3>1, <3>2 DEF SnapshotCurrent, Create, CountIInv, RequestsOK
    <3>4. EmitIsFirst'
      BY <2>1, <2>0, <3>1, <3>2 DEF EmitIsFirst, Create, CountIInv, RequestsOK
    <3>5. QED
      BY <2>1, <3>1, <3>3, <3>4 DEF Create, CountIInv, AloneOnTodo,
         EmittedImpliesCounted, CountedAtMostOnce
  <2>2. ASSUME NEW w \in Workers, NEW t \in Todos, NEW wish \in Wishes,
               UpdateFind(w, t, wish)
        PROVE  CountIInv'
    <3>1. /\ request[w].pc = "idle" /\ request[w].todo = None
          /\ request'[w].todo = t /\ request'[w].pc = "write"
          /\ request'[w].completed = todos[t].completed
          /\ request'[w].counted = todos[t].completionEventCounted
          /\ \A v \in Workers : v # w => request'[v] = request[v]
          /\ UNCHANGED <<todos, emitted>>
      BY <2>2, <2>0 DEF UpdateFind, RequestsOK
    <3>2. /\ overlapped \subseteq overlapped'
          /\ \A v \in Workers : request[v].todo = t => t \in overlapped'
      BY <2>2 DEF UpdateFind
    <3>3. AloneOnTodo'
      BY <3>1, <3>2 DEF AloneOnTodo, CountIInv
    <3>4. SnapshotCurrent' /\ EmitIsFirst'
      BY <3>1, <3>2 DEF SnapshotCurrent, EmitIsFirst, CountIInv
    <3>5. EmittedImpliesCounted' /\ CountedAtMostOnce'
      BY <3>1, <3>2 DEF EmittedImpliesCounted, CountedAtMostOnce, CountIInv
    <3>6. QED
      BY <3>3, <3>4, <3>5 DEF CountIInv
  <2>3. ASSUME NEW w \in Workers, UpdateWrite(w)
        PROVE  CountIInv'
    <3> DEFINE r == request[w]
               t == r.todo
               updated == Payload(r, todos[t])
    <3>1. r.pc = "write" /\ r \in Request /\ t \in Todos /\ todos[t] \in Todo
      BY <2>3, <2>0 DEF UpdateWrite, RequestsOK, Request
    <3>2. /\ \A u \in Todos : u # t => todos'[u] = todos[u]
          /\ todos'[t] = updated
          /\ \A v \in Workers : v # w => request'[v] = request[v]
          /\ UNCHANGED <<emitted, overlapped>>
      BY <2>3, <2>0, <3>1 DEF UpdateWrite, RequestsOK
    <3>3. \/ request'[w].pc = "idle" /\ request'[w].todo = None
          \/ /\ IsNewCompletion(r, updated)
             /\ request'[w].pc = "emit" /\ request'[w].todo = t
      BY <2>3, <2>0, <3>1, IdleIsRequest DEF UpdateWrite, RequestsOK, Request
    <3>4. \A u \in Todos :
            todos[u].completionEventCounted => todos'[u].completionEventCounted
      BY <2>0, <3>1, <3>2, PayloadIsTodo
    <3>5. AloneOnTodo'
      BY <3>2, <3>3, NoneAssumption DEF AloneOnTodo, CountIInv
    <3>6. ASSUME t \notin overlapped, NEW v \in Workers, v # w
          PROVE  request[v].todo # t
      BY <3>1, <3>6 DEF AloneOnTodo, CountIInv
    <3>7. SnapshotCurrent'
      <4>1. ASSUME NEW v \in Workers, request'[v].pc = "write",
                   request'[v].todo \notin overlapped
            PROVE  /\ v # w /\ request'[v] = request[v]
                   /\ request[v].todo \in Todos \ {t}
        BY <2>0, <3>2, <3>3, <3>6, <4>1 DEF RequestsOK, Request
      <4>2. QED
        BY <3>2, <4>1 DEF SnapshotCurrent, CountIInv
    <3>8. ASSUME t \notin overlapped, request'[w].pc = "emit"
          PROVE  emitted[t] = 0 /\ todos'[t].completionEventCounted
      <4>1. IsNewCompletion(r, updated)
        BY <3>3, <3>8
      <4>2. /\ r.completed = todos[t].completed
            /\ r.counted = todos[t].completionEventCounted
        BY <3>1, <3>8 DEF SnapshotCurrent, CountIInv
      <4>3. ~r.counted /\ updated.completionEventCounted
        BY <3>1, <4>1, <4>2, NewCompletionCounts
      <4>4. emitted[t] = 0
        BY <2>0, <3>1, <3>8, <4>2, <4>3
        DEF EmittedImpliesCounted, CountIInv, RequestsOK
      <4>5. QED
        BY <3>2, <4>3, <4>4
    <3>9. EmitIsFirst'
      <4>1. ASSUME NEW v \in Workers, v # w, request'[v].pc = "emit",
                   request'[v].todo \notin overlapped
            PROVE  /\ emitted[request'[v].todo] = 0
                   /\ todos'[request'[v].todo].completionEventCounted
        <5>1. request'[v] = request[v] /\ request[v].todo \in Todos
          BY <2>0, <3>2, <4>1 DEF RequestsOK, Request
        <5>2. QED
          BY <3>4, <4>1, <5>1 DEF EmitIsFirst, CountIInv
      <4>2. QED
        BY <3>2, <3>3, <3>8, <4>1 DEF EmitIsFirst
    <3>10. EmittedImpliesCounted' /\ CountedAtMostOnce'
      BY <3>2, <3>4 DEF EmittedImpliesCounted, CountedAtMostOnce, CountIInv
    <3>11. QED
      BY <3>5, <3>7, <3>9, <3>10 DEF CountIInv
  <2>4. ASSUME NEW w \in Workers, UpdateEmit(w)
        PROVE  CountIInv'
    <3> DEFINE t == request[w].todo
    <3>1. /\ request[w].pc = "emit" /\ t \in Todos
          /\ emitted' = [emitted EXCEPT ![t] = @ + 1]
          /\ request' = [request EXCEPT ![w] = IdleRequest]
          /\ UNCHANGED <<todos, overlapped>>
      BY <2>4, <2>0 DEF UpdateEmit, RequestsOK, Request
    <3>2. /\ request'[w].pc = "idle" /\ request'[w].todo = None
          /\ \A v \in Workers : v # w => request'[v] = request[v]
      BY <2>0, <3>1, IdleIsRequest DEF RequestsOK
    <3>3. AloneOnTodo' /\ SnapshotCurrent'
      BY <3>1, <3>2, NoneAssumption DEF AloneOnTodo, SnapshotCurrent, CountIInv
    <3>4. /\ \A u \in Todos : u # t => emitted'[u] = emitted[u]
          /\ t \notin overlapped => emitted'[t] = 1 /\ todos[t].completionEventCounted
      BY <2>0, <3>1 DEF RequestsOK, EmitIsFirst, CountIInv
    <3>5. EmittedImpliesCounted' /\ CountedAtMostOnce'
      BY <3>1, <3>4 DEF EmittedImpliesCounted, CountedAtMostOnce, CountIInv
    <3>6. ASSUME NEW v \in Workers, request'[v].pc = "emit",
                 request'[v].todo \notin overlapped
          PROVE  /\ request'[v] = request[v] /\ v # w
                 /\ request[v].todo \in Todos \ {t}
      BY <2>0, <3>1, <3>2, <3>6 DEF RequestsOK, Request, AloneOnTodo, CountIInv
    <3>7. EmitIsFirst'
      BY <3>1, <3>4, <3>6 DEF EmitIsFirst, CountIInv
    <3>8. QED
      BY <3>3, <3>5, <3>7 DEF CountIInv
  <2>5. ASSUME \A w \in Workers :
                  \/ request'[w] = request[w]
                  \/ request'[w].pc = "idle" /\ request'[w].todo = None,
               UNCHANGED <<todos, emitted, overlapped>>
        PROVE  CountIInv'
    BY <2>5, NoneAssumption DEF CountIInv, AloneOnTodo, SnapshotCurrent, EmitIsFirst,
       EmittedImpliesCounted, CountedAtMostOnce
  <2>6. ASSUME NEW w \in Workers, UpdateFail(w) PROVE CountIInv'
    BY <2>5, <2>6, <2>0, IdleIsRequest DEF UpdateFail, RequestsOK
  <2>7. CASE Restart
    BY <2>5, <2>7, IdleIsRequest DEF Restart
  <2>8. CASE Midnight \/ \E h \in Handlers : Dispatch(h) \/ Handle(h) \/ HandlerFails(h)
    BY <2>8, CountUnchanged DEF Midnight, Dispatch, Handle, HandlerFails
  <2>9. CASE UNCHANGED vars
    BY <2>9, CountUnchanged DEF vars
  <2>10. QED
    BY <2>1, <2>2, <2>3, <2>4, <2>6, <2>7, <2>8, <2>9 DEF Next
<1>3. QED
  BY <1>1, <1>2, RequestsCorrect, PTL DEF Spec

\* A todo whose updates never overlap is counted at most once, over any number of
\* completions and reopenings, failures and restarts (todos.service.ts:110-138).
THEOREM CountedOnce == Spec => []CountedAtMostOnce
<1>1. CountIInv => CountedAtMostOnce
  BY DEF CountIInv
<1>2. QED
  BY <1>1, InductiveInvariant, PTL

-----------------------------------------------------------------------------
(* The maximum of a set of numbers.                                        *)
\* A set of numbers with a bound has a maximum.
LEMMA MaxExists ==
  ASSUME NEW N \in Nat, NEW S \in SUBSET (0..N), S # {}
  PROVE  Max(S) \in S /\ \A y \in S : Max(S) >= y
<1> DEFINE R == OpToRel(<, Nat)
           T == {N - x : x \in S}
<1>1. IsWellFoundedOn(R, Nat)
  BY NatLessThanWellFounded
<1> HIDE DEF R
<1>2. T \subseteq Nat /\ T # {}
  <2>1. \A x \in S : N - x \in Nat
    OBVIOUS
  <2>2. PICK x \in S : TRUE
    OBVIOUS
  <2>3. QED
    BY <2>1, <2>2
<1> HIDE DEF T
<1>3. PICK m \in T : \A y \in T : <<y, m>> \notin R
  BY <1>1, <1>2, WFMin
<1>4. \A y \in T : ~(y < m)
  BY <1>2, <1>3 DEF R, OpToRel
<1>5. PICK x \in S : m = N - x
  BY DEF T
<1>6. ASSUME NEW y \in S PROVE x >= y
  <2>1. N - y \in T
    BY DEF T
  <2>2. ~(N - y < N - x)
    BY <1>4, <1>5, <2>1
  <2>3. QED
    BY <2>2
<1>7. QED
  BY <1>6 DEF Max

\* A member that bounds the set is its maximum.
LEMMA MaxIs ==
  ASSUME NEW S \in SUBSET Int, NEW x \in S, \A y \in S : x >= y
  PROVE  Max(S) = x
<1>1. Max(S) \in S /\ \A y \in S : Max(S) >= y
  BY DEF Max
<1>2. Max(S) \in Int /\ x \in Int
  BY <1>1
<1>3. x >= Max(S) /\ Max(S) >= x
  BY <1>1
<1>4. QED
  BY <1>2, <1>3

\* The maximum of two numbers is the larger one.
LEMMA MaxOfTwo ==
  ASSUME NEW a \in Int, NEW b \in Int
  PROVE  Max({a, b}) = IF a >= b THEN a ELSE b
<1>1. CASE a >= b
  BY <1>1, MaxIs
<1>2. CASE ~(a >= b)
  BY <1>2, MaxIs
<1>3. QED
  BY <1>1, <1>2

-----------------------------------------------------------------------------
(* Runs of consecutive days.                                               *)
IsRun(days, day, n) == n \in 0..day /\ \A d \in (day - n + 1)..day : d \in days

\* The run that ends on a day is at least every run that does.
LEMMA RunIsLongest ==
  ASSUME NEW days, NEW day \in Nat, NEW n, IsRun(days, day, n)
  PROVE  RunEndingOn(days, day) \in 0..day /\ n <= RunEndingOn(days, day)
<1> DEFINE S == {k \in 0..day : \A d \in (day - k + 1)..day : d \in days}
<1>1. n \in S /\ S \subseteq 0..day /\ RunEndingOn(days, day) = Max(S)
  BY DEF IsRun, RunEndingOn
<1> HIDE DEF S
<1>2. Max(S) \in S /\ Max(S) >= n
  BY <1>1, MaxExists
<1>3. QED
  BY <1>1, <1>2

\* It is a run itself.
LEMMA RunEndingIsRun ==
  ASSUME NEW days, NEW day \in Nat
  PROVE  IsRun(days, day, RunEndingOn(days, day))
<1> DEFINE S == {k \in 0..day : \A d \in (day - k + 1)..day : d \in days}
<1>1. 0 \in S /\ S \subseteq 0..day /\ RunEndingOn(days, day) = Max(S)
  BY DEF RunEndingOn
<1>2. \A k \in S : IsRun(days, day, k)
  BY DEF IsRun
<1> HIDE DEF S
<1>3. Max(S) \in S
  BY <1>1, MaxExists
<1>4. QED
  BY <1>1, <1>2, <1>3

\* A run before which a day is missing is the longest.
LEMMA RunIs ==
  ASSUME NEW days, NEW day \in Nat, NEW n, IsRun(days, day, n), day - n \notin days
  PROVE  RunEndingOn(days, day) = n
<1> DEFINE S == {k \in 0..day : \A d \in (day - k + 1)..day : d \in days}
<1>1. n \in S /\ S \subseteq Int /\ n \in Nat
  BY DEF IsRun
<1>2. ASSUME NEW k \in S PROVE n >= k
  <2> SUFFICES ASSUME k > n PROVE FALSE
    BY <1>1
  <2>1. day - n \in (day - k + 1)..day
    BY <1>1
  <2>2. QED
    BY <2>1
<1>3. RunEndingOn(days, day) = Max(S)
  BY DEF RunEndingOn
<1> HIDE DEF S
<1>4. QED
  BY <1>1, <1>2, <1>3, MaxIs

\* A run in a set is one in every larger set.
LEMMA RunInMore ==
  ASSUME NEW days, NEW more, days \subseteq more, NEW day, NEW n, IsRun(days, day, n)
  PROVE  IsRun(more, day, n)
BY DEF IsRun

\* A day of the set is a run by itself.
LEMMA RunOfOne ==
  ASSUME NEW days, NEW day \in days, day \in Nat \ {0}
  PROVE  IsRun(days, day, 1)
BY DEF IsRun

\* The next day makes a run longer by one.
LEMMA RunExtends ==
  ASSUME NEW days, NEW more, days \subseteq more, NEW day \in Nat, NEW n,
         IsRun(days, day, n), day + 1 \in more
  PROVE  IsRun(more, day + 1, n + 1)
BY DEF IsRun

-----------------------------------------------------------------------------
(* Statistics whose streaks are runs of the days heeded.                   *)
Justified(s, days) ==
  /\ s.lastCompletionDay = NoDay => s.currentStreakDays = 0 /\ s.bestStreakDays = 0
  /\ s.lastCompletionDay # NoDay =>
        /\ s.lastCompletionDay \in days
        /\ IsRun(days, s.lastCompletionDay, s.currentStreakDays)
        /\ s.currentStreakDays <= s.bestStreakDays
        /\ \E d \in days : IsRun(days, d, s.bestStreakDays)

StreakIInv ==
  /\ AutoTypeOK
  /\ heeded # {} => stats.lastCompletionDay # NoDay
  /\ Justified(stats, heeded)
  /\ \A h \in Handlers : handler[h].pc = "write" => Justified(handler[h].existing, heeded)

\* The streaks of the statistics are the longest, as long as no two handlers raced.
Longest(s, days) == s.lastCompletionDay # NoDay =>
  /\ \A d \in days : d <= s.lastCompletionDay
  /\ s.lastCompletionDay - s.currentStreakDays \notin days
  /\ \A d \in days : \A n \in Nat : IsRun(days, d, n) => n <= s.bestStreakDays

ExactIInv == ~raced =>
  /\ \A g, h \in BusyHandlers : g = h
  /\ \A h \in Handlers : handler[h].pc = "write" => handler[h].existing = stats
  /\ Longest(stats, heeded)

\* The fields of statistics have their types.
LEMMA StatsFields ==
  ASSUME NEW s \in StatsType
  PROVE  /\ s.completedTodoEvents \in Nat
         /\ s.currentStreakDays \in Nat /\ s.bestStreakDays \in Nat
         /\ s.lastCompletionDay \in 0..MaxDay /\ s.lastCompletedTodoAt \in 0..MaxDay
BY DEF StatsType

\* The streak computed from a snapshot that was justified is justified by the day too.
LEMMA UpdateJustified ==
  ASSUME NEW e \in StatsType, NEW day \in Days, NEW days \in SUBSET Days, Justified(e, days),
         stats \in StatsType
  PROVE  LET more == IF day >= e.lastCompletionDay THEN days \cup {day} ELSE days
             s == UpdatedStats(e, day)
         IN  /\ s \in StatsType /\ s.lastCompletionDay # NoDay
             /\ Justified(s, more)
             /\ s.lastCompletionDay = IF day >= e.lastCompletionDay THEN day
                                      ELSE e.lastCompletionDay
             /\ s.currentStreakDays = NextStreak(e, day)
             /\ s.bestStreakDays = Max({e.bestStreakDays, NextStreak(e, day)})
             /\ s.completedTodoEvents = stats.completedTodoEvents + 1
<1> DEFINE more == IF day >= e.lastCompletionDay THEN days \cup {day} ELSE days
           last == e.lastCompletionDay
           cur == e.currentStreakDays
           best == e.bestStreakDays
           streak == NextStreak(e, day)
           s == UpdatedStats(e, day)
<1>1. /\ cur \in Nat /\ best \in Nat /\ last \in 0..MaxDay /\ e.lastCompletedTodoAt \in 0..MaxDay
      /\ day \in Nat \ {0} /\ day \in 0..MaxDay /\ MaxDay \in Nat /\ NoDay = 0
      /\ stats.completedTodoEvents \in Nat
  BY StatsFields, BoundsAssumption DEF Days, NoDay
<1>2. /\ streak = IF last = NoDay THEN 1
                  ELSE IF day = last + 1 THEN Max({cur, 1}) + 1
                  ELSE IF day > last + 1 THEN 1 ELSE cur
      /\ Max({cur, 1}) = IF cur >= 1 THEN cur ELSE 1
  BY <1>1, MaxOfTwo DEF NextStreak, IsNextUtcDay
<1>3. streak \in Nat
  BY <1>1, <1>2
<1>4. /\ Max({last, day}) = (IF last >= day THEN last ELSE day)
      /\ Max({best, streak}) = (IF best >= streak THEN best ELSE streak)
      /\ Max({e.lastCompletedTodoAt, day}) \in 0..MaxDay
  BY <1>1, <1>3, MaxOfTwo
<1>5. /\ s.completedTodoEvents = stats.completedTodoEvents + 1
      /\ s.lastCompletionDay = Max({last, day})
      /\ s.currentStreakDays = streak /\ s.bestStreakDays = Max({best, streak})
      /\ s.lastCompletedTodoAt = Max({e.lastCompletedTodoAt, day})
      /\ s = [completedTodoEvents |-> s.completedTodoEvents,
              lastCompletedTodoAt |-> s.lastCompletedTodoAt,
              currentStreakDays |-> s.currentStreakDays, bestStreakDays |-> s.bestStreakDays,
              lastCompletionDay |-> s.lastCompletionDay]
  BY DEF UpdatedStats
<1> HIDE DEF s, streak
<1>6. s \in StatsType /\ s.lastCompletionDay # NoDay
      /\ s.lastCompletionDay = (IF day >= last THEN day ELSE last)
  BY <1>1, <1>3, <1>4, <1>5 DEF StatsType
<1>7. days \subseteq more /\ (day >= last => day \in more)
  OBVIOUS
<1>8. IsRun(more, s.lastCompletionDay, streak) /\ s.lastCompletionDay \in more
  <2>1. CASE last = NoDay \/ day > last + 1
    <3>1. streak = 1 /\ s.lastCompletionDay = day /\ day \in more
      BY <1>1, <1>2, <1>6, <1>7, <2>1
    <3>2. QED
      BY <1>1, <3>1, RunOfOne
  <2>2. CASE last # NoDay /\ day = last + 1
    <3>1. last \in days /\ IsRun(days, last, cur) /\ day \in more /\ s.lastCompletionDay = day
      BY <1>1, <1>6, <1>7, <2>2 DEF Justified
    <3>2. CASE cur >= 1
      BY <1>1, <1>2, <1>7, <2>2, <3>1, <3>2, RunExtends
    <3>3. CASE ~(cur >= 1)
      <4>1. streak = 1 + 1
        BY <1>2, <2>2, <3>3
      <4>2. IsRun(days, last, 1)
        BY <1>1, <2>2, <3>1, RunOfOne
      <4>3. IsRun(more, last + 1, 1 + 1)
        BY <1>1, <1>7, <2>2, <3>1, <4>2, RunExtends
      <4>4. QED
        BY <2>2, <3>1, <4>1, <4>3
    <3>4. QED
      BY <3>2, <3>3
  <2>3. CASE last # NoDay /\ day <= last
    <3>1. last \in days /\ IsRun(days, last, cur) /\ s.lastCompletionDay = last /\ streak = cur
      BY <1>1, <1>2, <1>6, <2>3 DEF Justified
    <3>2. QED
      BY <1>7, <3>1, RunInMore
  <2>4. QED
    BY <1>1, <2>1, <2>2, <2>3
<1>9. \E d \in more : IsRun(more, d, s.bestStreakDays)
  <2>1. CASE best >= streak /\ last # NoDay
    <3>1. PICK d \in days : IsRun(days, d, best)
      BY <2>1 DEF Justified
    <3>2. QED
      BY <1>4, <1>5, <1>7, <2>1, <3>1, RunInMore
  <2>2. CASE ~(best >= streak)
    BY <1>4, <1>5, <1>8, <2>2
  <2>3. CASE last = NoDay
    <3>1. best = 0 /\ streak = 1
      BY <1>2, <2>3 DEF Justified
    <3>2. QED
      BY <1>4, <1>5, <1>8, <3>1
  <2>4. QED
    BY <2>1, <2>2, <2>3
<1>10. s.currentStreakDays <= s.bestStreakDays
  BY <1>1, <1>3, <1>4, <1>5
<1>11. Justified(s, more)
  BY <1>5, <1>6, <1>8, <1>9, <1>10 DEF Justified
<1> HIDE DEF more
<1>12. QED
  BY <1>5, <1>6, <1>11 DEF s, streak, more

\* A later day does not matter to a run that ends before it.
LEMMA RunBelow ==
  ASSUME NEW days, NEW day \in Nat, NEW d \in Nat, d < day, NEW n, IsRun(days \cup {day}, d, n)
  PROVE  IsRun(days, d, n)
BY DEF IsRun

\* A run does not reach over a missing day.
LEMMA RunStops ==
  ASSUME NEW days, NEW d \in Nat, NEW n, IsRun(days, d, n), NEW k \in Nat, d - k \notin days
  PROVE  n <= k
<1> SUFFICES ASSUME n > k PROVE FALSE
  BY DEF IsRun
<1>1. n \in Nat /\ d - k \in (d - n + 1)..d
  BY DEF IsRun
<1>2. QED
  BY <1>1 DEF IsRun

\* If the snapshot knew the longest run, the streak stays the longest.
LEMMA UpdateLongest ==
  ASSUME NEW e \in StatsType, NEW day \in Days, NEW days \in SUBSET Days, Justified(e, days),
         stats \in StatsType, Longest(e, days), days # {} => e.lastCompletionDay # NoDay
  PROVE  Longest(UpdatedStats(e, day),
                 IF day >= e.lastCompletionDay THEN days \cup {day} ELSE days)
<1> DEFINE more == IF day >= e.lastCompletionDay THEN days \cup {day} ELSE days
           last == e.lastCompletionDay
           cur == e.currentStreakDays
           best == e.bestStreakDays
           streak == NextStreak(e, day)
           s == UpdatedStats(e, day)
<1>1. /\ cur \in Nat /\ best \in Nat /\ last \in Nat
      /\ day \in Nat \ {0} /\ NoDay = 0 /\ days \subseteq Nat \ {0}
  BY StatsFields, BoundsAssumption DEF Days, NoDay
<1>2. /\ streak = IF last = NoDay THEN 1
                  ELSE IF day = last + 1 THEN Max({cur, 1}) + 1
                  ELSE IF day > last + 1 THEN 1 ELSE cur
      /\ Max({cur, 1}) = IF cur >= 1 THEN cur ELSE 1
  BY <1>1, MaxOfTwo DEF NextStreak, IsNextUtcDay
<1>3. streak \in Nat
  BY <1>1, <1>2
<1>4. /\ s.lastCompletionDay = IF day >= last THEN day ELSE last
      /\ s.currentStreakDays = streak
      /\ s.bestStreakDays = IF best >= streak THEN best ELSE streak
  <2>1. /\ s.lastCompletionDay = IF day >= last THEN day ELSE last
        /\ s.currentStreakDays = streak
        /\ s.bestStreakDays = Max({best, streak})
    BY UpdateJustified
  <2>2. Max({best, streak}) = IF best >= streak THEN best ELSE streak
    BY <1>1, <1>3, MaxOfTwo
  <2> HIDE DEF s, streak
  <2>3. QED
    BY <2>1, <2>2
<1> HIDE DEF s, streak
<1>5. CASE day <= last
  <2>1. last # NoDay /\ last \in days /\ streak = cur /\ cur <= best
    BY <1>1, <1>2, <1>5 DEF Justified
  <2>2. more = days /\ s.lastCompletionDay = last /\ s.bestStreakDays = best
    BY <1>1, <1>4, <1>5, <2>1
  <2> HIDE DEF more
  <2>3. Longest(s, more)
    BY <1>4, <2>1, <2>2 DEF Longest
  <2>4. QED
    BY <2>3 DEF s, more
<1>6. CASE day > last
  <2>1. more = days \cup {day} /\ s.lastCompletionDay = day
    BY <1>1, <1>4, <1>6
  <2>2. ASSUME NEW d \in days PROVE d <= last /\ d < day
    BY <1>1, <1>6, <2>2 DEF Longest
  <2>3. day - streak \notin more
    <3>1. CASE streak = 1 /\ (last = NoDay \/ day > last + 1)
      BY <1>1, <1>6, <2>1, <2>2, <3>1
    <3>2. CASE last # NoDay /\ day = last + 1
      <4>1. last \in days /\ last - cur \notin days
        BY <3>2 DEF Justified, Longest
      <4>2. cur >= 1 /\ streak = cur + 1
        BY <1>1, <1>2, <3>2, <4>1
      <4>3. QED
        BY <1>1, <2>1, <3>2, <4>1, <4>2
    <3>3. QED
      BY <1>1, <1>2, <1>6, <3>1, <3>2
  <2>4. ASSUME NEW d \in more, NEW n \in Nat, IsRun(more, d, n) PROVE n <= s.bestStreakDays
    <3>1. CASE d = day
      <4>1. n <= streak
        BY <1>1, <1>3, <2>3, <2>4, <3>1, RunStops
      <4>2. QED
        BY <1>1, <1>3, <1>4, <4>1
    <3>2. CASE d \in days
      <4>1. last # NoDay /\ IsRun(days, d, n)
        BY <1>1, <2>1, <2>2, <2>4, <3>2, RunBelow
      <4>2. n <= best
        BY <3>2, <4>1 DEF Longest
      <4>3. QED
        BY <1>1, <1>3, <1>4, <4>2
    <3>3. QED
      BY <2>1, <3>1, <3>2
  <2>5. \A d \in more : d <= day
    BY <1>1, <2>1, <2>2
  <2> HIDE DEF more
  <2>6. Longest(s, more)
    BY <1>4, <2>1, <2>3, <2>4, <2>5 DEF Longest
  <2>7. QED
    BY <2>6 DEF s, more
<1>7. QED
  BY <1>1, <1>5, <1>6

-----------------------------------------------------------------------------
(* What may happen to the handlers, whoever runs them.                     *)
HandlersMove ==
  \/ \E h \in Handlers :
        \/ \E day \in Days : StartHandler(h, day)
        \/ FindStats(h) \/ UpdateStats(h) \/ DropEvent(h)
  \/ /\ handler' = [h \in Handlers |-> IdleHandler]
     /\ UNCHANGED <<stats, heeded, raced>>
  \/ UNCHANGED autoVars

HandlerType == [pc: {"idle", "find", "write"}, day: 0..MaxDay, existing: StatsType]

\* A handler at rest and statistics that do not exist are of their types.
LEMMA IdleTypes ==
  /\ NoStats \in StatsType /\ IdleHandler \in HandlerType /\ IdleHandler.pc = "idle"
  /\ NoStats.lastCompletionDay = NoDay
  /\ NoStats.currentStreakDays = 0 /\ NoStats.bestStreakDays = 0
<1>1. NoDay \in 0..MaxDay
  BY BoundsAssumption DEF NoDay
<1>2. NoStats \in StatsType
  BY <1>1 DEF NoStats, StatsType
<1>3. QED
  BY <1>1, <1>2 DEF IdleHandler, HandlerType, NoStats

\* The first state has no events and no streak.
LEMMA AutoInitHolds == AutoInit => StreakIInv /\ ExactIInv
<1> SUFFICES ASSUME AutoInit PROVE StreakIInv /\ ExactIInv
  OBVIOUS
<1>1. AutoTypeOK
  BY IdleTypes DEF AutoInit, AutoTypeOK, HandlerType
<1>2. \A h \in Handlers : handler[h].pc = "idle"
  BY IdleTypes DEF AutoInit
<1>3. StreakIInv
  BY <1>1, <1>2, IdleTypes DEF AutoInit, StreakIInv, Justified
<1>4. ExactIInv
  BY <1>2, IdleTypes DEF AutoInit, ExactIInv, Longest, BusyHandlers
<1>5. QED
  BY <1>3, <1>4

\* Handlers that leave the statistics alone, and keep or drop what they know.
LEMMA StreakKept ==
  ASSUME StreakIInv, ExactIInv, AutoTypeOK', UNCHANGED <<stats, heeded, raced>>,
         \A h \in Handlers :
            \/ handler'[h] = handler[h]
            \/ handler'[h].pc = "idle"
            \/ /\ handler[h].pc # "idle" /\ handler'[h].pc = "write"
               /\ handler'[h].existing = stats
  PROVE  StreakIInv' /\ ExactIInv'
<1>1. StreakIInv'
  BY DEF StreakIInv, Justified
<1>2. BusyHandlers' \subseteq BusyHandlers
  BY DEF BusyHandlers
<1>3. ExactIInv'
  BY <1>2 DEF ExactIInv, Longest
<1>4. QED
  BY <1>1, <1>3

\* An event that arrives changes no statistics, and is alone or races.
LEMMA StreakStart ==
  ASSUME StreakIInv, ExactIInv, NEW h \in Handlers, NEW day \in Days, StartHandler(h, day)
  PROVE  StreakIInv' /\ ExactIInv'
<1> DEFINE new == [pc |-> "find", day |-> day, existing |-> NoStats]
<1>1. new \in HandlerType /\ new.pc = "find" /\ new.day = day
  BY IdleTypes, BoundsAssumption DEF HandlerType, Days
<1>2. /\ handler' = [handler EXCEPT ![h] = new] /\ handler[h].pc = "idle"
      /\ raced' = (raced \/ BusyHandlers # {})
      /\ UNCHANGED <<stats, heeded>>
  BY DEF StartHandler
<1> HIDE DEF new
<1>3. handler'[h] = new /\ \A g \in Handlers \ {h} : handler'[g] = handler[g]
  BY <1>2 DEF StreakIInv, AutoTypeOK
<1>4. AutoTypeOK'
  BY <1>1, <1>2, <1>3 DEF StreakIInv, AutoTypeOK, HandlerType
<1>5. StreakIInv'
  BY <1>1, <1>2, <1>3, <1>4 DEF StreakIInv, Justified
<1>6. ASSUME ~raced' PROVE BusyHandlers' \subseteq {h} /\ ~raced
  BY <1>2, <1>3, <1>6 DEF BusyHandlers
<1>7. ASSUME NEW g \in Handlers, handler'[g].pc = "write"
      PROVE  handler'[g] = handler[g]
  BY <1>1, <1>3, <1>7
<1>8. ExactIInv'
  BY <1>2, <1>6, <1>7 DEF ExactIInv, Longest
<1>9. QED
  BY <1>5, <1>8

\* A handler that writes keeps the streaks justified, and exact if it was alone.
LEMMA StreakUpdate ==
  ASSUME StreakIInv, ExactIInv, NEW h \in Handlers, UpdateStats(h)
  PROVE  StreakIInv' /\ ExactIInv'
<1> DEFINE e == handler[h].existing
           day == handler[h].day
           new == UpdatedStats(e, day)
           more == IF day >= e.lastCompletionDay THEN heeded \cup {day} ELSE heeded
<1>1. /\ e \in StatsType /\ day \in Days /\ Justified(e, heeded) /\ heeded \in SUBSET Days
      /\ stats \in StatsType /\ handler[h].pc = "write" /\ h \in BusyHandlers
      /\ handler \in [Handlers -> HandlerType]
  BY DEF UpdateStats, StreakIInv, AutoTypeOK, BusyHandlers, HandlerType
<1>2. /\ stats' = new /\ handler' = [handler EXCEPT ![h] = IdleHandler] /\ raced' = raced
      /\ heeded' = more
  BY DEF UpdateStats
<1>3. new \in StatsType /\ new.lastCompletionDay # NoDay /\ Justified(new, more)
  BY <1>1, UpdateJustified
<1>4. heeded \subseteq heeded' /\ heeded' \subseteq Days
  BY <1>1, <1>2
<1>5. /\ \A g \in Handlers : handler'[g] = IF g = h THEN IdleHandler ELSE handler[g]
      /\ handler' \in [Handlers -> HandlerType]
  BY <1>1, <1>2, IdleTypes
<1>6. ~raced /\ ExactIInv => Longest(new, more)
  <2>1. ASSUME ~raced, ExactIInv PROVE e = stats /\ Longest(e, heeded)
    BY <1>1, <2>1 DEF ExactIInv
  <2>2. heeded # {} => stats.lastCompletionDay # NoDay
    BY DEF StreakIInv
  <2>3. QED
    BY <1>1, <2>1, <2>2, UpdateLongest
<1> HIDE DEF new, more
<1>7. AutoTypeOK'
  BY <1>2, <1>3, <1>4, <1>5, IdleTypes DEF StreakIInv, AutoTypeOK, HandlerType
<1>8. ASSUME NEW g \in Handlers, handler'[g].pc = "write"
      PROVE  Justified(handler'[g].existing, heeded')
  <2>1. handler'[g] = handler[g] /\ Justified(handler[g].existing, heeded)
    BY <1>5, <1>8, IdleTypes DEF StreakIInv
  <2>2. QED
    BY <1>4, <2>1, RunInMore DEF Justified
<1>9. StreakIInv'
  BY <1>2, <1>3, <1>7, <1>8 DEF StreakIInv
<1>10. ASSUME ~raced' PROVE BusyHandlers' = {}
  BY <1>1, <1>2, <1>5, <1>10, IdleTypes DEF BusyHandlers, ExactIInv
<1>11. ExactIInv'
  BY <1>2, <1>6, <1>10 DEF ExactIInv, BusyHandlers
<1>12. QED
  BY <1>9, <1>11

\* Every move of the handlers keeps the streaks.
LEMMA StreakStep ==
  ASSUME StreakIInv, ExactIInv, HandlersMove
  PROVE  StreakIInv' /\ ExactIInv'
<1>1. ASSUME NEW h \in Handlers, NEW day \in Days, StartHandler(h, day)
      PROVE  StreakIInv' /\ ExactIInv'
  BY <1>1, StreakStart
<1>2. ASSUME NEW h \in Handlers, FindStats(h)
      PROVE  StreakIInv' /\ ExactIInv'
  <2>1. /\ UNCHANGED <<stats, heeded, raced>>
        /\ handler[h].pc = "find"
        /\ handler' = [handler EXCEPT ![h].pc = "write", ![h].existing = stats]
        /\ handler \in [Handlers -> HandlerType] /\ stats \in StatsType
    BY <1>2 DEF FindStats, StreakIInv, AutoTypeOK, HandlerType
  <2>2. /\ handler' \in [Handlers -> HandlerType]
        /\ handler'[h].pc = "write" /\ handler'[h].existing = stats
        /\ handler'[h].day = handler[h].day
        /\ \A g \in Handlers \ {h} : handler'[g] = handler[g]
    BY <2>1 DEF HandlerType
  <2>3. AutoTypeOK'
    BY <2>1, <2>2 DEF StreakIInv, AutoTypeOK, HandlerType
  <2>4. QED
    BY <2>1, <2>2, <2>3, StreakKept
<1>3. ASSUME NEW h \in Handlers, UpdateStats(h)
      PROVE  StreakIInv' /\ ExactIInv'
  BY <1>3, StreakUpdate
<1>4. ASSUME NEW h \in Handlers, DropEvent(h)
      PROVE  StreakIInv' /\ ExactIInv'
  <2>1. AutoTypeOK' /\ UNCHANGED <<stats, heeded, raced>>
    BY <1>4, IdleTypes DEF DropEvent, StreakIInv, AutoTypeOK, HandlerType
  <2>2. \A g \in Handlers : handler'[g] = handler[g] \/ handler'[g].pc = "idle"
    BY <1>4, IdleTypes DEF DropEvent, StreakIInv, AutoTypeOK
  <2>3. QED
    BY <2>1, <2>2, StreakKept
<1>5. ASSUME handler' = [h \in Handlers |-> IdleHandler], UNCHANGED <<stats, heeded, raced>>
      PROVE  StreakIInv' /\ ExactIInv'
  <2>1. AutoTypeOK' /\ \A h \in Handlers : handler'[h].pc = "idle"
    BY <1>5, IdleTypes DEF StreakIInv, AutoTypeOK, HandlerType
  <2>2. QED
    BY <1>5, <2>1, StreakKept
<1>6. CASE UNCHANGED autoVars
  <2>1. UNCHANGED <<stats, handler, heeded, raced>>
    BY <1>6 DEF autoVars
  <2>2. AutoTypeOK'
    BY <2>1 DEF StreakIInv, AutoTypeOK
  <2>3. QED
    BY <2>1, <2>2, StreakKept
<1>7. QED
  BY <1>1, <1>2, <1>3, <1>4, <1>5, <1>6 DEF HandlersMove

\* The longest run of all is at least every run that ends on a day heeded.
LEMMA LongestOfAll ==
  ASSUME NEW days \in SUBSET Days, NEW d \in days, NEW n, IsRun(days, d, n)
  PROVE  LET best == Max({RunEndingOn(days, x) : x \in days})
         IN  /\ n <= best /\ best \in Nat
             /\ \E x \in days : best = RunEndingOn(days, x)
<1> DEFINE S == {RunEndingOn(days, x) : x \in days}
<1>1. MaxDay \in Nat /\ \A x \in days : x \in Nat /\ x <= MaxDay
  BY BoundsAssumption DEF Days
<1>2. ASSUME NEW x \in days PROVE RunEndingOn(days, x) \in 0..MaxDay
  <2>1. IsRun(days, x, 1)
    BY <1>1, RunOfOne DEF Days
  <2>2. RunEndingOn(days, x) \in 0..x
    BY <1>1, <2>1, RunIsLongest
  <2>3. QED
    BY <1>1, <2>2
<1>3. S \in SUBSET (0..MaxDay) /\ RunEndingOn(days, d) \in S
  BY <1>2
<1>4. n <= RunEndingOn(days, d) /\ n \in Nat
  BY <1>1, RunIsLongest DEF IsRun
<1> HIDE DEF S
<1>5. Max(S) \in S /\ Max(S) >= RunEndingOn(days, d)
  BY <1>1, <1>3, MaxExists
<1>6. \E x \in days : Max(S) = RunEndingOn(days, x)
  BY <1>5 DEF S
<1>7. Max(S) \in 0..MaxDay /\ RunEndingOn(days, d) \in 0..MaxDay
  BY <1>3, <1>5
<1>8. n <= Max(S) /\ Max(S) \in Nat
  BY <1>1, <1>4, <1>5, <1>7
<1>9. QED
  BY <1>6, <1>8 DEF S

\* Justified streaks are not longer than the longest run.
LEMMA NeverOverstated == StreakIInv => StreakNeverOverstated
<1> SUFFICES ASSUME StreakIInv, heeded # {} PROVE StreakNeverOverstated
  BY DEF StreakNeverOverstated
<1> DEFINE last == stats.lastCompletionDay
<1>1. /\ last \in heeded /\ IsRun(heeded, last, stats.currentStreakDays)
      /\ stats.currentStreakDays <= stats.bestStreakDays
      /\ heeded \in SUBSET Days
  BY DEF StreakIInv, Justified, AutoTypeOK
<1>2. PICK d \in heeded : IsRun(heeded, d, stats.bestStreakDays)
  BY DEF StreakIInv, Justified
<1>3. last \in Nat
  <2>1. last \in 1..MaxDay /\ MaxDay \in Nat
    BY <1>1, BoundsAssumption DEF Days
  <2> HIDE DEF last
  <2>2. QED
    BY <2>1
<1>4. stats.currentStreakDays <= RunEndingOn(heeded, last)
  BY <1>1, <1>3, RunIsLongest
<1>5. stats.bestStreakDays <= Max({RunEndingOn(heeded, x) : x \in heeded})
  BY <1>1, <1>2, LongestOfAll
<1>6. QED
  BY <1>1, <1>4, <1>5 DEF StreakNeverOverstated

\* Streaks that are justified and longest are the longest runs.
LEMMA IsExact == StreakIInv /\ ExactIInv => StreakIsExact
<1> SUFFICES ASSUME StreakIInv, ExactIInv, ~raced, heeded # {}
             PROVE  /\ stats.lastCompletionDay = Max(heeded)
                    /\ stats.currentStreakDays = RunEndingOn(heeded, Max(heeded))
                    /\ stats.bestStreakDays = Max({RunEndingOn(heeded, d) : d \in heeded})
  BY DEF StreakIsExact
<1> DEFINE last == stats.lastCompletionDay
           best == stats.bestStreakDays
           all == Max({RunEndingOn(heeded, x) : x \in heeded})
<1>1. /\ last \in heeded /\ IsRun(heeded, last, stats.currentStreakDays)
      /\ heeded \in SUBSET Days /\ heeded \subseteq Int
      /\ last \in Nat /\ best \in Nat /\ stats.currentStreakDays \in Nat
  BY BoundsAssumption DEF StreakIInv, Justified, AutoTypeOK, StatsType, Days
<1>2. /\ \A d \in heeded : d <= last
      /\ last - stats.currentStreakDays \notin heeded
      /\ \A d \in heeded : \A n \in Nat : IsRun(heeded, d, n) => n <= best
  BY DEF StreakIInv, ExactIInv, Longest
<1>3. Max(heeded) = last
  <2>1. heeded \in SUBSET Int /\ \A d \in heeded : last >= d
    BY <1>1, <1>2
  <2>2. QED
    BY <1>1, <2>1, MaxIs
<1>4. RunEndingOn(heeded, last) = stats.currentStreakDays
  BY <1>1, <1>2, RunIs
<1>5. PICK d \in heeded : IsRun(heeded, d, best)
  BY DEF StreakIInv, Justified
<1>6. PICK x \in heeded : all = RunEndingOn(heeded, x)
  BY <1>1, <1>5, LongestOfAll
<1>7. best <= all /\ all \in Nat
  BY <1>1, <1>5, LongestOfAll
<1>8. all <= best
  <2>1. x \in Nat \ {0}
    BY <1>1, <1>6, BoundsAssumption DEF Days
  <2>2. IsRun(heeded, x, RunEndingOn(heeded, x))
    BY <2>1, RunEndingIsRun
  <2>3. QED
    BY <1>2, <1>6, <1>7, <2>2
<1>9. best = all
  BY <1>1, <1>7, <1>8
<1>10. QED
  BY <1>3, <1>4, <1>9


-----------------------------------------------------------------------------

\* The automation by itself only moves its handlers.
LEMMA AutomationMoves == [AutoNext]_autoVars => HandlersMove
BY DEF AutoNext, Arrive, HandlersMove

\* The automation of any subscriber keeps its streaks justified, and exact without a race.
THEOREM StreaksInvariant == AutoSpec => [](StreakIInv /\ ExactIInv)
<1>1. AutoInit => StreakIInv /\ ExactIInv
  BY AutoInitHolds
<1>2. StreakIInv /\ ExactIInv /\ [AutoNext]_autoVars => (StreakIInv /\ ExactIInv)'
  BY AutomationMoves, StreakStep
<1>3. QED
  BY <1>1, <1>2, PTL DEF AutoSpec

\* Events handled one at a time give the streaks of the calendar, in any order and
\* number of days (automation.service.ts:80-99).
THEOREM StreakExact == AutoSpec => []StreakIsExact
<1>1. StreakIInv /\ ExactIInv => StreakIsExact
  BY IsExact
<1>2. QED
  BY <1>1, StreaksInvariant, PTL

\* However the handlers race, they never report a longer streak than the days justify.
THEOREM StreakJustified == AutoSpec => []StreakNeverOverstated
<1>1. StreakIInv => StreakNeverOverstated
  BY NeverOverstated
<1>2. QED
  BY <1>1, StreaksInvariant, PTL

-----------------------------------------------------------------------------
(* The todos, the queue and the handlers together.                         *)
QueueOK ==
  /\ queue \in Seq(Days)
  /\ events \in Nat /\ lost \in Nat
  /\ IsFiniteSet(BusyHandlers)

EventsIInv ==
  /\ RequestsOK
  /\ QueueOK
  /\ StreakIInv /\ ExactIInv
  /\ EventsAccountedFor

\* So do the todos with their queue: what they dispatch are days of the calendar.
LEMMA QueueMoves ==
  ASSUME RequestsOK, QueueOK, [Next]_vars
  PROVE  HandlersMove
<1>1. ASSUME NEW h \in Handlers, Dispatch(h) PROVE HandlersMove
  <2>1. Head(queue) \in Days
    BY <1>1 DEF Dispatch, QueueOK
  <2>2. QED
    BY <1>1, <2>1 DEF Dispatch, HandlersMove
<1>2. ASSUME NEW h \in Handlers, Handle(h) \/ HandlerFails(h) PROVE HandlersMove
  BY <1>2 DEF Handle, HandlerFails, HandlersMove
<1>3. CASE Restart
  BY <1>3 DEF Restart, HandlersMove
<1>4. CASE UNCHANGED autoVars
  BY <1>4 DEF HandlersMove
<1>5. ASSUME NEW w \in Workers, UpdateWrite(w) \/ UpdateEmit(w) \/ UpdateFail(w)
      PROVE  UNCHANGED autoVars
  BY <1>5 DEF UpdateWrite, UpdateEmit, UpdateFail
<1>6. ASSUME NEW w \in Workers, NEW t \in Todos, NEW wish \in Wishes, UpdateFind(w, t, wish)
      PROVE  UNCHANGED autoVars
  BY <1>6 DEF UpdateFind
<1>7. ASSUME NEW t \in Todos, NEW completed \in BOOLEAN, Create(t, completed)
      PROVE  UNCHANGED autoVars
  BY <1>7 DEF Create
<1>8. ASSUME Midnight \/ UNCHANGED vars PROVE UNCHANGED autoVars
  BY <1>8 DEF Midnight, vars
<1>9. QED
  BY <1>1, <1>2, <1>3, <1>4, <1>5, <1>6, <1>7, <1>8 DEF Next

\* A handler that starts is one more at work, and one that ends one less.
LEMMA OneMoreBusy ==
  ASSUME AutoTypeOK, IsFiniteSet(BusyHandlers), NEW h \in Handlers, NEW day, StartHandler(h, day)
  PROVE  IsFiniteSet(BusyHandlers') /\ Cardinality(BusyHandlers') = Cardinality(BusyHandlers) + 1
<1> DEFINE new == [pc |-> "find", day |-> day, existing |-> NoStats]
<1>1. /\ handler' = [handler EXCEPT ![h] = new] /\ handler[h].pc = "idle" /\ new.pc = "find"
  BY DEF StartHandler
<1> HIDE DEF new
<1>2. handler'[h].pc = "find" /\ \A g \in Handlers \ {h} : handler'[g] = handler[g]
  BY <1>1 DEF AutoTypeOK
<1>3. BusyHandlers' = BusyHandlers \cup {h} /\ h \notin BusyHandlers
  BY <1>1, <1>2 DEF BusyHandlers
<1>4. QED
  BY <1>3, FS_AddElement

\* A handler that ends is one less at work.
LEMMA OneLessBusy ==
  ASSUME AutoTypeOK, IsFiniteSet(BusyHandlers), NEW h \in Handlers,
         handler[h].pc # "idle", handler' = [handler EXCEPT ![h] = IdleHandler]
  PROVE  IsFiniteSet(BusyHandlers') /\ Cardinality(BusyHandlers) = Cardinality(BusyHandlers') + 1
<1>1. handler'[h].pc = "idle" /\ \A g \in Handlers \ {h} : handler'[g] = handler[g]
  BY IdleTypes DEF AutoTypeOK
<1>2. BusyHandlers' = BusyHandlers \ {h} /\ h \in BusyHandlers
  BY <1>1 DEF BusyHandlers
<1>3. /\ IsFiniteSet(BusyHandlers')
      /\ Cardinality(BusyHandlers') = Cardinality(BusyHandlers) - 1
  BY <1>2, FS_RemoveElement
<1>4. Cardinality(BusyHandlers) \in Nat
  BY FS_CardinalityType
<1>5. QED
  BY <1>3, <1>4

\* What leaves queue and handlers alone keeps the account of events.
LEMMA SameBusy ==
  ASSUME QueueOK, EventsAccountedFor, UNCHANGED <<queue, events, lost, stats, handler>>
  PROVE  QueueOK' /\ EventsAccountedFor'
<1>1. BusyHandlers' = BusyHandlers
  BY DEF BusyHandlers
<1>2. QED
  BY <1>1 DEF QueueOK, EventsAccountedFor

\* The account's arithmetic: an event emitted is queued, a queued one is handled.
LEMMA OneMore ==
  ASSUME NEW e \in Nat, NEW c \in Nat, NEW q \in Nat, NEW b \in Nat, NEW l \in Nat,
         e = c + q + b + l
  PROVE  /\ e + 1 = c + (q + 1) + b + l
         /\ e = c + (q - 1) + (b + 1) + l
OBVIOUS

\* Every step keeps the account of events.
LEMMA EventsStep ==
  ASSUME RequestsOK, QueueOK, AutoTypeOK, EventsAccountedFor, [Next]_vars
  PROVE  QueueOK' /\ EventsAccountedFor'
<1>0. /\ Cardinality(BusyHandlers) \in Nat /\ Len(queue) \in Nat
      /\ stats.completedTodoEvents \in Nat /\ events \in Nat /\ lost \in Nat
  BY FS_CardinalityType, StatsFields DEF QueueOK, AutoTypeOK
<1>1. ASSUME NEW w \in Workers, UpdateEmit(w) PROVE QueueOK' /\ EventsAccountedFor'
  <2> DEFINE day == IF request[w].day = NoDay THEN today ELSE request[w].day
  <2>1. day \in Days
    <3>1. request[w].day \in 0..MaxDay /\ today \in Days
      BY DEF RequestsOK, Request
    <3>2. QED
      BY <3>1, BoundsAssumption DEF Days, NoDay
  <2>2. /\ queue' = Append(queue, day) /\ events' = events + 1
        /\ UNCHANGED <<lost, stats, handler>>
    BY <1>1 DEF UpdateEmit, autoVars
  <2> HIDE DEF day
  <2>3. queue' \in Seq(Days) /\ Len(queue') = Len(queue) + 1
    BY <2>1, <2>2 DEF QueueOK
  <2>4. BusyHandlers' = BusyHandlers
    BY <2>2 DEF BusyHandlers
  <2>5. QueueOK'
    BY <1>0, <2>2, <2>3, <2>4 DEF QueueOK
  <2>6. EventsAccountedFor'
    BY <1>0, <2>2, <2>3, <2>4, OneMore DEF EventsAccountedFor
  <2>7. QED
    BY <2>5, <2>6
<1>2. ASSUME NEW h \in Handlers, Dispatch(h) PROVE QueueOK' /\ EventsAccountedFor'
  <2>1. /\ queue # <<>> /\ StartHandler(h, Head(queue)) /\ queue' = Tail(queue)
        /\ UNCHANGED <<events, lost, stats>>
    BY <1>2 DEF Dispatch, StartHandler
  <2>2. queue' \in Seq(Days) /\ Len(queue') = Len(queue) - 1
    BY <2>1 DEF QueueOK
  <2>3. /\ IsFiniteSet(BusyHandlers')
        /\ Cardinality(BusyHandlers') = Cardinality(BusyHandlers) + 1
    BY <2>1, OneMoreBusy DEF QueueOK
  <2>4. QueueOK'
    BY <1>0, <2>1, <2>2, <2>3 DEF QueueOK
  <2>5. EventsAccountedFor'
    <3>1. events = stats.completedTodoEvents + (Len(queue) - 1)
                       + (Cardinality(BusyHandlers) + 1) + lost
      BY <1>0, OneMore DEF EventsAccountedFor
    <3>2. QED
      BY <2>1, <2>2, <2>3, <3>1 DEF EventsAccountedFor
  <2>6. QED
    BY <2>4, <2>5
<1>3. ASSUME NEW h \in Handlers, FindStats(h), UNCHANGED <<queue, events, lost>>
      PROVE  QueueOK' /\ EventsAccountedFor'
  <2>1. /\ handler' = [handler EXCEPT ![h].pc = "write", ![h].existing = stats]
        /\ handler[h].pc = "find" /\ UNCHANGED stats
    BY <1>3 DEF FindStats
  <2>2. handler'[h].pc = "write" /\ \A g \in Handlers \ {h} : handler'[g] = handler[g]
    BY <2>1 DEF AutoTypeOK
  <2>3. BusyHandlers' = BusyHandlers
    BY <2>1, <2>2 DEF BusyHandlers
  <2>4. QED
    BY <1>3, <2>1, <2>3 DEF QueueOK, EventsAccountedFor
<1>4. ASSUME NEW h \in Handlers, UpdateStats(h), UNCHANGED <<queue, events, lost>>
      PROVE  QueueOK' /\ EventsAccountedFor'
  <2>1. /\ stats'.completedTodoEvents = stats.completedTodoEvents + 1
        /\ handler[h].pc # "idle" /\ handler' = [handler EXCEPT ![h] = IdleHandler]
    BY <1>4 DEF UpdateStats, UpdatedStats
  <2>2. /\ IsFiniteSet(BusyHandlers')
        /\ Cardinality(BusyHandlers) = Cardinality(BusyHandlers') + 1
    BY <2>1, OneLessBusy DEF QueueOK
  <2>3. Cardinality(BusyHandlers') \in Nat
    BY <2>2, FS_CardinalityType
  <2>4. QueueOK'
    BY <1>0, <1>4, <2>1, <2>2, <2>3 DEF QueueOK
  <2>5. EventsAccountedFor'
    BY <1>0, <1>4, <2>1, <2>2, <2>3 DEF EventsAccountedFor
  <2>6. QED
    BY <2>4, <2>5
<1>5. ASSUME NEW h \in Handlers, HandlerFails(h) PROVE QueueOK' /\ EventsAccountedFor'
  <2>1. /\ handler[h].pc # "idle" /\ handler' = [handler EXCEPT ![h] = IdleHandler]
        /\ lost' = lost + 1 /\ UNCHANGED <<queue, events, stats>>
    BY <1>5 DEF HandlerFails, DropEvent
  <2>2. /\ IsFiniteSet(BusyHandlers')
        /\ Cardinality(BusyHandlers) = Cardinality(BusyHandlers') + 1
    BY <2>1, OneLessBusy DEF QueueOK
  <2>3. Cardinality(BusyHandlers') \in Nat
    BY <2>2, FS_CardinalityType
  <2>4. QueueOK'
    BY <1>0, <2>1, <2>2, <2>3 DEF QueueOK
  <2>5. EventsAccountedFor'
    BY <1>0, <2>1, <2>2, <2>3 DEF EventsAccountedFor
  <2>6. QED
    BY <2>4, <2>5
<1>6. CASE Restart
  <2>1. /\ queue' = <<>> /\ handler' = [h \in Handlers |-> IdleHandler]
        /\ lost' = lost + Len(queue) + Cardinality(BusyHandlers)
        /\ UNCHANGED <<events, stats>>
    BY <1>6 DEF Restart
  <2>2. BusyHandlers' = {}
    BY <2>1, IdleTypes DEF BusyHandlers
  <2>3. IsFiniteSet(BusyHandlers') /\ Cardinality(BusyHandlers') = 0
    BY <2>2, FS_EmptySet
  <2>4. queue' \in Seq(Days) /\ Len(queue') = 0
    BY <2>1
  <2>5. QED
    BY <1>0, <2>1, <2>3, <2>4 DEF QueueOK, EventsAccountedFor
<1>7. ASSUME NEW w \in Workers, NEW t \in Todos, NEW wish \in Wishes, UpdateFind(w, t, wish)
      PROVE  QueueOK' /\ EventsAccountedFor'
  BY <1>7, SameBusy DEF UpdateFind, autoVars
<1>8. ASSUME NEW w \in Workers, UpdateWrite(w) \/ UpdateFail(w)
      PROVE  QueueOK' /\ EventsAccountedFor'
  BY <1>8, SameBusy DEF UpdateWrite, UpdateFail, autoVars
<1>9. ASSUME NEW t \in Todos, NEW completed \in BOOLEAN, Create(t, completed)
      PROVE  QueueOK' /\ EventsAccountedFor'
  BY <1>9, SameBusy DEF Create, autoVars
<1>10. ASSUME Midnight \/ UNCHANGED vars PROVE QueueOK' /\ EventsAccountedFor'
  BY <1>10, SameBusy DEF Midnight, vars, autoVars
<1>11. ASSUME NEW h \in Handlers, Handle(h) PROVE QueueOK' /\ EventsAccountedFor'
  BY <1>3, <1>4, <1>11 DEF Handle
<1>12. QED
  BY <1>1, <1>2, <1>5, <1>6, <1>7, <1>8, <1>9, <1>10, <1>11 DEF Next

\* Todos, queue, handlers and statistics agree in every state, restarts included.
THEOREM EventsInvariant == Spec => []EventsIInv
<1>1. Init => QueueOK /\ StreakIInv /\ ExactIInv /\ EventsAccountedFor
  <2> SUFFICES ASSUME Init PROVE QueueOK /\ StreakIInv /\ ExactIInv /\ EventsAccountedFor
    OBVIOUS
  <2>1. StreakIInv /\ ExactIInv
    BY AutoInitHolds DEF Init
  <2>2. BusyHandlers = {}
    BY IdleTypes DEF Init, AutoInit, BusyHandlers
  <2>3. IsFiniteSet(BusyHandlers) /\ Cardinality(BusyHandlers) = 0
    BY <2>2, FS_EmptySet
  <2>4. queue = <<>> /\ events = 0 /\ lost = 0 /\ stats.completedTodoEvents = 0
    BY DEF Init, AutoInit, NoStats
  <2>5. QED
    BY <2>1, <2>3, <2>4 DEF QueueOK, EventsAccountedFor
<1>2. QueueOK /\ StreakIInv /\ ExactIInv /\ EventsAccountedFor /\ RequestsOK /\ [Next]_vars
        => (QueueOK /\ StreakIInv /\ ExactIInv /\ EventsAccountedFor)'
  <2> SUFFICES ASSUME QueueOK, StreakIInv, ExactIInv, EventsAccountedFor, RequestsOK, [Next]_vars
               PROVE  (QueueOK /\ StreakIInv /\ ExactIInv /\ EventsAccountedFor)'
    OBVIOUS
  <2>1. StreakIInv' /\ ExactIInv'
    BY QueueMoves, StreakStep
  <2>2. AutoTypeOK
    BY DEF StreakIInv
  <2>3. QueueOK' /\ EventsAccountedFor'
    BY <2>2, EventsStep
  <2>4. QED
    BY <2>1, <2>3
<1>3. RequestsOK /\ QueueOK /\ StreakIInv /\ ExactIInv /\ EventsAccountedFor => EventsIInv
  BY DEF EventsIInv
<1>4. QED
  BY <1>1, <1>2, <1>3, RequestsCorrect, PTL DEF Spec

\* No event is counted twice or forgotten in silence (automation.service.ts:107-110).
THEOREM NoEventVanishes == Spec => []EventsAccountedFor
<1>1. EventsIInv => EventsAccountedFor
  BY DEF EventsIInv
<1>2. QED
  BY <1>1, EventsInvariant, PTL

\* Every variable of the todos, the queue and the handlers has its type.
THEOREM TypeCorrect == Spec => []TypeOK
<1>1. EventsIInv => TypeOK
  BY DEF EventsIInv, QueueOK, StreakIInv, TypeOK
<1>2. QED
  BY <1>1, EventsInvariant, PTL

\* The streaks hold for the events the todos really emit, through failures and restarts.
THEOREM StreaksOfTodos == Spec => [](StreakIsExact /\ StreakNeverOverstated)
<1>1. EventsIInv => StreakIsExact /\ StreakNeverOverstated
  BY IsExact, NeverOverstated DEF EventsIInv
<1>2. QED
  BY <1>1, EventsInvariant, PTL

\* The handlers alone keep their types as well.
THEOREM AutomationTypeCorrect == AutoSpec => []AutoTypeOK
<1>1. StreakIInv => AutoTypeOK
  BY DEF StreakIInv
<1>2. QED
  BY <1>1, StreaksInvariant, PTL
=============================================================================
