---------------------------- MODULE MCTodoEvents ----------------------------
(***************************************************************************)
(* A small instance of TodoEvents.  A behaviour is one of the todos, over  *)
(* two days, or one of the handlers alone, which get events of any of five *)
(* days in any order.                                                      *)
(***************************************************************************)
EXTENDS TodoEvents, TLC

VARIABLE alone  \* the handlers alone

Arrives(h, day) ==
    /\ Arrive(h, day)
    /\ events' = events + 1
    /\ UNCHANGED <<todos, request, queue, today, emitted, lost, overlapped>>

HandlersNext == \E h \in Handlers :
    \/ \E day \in Days : Arrives(h, day)
    \/ Handle(h) \/ HandlerFails(h)
    \/ Restart

MCInit == Init /\ alone \in BOOLEAN

MCSpec ==
    /\ MCInit
    /\ [][IF alone THEN HandlersNext /\ UNCHANGED alone
                   ELSE Next /\ UNCHANGED alone]_<<vars, alone>>

\* Bounds: days and events of the todos, events of the handlers alone.
Bounded ==
    IF alone THEN events <= MaxEvents
    ELSE today <= 2 /\ events + Cardinality({w \in Workers : request[w].pc # "idle"}) <= 3

Sym == Permutations(Todos) \cup Permutations(Workers) \cup Permutations(Handlers)
=============================================================================
