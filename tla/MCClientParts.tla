---------------------------- MODULE MCClientParts ----------------------------
(***************************************************************************)
(* Three models that share no state, each on its own: AuthContext with the *)
(* interceptor, the radio's widget, and the statistics that the server     *)
(* answers to the dashboard.  A behaviour is one of a single part.         *)
(***************************************************************************)
EXTENDS ClientAuth, RadioWidget, TodoStats, TLC

VARIABLE part

OfAuth == part = "auth" /\ UNCHANGED <<part, radioVars, statsVars>>
OfRadio == part = "radio" /\ UNCHANGED <<part, vars, statsVars>>
OfStats == part = "stats" /\ UNCHANGED <<part, vars, radioVars>>

MCInit ==
    /\ part \in {"auth", "radio", "stats"}
    /\ Init /\ StatsInit
    /\ RadioInit /\ (part # "radio" => saved = Nowhere)

MCSpec ==
    /\ MCInit
    /\ [][ \/ OfAuth /\ Next
           \/ OfRadio /\ RadioNext
           \/ OfStats /\ StatsNext ]_<<part, vars, radioVars, statsVars>>

\* Two updates are under way at once only between the calls of the statistics.
Bounded == UnderWay => Cardinality({u \in Updates : update[u].todo # NoTodo}) <= 1

Sym == Permutations(Tokens) \cup Permutations(Requests) \cup Permutations(Updates)
=============================================================================
