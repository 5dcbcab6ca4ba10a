---------------------------- MODULE MCServerLive ----------------------------
(***************************************************************************)
(* Two handlers of the server that have to come to an end, each on its     *)
(* own: a behaviour is one of the sessions or one of the radio's reader.   *)
(* The reader meets every stream of up to three blocks, each empty,        *)
(* untitled or titled, and of one or two units; bytes that are no length   *)
(* bytes look like one of a titled block, so that a reader out of step     *)
(* shows.                                                                  *)
(***************************************************************************)
EXTENDS Sessions, IcyMetadata, Sequences

Block == {[units |-> 0, title |-> NoTitle], [units |-> 1, title |-> NoTitle],
          [units |-> 1, title |-> "song"], [units |-> 2, title |-> "news"]}

Blocks == UNION {[1..n -> Block] : n \in 0..3}
MCStations == [blocks: Blocks, metaint: {1, 3}]

StreamFor(blocks, metaint) ==
    LET n == Len(blocks)
        start[i \in 1..(n + 1)] ==
            IF i = 1 THEN metaint
            ELSE start[i - 1] + blocks[i - 1].units * Unit + 1 + metaint
        IsMark(p) == \E i \in 1..n : start[i] = p
        BlockAt(p) == blocks[CHOOSE i \in 1..n : start[i] = p]
        positions == 0..(start[n + 1] - 1)
    IN [metaint |-> metaint, end |-> start[n + 1],
        marks |-> {start[i] : i \in 1..n},
        byte |-> [p \in positions |-> IF IsMark(p) THEN BlockAt(p).units ELSE 1],
        title |-> [p \in positions |-> IF IsMark(p) THEN BlockAt(p).title ELSE "noise"]]

MCStreamOf == [s \in MCStations |-> StreamFor(s.blocks, s.metaint)]

-----------------------------------------------------------------------------
VARIABLE part

OfSessions == part = "sessions" /\ UNCHANGED <<part, icyVars>>
OfReader == part = "reader" /\ UNCHANGED <<part, vars>>

MCInit ==
    /\ part \in {"sessions", "reader"} /\ Init /\ IcyInit
    /\ part = "sessions" => station = CHOOSE s \in MCStations : TRUE

\* Nothing that is fair in one part can happen in the first state of it, where it stays
\* while the other part runs.
MCSpec ==
    /\ MCInit
    /\ [][(OfSessions /\ Next) \/ (OfReader /\ IcyNext)]_<<part, vars, icyVars>>
    /\ Fairness
    /\ WF_icyVars(Timeout) /\ WF_icyVars(InnerLoop)
=============================================================================
