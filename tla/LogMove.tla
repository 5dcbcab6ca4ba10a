------------------------------ MODULE LogMove ------------------------------
(***************************************************************************)
(* What archiving promises of every log entry: it is written once, stays   *)
(* in the logs until it is old, and then moves to the archive in one step. *)
(* LogArchive implements this with batches, copies and deletions.          *)
(***************************************************************************)
CONSTANTS Logs, Movable

VARIABLES place, old

moveVars == <<place, old>>

Places == {"unwritten", "logs", "archive"}

MoveInit ==
    /\ place = [l \in Logs |-> "unwritten"]
    /\ old = {}

MoveWrite(l) ==
    /\ place[l] = "unwritten"
    /\ place' = [place EXCEPT ![l] = "logs"]
    /\ UNCHANGED old

MoveAge(l) ==
    /\ old' = old \cup {l}
    /\ UNCHANGED place

MoveBatch(batch) ==
    /\ \A l \in batch : place[l] \in {"logs", "archive"}
    /\ place' = [l \in Logs |-> IF l \in batch THEN "archive" ELSE place[l]]
    /\ UNCHANGED old

MoveNext ==
    \/ \E l \in Logs : MoveWrite(l) \/ MoveAge(l)
    \/ \E batch \in SUBSET (old \cap Movable) : MoveBatch(batch)

MoveSpec == MoveInit /\ [][MoveNext]_moveVars
=============================================================================
