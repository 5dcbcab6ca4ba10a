-------------------------- MODULE MCServerProcess --------------------------
(* Four log entries, one of which is never movable, in batches of two, and *)
(* one user with enough timer ids that a fresh one is always at hand.      *)
EXTENDS ServerProcess

\* A delay the code skips, and one it arms.
MCDelays == {0, 1}
=============================================================================
