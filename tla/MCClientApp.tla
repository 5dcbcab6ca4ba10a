---------------------------- MODULE MCClientApp ----------------------------
(* A small instance of ClientApp: the pages are not filtered. *)
EXTENDS ClientApp, TLC

MCInit == AppInit /\ store.video = "none"

MCSpec == MCInit /\ [][AppStep({"addTodo"})]_appVars

Bounded == filter = NoFilter

Sym == Permutations(Tokens) \cup Permutations(Requests) \cup Permutations(Slots)
=============================================================================
