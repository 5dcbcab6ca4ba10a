------------------------------ MODULE MCPages ------------------------------
(***************************************************************************)
(* A small instance of Pages.  A behaviour takes the handlers of one kind  *)
(* of data: no handler reads or writes what those of another kind do.  The *)
(* modal, which only the spinner knows, is left to MCClientApp.            *)
(***************************************************************************)
EXTENDS Pages, TLC

VARIABLE handlers   \* of todos, users or videos

MCInit ==
    /\ PagesInit
    /\ handlers \in {TodoChanges, UserChanges, VideoChanges}
    /\ handlers # VideoChanges => store.video = "none"

MCSpec ==
    /\ MCInit
    /\ [][PagesStep(handlers) /\ UNCHANGED handlers]_<<pagesVars, handlers>>

Bounded == ~confirming

Sym == Permutations(Slots)
=============================================================================
