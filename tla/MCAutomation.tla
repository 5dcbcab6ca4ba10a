---------------------------- MODULE MCAutomation ----------------------------
(* A small instance of Automation on its own, without the bus. *)
EXTENDS Automation
=============================================================================
