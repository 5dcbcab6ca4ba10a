---------------------------- MODULE MCAdminUsers ----------------------------
(* Small instances of AdminUsers. *)
EXTENDS AdminUsers, TLC

\* Accounts are interchangeable as long as all of them start as admins.
Sym == Permutations(Users)
=============================================================================
