----------------------------- MODULE MCGateway -----------------------------
(* Two users in two browsers, and a third socket id: a tab can connect     *)
(* again before the server notices that its old socket is gone.            *)
EXTENDS Gateway, TLC

Sym == Permutations(Users) \cup Permutations(Tabs) \cup Permutations(Sockets)
=============================================================================
