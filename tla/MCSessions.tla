---------------------------- MODULE MCSessions ----------------------------
EXTENDS Sessions, TLC
Sym == Permutations(Workers) \cup Permutations(Clients)
=============================================================================
