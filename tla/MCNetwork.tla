----------------------------- MODULE MCNetwork -----------------------------
(* Network for TLC: the goroutines and the names are interchangeable. *)
EXTENDS Network, TLC

Symmetry == Permutations(Admins) \cup Permutations(Adapters) \cup Permutations(Names)
=============================================================================
