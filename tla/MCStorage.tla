----------------------------- MODULE MCStorage -----------------------------
(* Storage for TLC: the goroutines and the locations are interchangeable. *)
EXTENDS Storage, TLC

Symmetry == Permutations(Clients) \cup Permutations(Locations)
=============================================================================
