----------------------------- MODULE MCSettings -----------------------------
(* Settings for TLC: goroutines and values other than zero are interchangeable. *)
EXTENDS Settings, TLC

Symmetry == Permutations(Clients) \cup Permutations(NonZero)
=============================================================================
