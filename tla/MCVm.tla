-------------------------------- MODULE MCVm --------------------------------
(* Vm for TLC: the goroutines are interchangeable. *)
EXTENDS Vm, TLC

Symmetry == Permutations(Clients)
=============================================================================
