------------------------------- MODULE MCPool -------------------------------
(***************************************************************************)
(* Pool for TLC.  Callers, transports and connections are interchangeable, *)
(* which the runs without liveness properties use.                         *)
(***************************************************************************)
EXTENDS Pool, TLC

Symmetry ==
  Permutations(Callers) \cup Permutations(Transports) \cup Permutations(Conns)
=============================================================================
