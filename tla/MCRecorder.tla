----------------------------- MODULE MCRecorder -----------------------------
(* Recorder for TLC: round trips and calls are interchangeable. *)
EXTENDS Recorder, TLC

Symmetry == Permutations(Trips) \cup Permutations(Stops)
=============================================================================
