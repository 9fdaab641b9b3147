----------------------------- MODULE Semaphore -----------------------------
(***************************************************************************)
(* What a pooled client promises its callers (wsman/pool.go:38-45): at     *)
(* most Size requests are under way at a time, and a caller that wants to  *)
(* send waits outside until there is room or until it gives up.            *)
(*                                                                         *)
(* This is the abstract specification.  Pool implements it: see PoolSem in *)
(* Pool.tla and the theorem PoolImplementsSemaphore in PoolProofs.tla.     *)
(***************************************************************************)
EXTENDS Naturals, FiniteSets

CONSTANTS
  Callers,   \* the goroutines that share the client
  Size       \* the number of requests allowed in at a time

VARIABLE phase   \* phase[c]: where caller c stands

Inside == { c \in Callers : phase[c] = "in" }

Init == phase = [c \in Callers |-> "out"]

Move(c, from, to) ==
  /\ phase[c] = from
  /\ phase' = [phase EXCEPT ![c] = to]

Want(c) == Move(c, "out", "want")

Enter(c) ==
  /\ Cardinality(Inside) < Size
  /\ Move(c, "want", "in")

GiveUp(c) == Move(c, "want", "out")

Leave(c) == Move(c, "in", "out")

Next == \E c \in Callers : Want(c) \/ Enter(c) \/ GiveUp(c) \/ Leave(c)

Spec == Init /\ [][Next]_phase

\* Every caller that waits for a place ends its call.
EveryWaitEnds == \A c \in Callers : phase[c] = "want" ~> phase[c] = "out"
=============================================================================
