----------------------------- MODULE RemoteCall -----------------------------
(***************************************************************************)
(* What an operation of the client with retries amounts to for its caller  *)
(* and for the host: an at-least-once call.  The host may carry it out     *)
(* several times, at most Limit times, possibly after the call has ended;  *)
(* success is reported only when it has been carried out at least once; an *)
(* error says nothing.                                                     *)
(*                                                                         *)
(* This is the abstract specification.  Transport implements it.           *)
(***************************************************************************)
EXTENDS Naturals

CONSTANT Limit   \* how often the host may carry the operation out

VARIABLES
  effects,   \* how often the host has carried it out
  result     \* "none" until the call ends, then "ok" or "error"

Init == effects = 0 /\ result = "none"

Execute ==
  /\ effects < Limit
  /\ effects' = effects + 1
  /\ UNCHANGED result

Succeed ==
  /\ result = "none"
  /\ effects > 0
  /\ result' = "ok"
  /\ UNCHANGED effects

GiveUp ==
  /\ result = "none"
  /\ result' = "error"
  /\ UNCHANGED effects

Next == Execute \/ Succeed \/ GiveUp

Spec == Init /\ [][Next]_<<effects, result>>
=============================================================================
