--------------------------- MODULE TransportProofs ---------------------------
(***************************************************************************)
(* Theorems about Transport, for any set of operations and any argument of *)
(* WithRetry, negative ones included.                                      *)
(*                                                                         *)
(* Control is the inductive invariant: it says which copies of the request *)
(* may be on the wire, and what is known of the copy of the current        *)
(* attempt, at each place of the code.                                     *)
(***************************************************************************)
EXTENDS Transport, FiniteSetTheorems, TLAPS

\* Copies are sent in the order of the attempts, one for each.
OnlyPastSent == \A i \in Attempts : i > attempt => req[i] = "unsent"

\* What the place in the code says about the current attempt.
Control ==
  /\ result = "none" <=> pc # "returned"
  /\ pc = "start" => attempt = 0 /\ \A i \in Attempts : req[i] = "unsent"
  /\ pc = "send" => attempt \in Attempts /\ req[attempt] = "unsent"
  /\ pc \in {"headers", "body"} => attempt \in Attempts
  /\ pc = "body" => req[attempt] \in Answered
  /\ pc = "backoff" => attempt < MaxRetries
  /\ pc = "parse" /\ MaxRetries >= 0 =>
       attempt \in Attempts /\ req[attempt] \in Answered
  /\ result = "ok" /\ attempt \in Attempts =>
       req[attempt] \in Answered \ {"fault"}

Inv == TypeOK /\ OnlyPastSent /\ Control

LEMMA InitInv == Init => Inv
<1> SUFFICES ASSUME Init PROVE Inv
  OBVIOUS
<1>1. TypeOK
  BY DEF Init, TypeOK, PCs, Fates
<1>2. OnlyPastSent /\ Control
  BY DEF Init, OnlyPastSent, Control
<1>. QED
  BY <1>1, <1>2 DEF Inv

\* Every step keeps Inv: the client's by what they test, the host's because
\* an answer, once given, does not change.
LEMMA NextInv == Inv /\ [Next]_vars => Inv'
<1> SUFFICES ASSUME Inv, [Next]_vars PROVE Inv'
  OBVIOUS
<1> USE TransportAssumption
    DEF Inv, TypeOK, OnlyPastSent, Control, PCs, Fates, Answered, Refusals,
        Attempts, Move, Return
<1>1. CASE Cancel
  BY <1>1 DEF Cancel
<1>2. CASE Enter
  BY <1>2 DEF Enter
<1>3. CASE Request
  BY <1>3 DEF Request
<1>4. CASE Headers
  BY <1>4 DEF Headers
<1>5. CASE ReadBody
  BY <1>5 DEF ReadBody
<1>6. CASE Fail
  BY <1>6 DEF Fail
<1>7. CASE BackoffOver
  BY <1>7 DEF BackoffOver
<1>8. CASE BackoffCancelled
  BY <1>8 DEF BackoffCancelled
<1>9. CASE Parse
  BY <1>9 DEF Parse, Parses
<1>10. ASSUME NEW i \in Attempts, NEW fate \in Answered \cup {"lost"}, Serve(i, fate)
       PROVE  Inv'
  BY <1>10 DEF Serve
<1>11. CASE HostNext
  BY <1>10, <1>11 DEF HostNext, Execute, Refuse, Lose
<1>12. CASE UNCHANGED vars
  BY <1>12 DEF vars
<1>. QED
  BY <1>1, <1>2, <1>3, <1>4, <1>5, <1>6, <1>7, <1>8, <1>9, <1>11, <1>12
     DEF Next, ClientNext

LEMMA AlwaysInv == SafetySpec => []Inv
BY InitInv, NextInv, PTL DEF SafetySpec

\* The variables of Transport have their types; in particular no more copies
\* are sent than WithRetry allows.
THEOREM TypeCorrect == SafetySpec => []TypeOK
BY AlwaysInv, PTL DEF Inv

\* A Fault is never taken for success, by any operation.
THEOREM FaultsAlwaysReported == SafetySpec => []FaultsReported
<1>1. Inv => FaultsReported
  BY DEF Inv, Control, FaultsReported
<1>. QED
  BY AlwaysInv, <1>1, PTL

----------------------------------------------------------------------------
LEMMA InitDone == Init => SuccessMeansDone
BY DEF Init, SuccessMeansDone

LEMMA NextDone == Inv /\ SuccessMeansDone /\ [Next]_vars => SuccessMeansDone'
<1> SUFFICES ASSUME Inv, SuccessMeansDone, [Next]_vars
             PROVE  SuccessMeansDone'
  OBVIOUS
<1> USE DEF SuccessMeansDone
<1>1. ASSUME Parse PROVE SuccessMeansDone'
  <2>1. result' = "ok" /\ op # "delete" =>
          MaxRetries >= 0 /\ req[attempt] = "executed"
    BY <1>1 DEF Parse, Parses, Return
  <2>. QED
    BY <1>1, <2>1 DEF Parse, Inv, Control
<1>2. ASSUME Cancel \/ Enter \/ Request \/ Headers \/ ReadBody \/ Fail
             \/ BackoffOver \/ BackoffCancelled
      PROVE  SuccessMeansDone'
  BY <1>2 DEF Inv, Control, Cancel, Enter, Request, Headers, ReadBody, Fail,
              BackoffOver, BackoffCancelled, Move, Return
<1>3. ASSUME HostNext PROVE SuccessMeansDone'
  BY <1>3 DEF Inv, TypeOK, HostNext, Execute, Refuse, Lose, Serve
<1>4. CASE UNCHANGED vars
  BY <1>4 DEF vars
<1>. QED
  BY <1>1, <1>2, <1>3, <1>4 DEF Next, ClientNext

\* Success of any operation but Delete means that the host carried it out in
\* the attempt whose answer was read.
THEOREM SuccessAlwaysMeansDone == SafetySpec => []SuccessMeansDone
BY AlwaysInv, InitDone, NextDone, PTL DEF SafetySpec

----------------------------------------------------------------------------
\* After a success in the first attempt no copy of the request is left on the
\* wire; for every operation, Delete included.
THEOREM FirstTimeSuccessIsFinal == SafetySpec => QuietAfterFirstTimeSuccess
<1>1. Inv /\ [Next]_vars => (result = "ok" /\ attempt = 0 => UNCHANGED req)
  <2> SUFFICES ASSUME Inv, [Next]_vars, result = "ok", attempt = 0
               PROVE  UNCHANGED req
    OBVIOUS
  <2>1. pc = "returned" /\ \A i \in Attempts : req[i] # "sent"
    BY TransportAssumption
       DEF Inv, TypeOK, PCs, Control, OnlyPastSent, Attempts, Answered, Refusals
  <2>. QED
    BY <2>1 DEF Next, ClientNext, HostNext, vars, Cancel, Enter, Request, Headers,
                ReadBody, Fail, BackoffOver, BackoffCancelled, Parse, Execute,
                Refuse, Lose, Serve, Move
<1>. QED
  BY AlwaysInv, <1>1, PTL DEF SafetySpec, QuietAfterFirstTimeSuccess

----------------------------------------------------------------------------
\* Executed is finite and no larger than the number of attempts.
LEMMA AttemptsFinite == IsFiniteSet(Attempts) /\ Cardinality(Attempts) \in Nat
                        /\ (MaxRetries >= 0 => Cardinality(Attempts) = MaxRetries + 1)
<1>1. IsFiniteSet(0 .. MaxRetries)
  BY TransportAssumption, FS_Interval
<1>2. MaxRetries >= 0 => Cardinality(0 .. MaxRetries) = MaxRetries + 1
  BY TransportAssumption, FS_Interval
<1>. QED
  BY <1>1, <1>2, FS_CardinalityType DEF Attempts

LEMMA ExecuteCounts ==
  ASSUME Inv, NEW i \in Attempts, Execute(i)
  PROVE  /\ Cardinality(Executed) < MaxRetries + 1
         /\ Cardinality(Executed') = Cardinality(Executed) + 1
<1>1. Executed' = Executed \cup {i} /\ i \notin Executed
  BY DEF Inv, TypeOK, Execute, Serve, Executed
<1>2. IsFiniteSet(Executed)
  BY AttemptsFinite, FS_Subset DEF Executed
<1>3. Cardinality(Executed \cup {i}) = Cardinality(Executed) + 1
  BY <1>1, <1>2, FS_AddElement
<1>4. Executed \cup {i} \in SUBSET Attempts
  BY DEF Executed
<1>5. Cardinality(Executed \cup {i}) <= Cardinality(Attempts)
  BY <1>4, AttemptsFinite, FS_Subset
<1>6. MaxRetries >= 0
  BY TransportAssumption DEF Attempts
<1>7. Cardinality(Executed) \in Nat
  BY <1>2, FS_CardinalityType
<1>8. Cardinality(Executed) < MaxRetries + 1
  BY <1>3, <1>5, <1>6, <1>7, AttemptsFinite, TransportAssumption
<1>. QED
  BY <1>1, <1>3, <1>8

\* The steps that are not Execute leave the set of executed copies as it is.
LEMMA OthersDoNotCount ==
  ASSUME Inv, [Next]_vars, \A i \in Attempts : ~Execute(i)
  PROVE  Executed' = Executed
<1> USE DEF Inv, TypeOK, Executed, Move, Attempts
<1>1. CASE Request
  BY <1>1 DEF Request, Control
<1>2. CASE Cancel \/ Enter \/ Headers \/ ReadBody \/ Fail \/ BackoffOver
           \/ BackoffCancelled \/ Parse \/ UNCHANGED vars
  BY <1>2 DEF Cancel, Enter, Headers, ReadBody, Fail, BackoffOver,
              BackoffCancelled, Parse, vars
<1>3. ASSUME NEW i \in Attempts, Refuse(i) \/ Lose(i) PROVE Executed' = Executed
  BY <1>3 DEF Refuse, Lose, Serve, Refusals
<1>. QED
  BY <1>1, <1>2, <1>3 DEF Next, ClientNext, HostNext

\* What the steps do to the result, and to what it is worth.
LEMMA ResultSteps ==
  ASSUME Inv, [Next]_vars
  PROVE  \/ Worth' = Worth
         \/ Worth = "none" /\ Worth' = "error"
         \/ Worth = "none" /\ Worth' = "ok" /\ result' = "ok" /\ op' # "delete"
<1>1. /\ op' = op
      /\ result' = result \/ (result = "none" /\ result' \in {"error", "ok"})
  BY DEF Next, ClientNext, HostNext, vars, Cancel, Enter, Request, Headers,
         ReadBody, Fail, BackoffOver, BackoffCancelled, Parse, Execute, Refuse,
         Lose, Serve, Move, Return, Inv, Control
<1>. QED
  BY <1>1 DEF Worth

\* Every operation implements RemoteCall: it is carried out at most once per
\* attempt, and at least once when it reports a success that is worth it.
THEOREM TransportImplementsRemoteCall == SafetySpec => ImplementsRemoteCall
<1> DEFINE effects == Cardinality(Executed)
<1>1. Init => Call!Init
  <2> SUFFICES ASSUME Init PROVE Call!Init
    OBVIOUS
  <2>1. Executed = {}
    BY DEF Init, Executed, Attempts
  <2>2. Cardinality({}) = 0
    BY FS_EmptySet
  <2>3. Worth = "none"
    BY DEF Init, Worth
  <2>. QED
    BY <2>1, <2>2, <2>3 DEF Call!Init
<1>2. Inv /\ SuccessMeansDone' /\ [Next]_vars => [Call!Next]_<<effects, Worth>>
  <2> SUFFICES ASSUME Inv, SuccessMeansDone', [Next]_vars
               PROVE  Call!Next \/ (effects' = effects /\ Worth' = Worth)
    OBVIOUS
  <2>1. ASSUME NEW i \in Attempts, Execute(i) PROVE Call!Execute
    <3>1. Worth' = Worth
      BY <2>1 DEF Execute, Serve, Worth
    <3>. QED
      BY <2>1, <3>1, ExecuteCounts DEF Call!Execute
  <2>2. CASE \A i \in Attempts : ~Execute(i)
    <3>1. Executed' = Executed
      BY <2>2, OthersDoNotCount
    <3>2. CASE Worth = "none" /\ Worth' = "ok" /\ result' = "ok" /\ op' # "delete"
      <4>1. Executed # {}
        BY <3>1, <3>2 DEF SuccessMeansDone, Executed, Attempts
      <4>2. IsFiniteSet(Executed)
        BY AttemptsFinite, FS_Subset DEF Executed
      <4>3. Cardinality(Executed) > 0
        BY <4>1, <4>2, FS_CardinalityType, FS_EmptySet
      <4>. QED
        BY <3>1, <3>2, <4>3 DEF Call!Next, Call!Succeed
    <3>. QED
      BY <3>1, <3>2, ResultSteps DEF Call!Next, Call!GiveUp
  <2>. QED
    BY <2>1, <2>2 DEF Call!Next
<1>3. SafetySpec => []SuccessMeansDone
  BY SuccessAlwaysMeansDone
<1>. QED
  BY <1>1, <1>2, <1>3, AlwaysInv, PTL DEF SafetySpec, ImplementsRemoteCall, Call!Spec

\* A success was carried out, Delete excepted, and a Fault is an error, however
\* many attempts were made (transport.go:120-124, fault.go:85).
THEOREM OutcomeAlwaysTrue == SafetySpec => []OutcomeTrue
BY SuccessAlwaysMeansDone, FaultsAlwaysReported, PTL DEF OutcomeTrue
=============================================================================
