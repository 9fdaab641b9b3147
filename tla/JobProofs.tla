------------------------------ MODULE JobProofs ------------------------------
(***************************************************************************)
(* Theorems about JobWait, for any argument of WithMaxPollErrors, and      *)
(* about Vm, for any number of goroutines and of requests.                 *)
(*                                                                         *)
(* JobWait.  Known says what the goroutine knows of the job, which never   *)
(* changes once it has ended.  Streak ties consecErrors to the polls of    *)
(* the past: it counts exactly the failures since the last poll that       *)
(* succeeded.                                                              *)
(*                                                                         *)
(* Vm.  WorkSound says what the host has begun on, CallSound what each     *)
(* goroutine knows of its last call.  A number of the host's is used once, *)
(* so that what is said of a request that has been carried out stays true: *)
(* Steady says so of every step, and CallSound survives the steps of the   *)
(* others by it.                                                           *)
(***************************************************************************)
EXTENDS JobWait, Vm, TLAPS

Typed ==
  /\ TypeOK
  /\ Len(recent) <= Tolerated + 1

\* What has been seen of the job is still true, and so is the verdict.
Known ==
  /\ verdict = "none" <=> pc # "returned"
  /\ ref = "nil" => job = "completed"
  /\ seen \in {"completed", "failed"} => seen = job
  /\ verdict = "ok" => job = "completed"
  /\ verdict = "failed" => job = "failed"

\* consecErrors counts the failures at the end of the record of polls; where
\* the record is longer, a success comes before them.
Streak ==
  /\ pc \notin {"returned"} => errs <= Tolerated
  /\ ref = "job" /\ verdict = "unknown" /\ ~done => errs = Tolerated + 1
  /\ pc # "returned" \/ ~done =>
       /\ errs <= Len(recent)
       /\ \A i \in 1 .. Len(recent) : i > Len(recent) - errs => recent[i] = "error"
       /\ errs < Len(recent) => recent[Len(recent) - errs] = "state"

Inv == Typed /\ Known /\ Streak

LEMMA ToleratedNat == Tolerated \in Nat
BY JobWaitAssumption DEF Tolerated

\* Remember appends the outcome and forgets at most the oldest one.
LEMMA Remembered ==
  ASSUME Typed, NEW outcome \in {"error", "state"}, Remember(outcome)
  PROVE  /\ recent' \in Seq({"error", "state"})
         /\ Len(recent') = IF Len(recent) = Tolerated + 1 THEN Len(recent)
                           ELSE Len(recent) + 1
         /\ recent'[Len(recent')] = outcome
         /\ \A i \in 1 .. Len(recent') - 1 :
              recent'[i] = recent[i + (Len(recent) + 1 - Len(recent'))]
<1> DEFINE all == Append(recent, outcome)
<1>1. recent \in Seq({"error", "state"}) /\ Len(recent) \in Nat
  BY DEF Typed, TypeOK
<1>2. /\ all \in Seq({"error", "state"})
      /\ Len(all) = Len(recent) + 1
      /\ all[Len(recent) + 1] = outcome
      /\ \A i \in 1 .. Len(recent) : all[i] = recent[i]
  BY <1>1
<1>3. recent' = IF Len(all) > Tolerated + 1 THEN Tail(all) ELSE all
  BY DEF Remember
<1> HIDE DEF all
<1>4. /\ Tail(all) \in Seq({"error", "state"})
      /\ Len(Tail(all)) = Len(recent)
      /\ \A i \in 1 .. Len(recent) : Tail(all)[i] = all[i + 1]
  BY <1>1, <1>2
<1>5. CASE Len(recent) = Tolerated + 1
  <2>1. recent' = Tail(all)
    BY <1>2, <1>3, <1>5, ToleratedNat
  <2>. QED
    BY <2>1, <1>1, <1>2, <1>4, <1>5, ToleratedNat
<1>6. CASE Len(recent) # Tolerated + 1
  <2>1. recent' = all
    BY <1>1, <1>2, <1>3, <1>6, ToleratedNat DEF Typed
  <2>. QED
    BY <2>1, <1>1, <1>2, <1>6, ToleratedNat DEF Typed
<1>. QED
  BY <1>5, <1>6

LEMMA InitInv == Init => Inv
<1> SUFFICES ASSUME Init PROVE Inv
  OBVIOUS
<1>1. recent = << >> /\ Len(recent) = 0 /\ recent \in Seq({"error", "state"})
  BY DEF Init
<1>2. errs \in 0 .. Tolerated + 1 /\ Len(recent) <= Tolerated + 1
  BY <1>1, ToleratedNat DEF Init
<1>5. Typed
  BY <1>1, <1>2 DEF Init, Typed, TypeOK, PCs, JobStates
<1>3. Known
  BY DEF Init, Known
<1>4. Streak
  BY <1>1, ToleratedNat DEF Init, Streak
<1>. QED
  BY <1>3, <1>4, <1>5 DEF Inv

\* The two steps that look at the answer of a poll keep the types.
LEMMA LooksTyped ==
  ASSUME Inv, OnError \/ OnState
  PROVE  Typed'
<1>1. errs' \in 0 .. Tolerated + 1
  BY ToleratedNat DEF Inv, Typed, TypeOK, Streak, OnError, OnState
<1>2. recent' \in Seq({"error", "state"}) /\ Len(recent') <= Tolerated + 1
  BY Remembered, ToleratedNat DEF Inv, Typed, TypeOK, OnError, OnState
<1>. QED
  BY <1>1, <1>2 DEF Inv, Typed, TypeOK, PCs, OnError, OnState, Return, Tolerated

LEMMA NextTyped == Inv /\ [Next]_vars => Typed'
<1> SUFFICES ASSUME Inv, [Next]_vars PROVE Typed'
  OBVIOUS
<1>1. CASE OnError \/ OnState
  BY <1>1, LooksTyped
<1>2. CASE Deadline \/ Enter \/ Ask \/ Answer \/ PollFails \/ Tick \/ Expire
           \/ JobEnds \/ JobRemoved \/ UNCHANGED vars
  BY <1>2 DEF Inv, Typed, TypeOK, PCs, JobStates, Tolerated, Deadline, Enter, Ask,
              Answer, PollFails, Tick, Expire, JobEnds, JobRemoved, vars, Move, Return
<1>. QED
  BY <1>1, <1>2 DEF Next, WaitNext

\* What was seen of a job that has ended stays true: jobs end once.
LEMMA NextKnown == Inv /\ [Next]_vars => Known'
<1> SUFFICES ASSUME Inv, [Next]_vars PROVE Known'
  OBVIOUS
<1> USE DEF Inv, Typed, TypeOK, Known, JobStates, PCs, Move, Return
<1>1. CASE OnError
  BY <1>1 DEF OnError
<1>2. CASE OnState
  BY <1>2 DEF OnState
<1>3. CASE Answer \/ PollFails
  BY <1>3 DEF Answer, PollFails
<1>4. CASE JobEnds
  BY <1>4 DEF JobEnds
<1>5. CASE Deadline \/ Enter \/ Ask \/ Tick \/ Expire \/ JobRemoved \/ UNCHANGED vars
  BY <1>5 DEF Deadline, Enter, Ask, Tick, Expire, JobRemoved, vars
<1>. QED
  BY <1>1, <1>2, <1>3, <1>4, <1>5 DEF Next, WaitNext

\* A streak that grows by one covers the same old positions, shifted when the
\* oldest outcome was forgotten.
LEMMA ShiftedStreak ==
  ASSUME NEW len \in Nat, NEW newlen \in Nat, NEW e \in Nat,
         newlen = len \/ newlen = len + 1
  PROVE  /\ (newlen - (e + 1)) + (len + 1 - newlen) = len - e
         /\ \A i \in 1 .. newlen - 1 : i > newlen - (e + 1) =>
              /\ i + (len + 1 - newlen) \in 1 .. len
              /\ i + (len + 1 - newlen) > len - e
OBVIOUS

LEMMA NextStreak == Inv /\ [Next]_vars => Streak'
<1> SUFFICES ASSUME Inv, [Next]_vars PROVE Streak'
  OBVIOUS
<1> USE ToleratedNat
<1>0. Len(recent) \in Nat /\ errs \in Nat
  BY DEF Inv, Typed, TypeOK
<1>1. CASE OnError
  <2>1. pc = "answered" /\ Remember("error")
    BY <1>1 DEF OnError
  <2>2. CASE done
    BY <1>1, <2>2 DEF OnError, Return, Streak, Inv, Typed, TypeOK
  <2>3. CASE ~done
    <3>1. errs' = errs + 1 /\ ~done'
      BY <1>1, <2>3 DEF OnError, Inv, Typed, TypeOK
    <3>2. pc' # "returned" => errs' <= Tolerated
      BY <1>0, <1>1, <2>3, <3>1, JobWaitAssumption DEF OnError, Return, Tolerated
    <3>3. verdict' = "unknown" => errs' = Tolerated + 1
      BY <1>0, <1>1, <2>1, <2>3, <3>1, JobWaitAssumption
         DEF OnError, Return, Tolerated, Inv, Streak, Known
    <3>4. /\ errs <= Len(recent)
          /\ errs <= Tolerated
          /\ \A i \in 1 .. Len(recent) : i > Len(recent) - errs => recent[i] = "error"
          /\ errs < Len(recent) => recent[Len(recent) - errs] = "state"
      BY <2>1 DEF Inv, Streak
    <3>5. /\ Len(recent') = IF Len(recent) = Tolerated + 1 THEN Len(recent)
                            ELSE Len(recent) + 1
          /\ recent'[Len(recent')] = "error"
          /\ \A i \in 1 .. Len(recent') - 1 :
               recent'[i] = recent[i + (Len(recent) + 1 - Len(recent'))]
      BY <2>1, Remembered DEF Inv
    <3>6. Len(recent') \in Nat /\ errs' <= Len(recent')
      BY <1>0, <3>1, <3>4, <3>5
    <3>7. ASSUME NEW i \in 1 .. Len(recent'), i > Len(recent') - errs'
          PROVE  recent'[i] = "error"
      <4>1. CASE i = Len(recent')
        BY <4>1, <3>5
      <4>2. CASE i # Len(recent')
        <5>1. i \in 1 .. Len(recent') - 1
          BY <4>2, <1>0, <3>5
        <5>2. recent'[i] = recent[i + (Len(recent) + 1 - Len(recent'))]
          BY <5>1, <3>5
        <5>3. /\ i + (Len(recent) + 1 - Len(recent')) \in 1 .. Len(recent)
              /\ i + (Len(recent) + 1 - Len(recent')) > Len(recent) - errs
          BY <5>1, <3>7, <1>0, <3>1, <3>5, <3>6, ShiftedStreak
        <5>. QED
          BY <5>2, <5>3, <3>4
      <4>. QED
        BY <4>1, <4>2
    <3>8. ASSUME errs' < Len(recent')
          PROVE  recent'[Len(recent') - errs'] = "state"
      <4>1. Len(recent') - errs' \in 1 .. Len(recent') - 1
        BY <3>8, <1>0, <3>1, <3>5
      <4>2. (Len(recent') - errs') + (Len(recent) + 1 - Len(recent')) = Len(recent) - errs
        BY <1>0, <3>1, <3>5, <3>6, ShiftedStreak
      <4>3. errs < Len(recent)
        BY <3>8, <1>0, <3>1, <3>5
      <4>. QED
        BY <4>1, <4>2, <4>3, <3>4, <3>5
    <3>. QED
      BY <3>1, <3>2, <3>3, <3>6, <3>7, <3>8 DEF Streak
  <2>. QED
    BY <2>2, <2>3
<1>2. CASE OnState
  <2>1. /\ Len(recent') \in Nat /\ Len(recent') > 0
        /\ recent'[Len(recent')] = "state"
    BY <1>0, <1>2, Remembered DEF OnState, Inv
  <2>2. errs' = 0 /\ verdict' # "unknown"
    BY <1>2 DEF OnState, Return, Inv, Known
  <2>. QED
    BY <2>1, <2>2 DEF Streak
<1>3. CASE Deadline \/ Enter \/ Ask \/ Answer \/ PollFails \/ Tick \/ Expire
           \/ JobEnds \/ JobRemoved \/ UNCHANGED vars
  BY <1>0, <1>3
     DEF Inv, Typed, TypeOK, Known, Streak, Deadline, Enter, Ask, Answer, PollFails,
         Tick, Expire, JobEnds, JobRemoved, vars, Move, Return
<1>. QED
  BY <1>1, <1>2, <1>3 DEF Next, WaitNext

LEMMA AlwaysInv == Spec => []Inv
<1>1. Inv /\ [Next]_vars => Inv'
  BY NextTyped, NextKnown, NextStreak DEF Inv
<1>. QED
  BY InitInv, <1>1, PTL DEF Spec

\* The variables of JobWait have their types; in particular the failures
\* counted never exceed the tolerance by more than one.
THEOREM TypeCorrect == Spec => []TypeOK
BY AlwaysInv, PTL DEF Inv, Typed

\* The verdict of a wait is true.
THEOREM VerdictAlwaysTrue == Spec => []VerdictTrue
<1>1. Inv => VerdictTrue
  BY DEF Inv, Known, Typed, TypeOK, VerdictTrue, Verdicts
<1>. QED
  BY AlwaysInv, <1>1, PTL

\* A wait gives up before its deadline only after a whole streak of failures.
THEOREM BlipsAlwaysAbsorbed == Spec => []BlipsAbsorbed
<1>1. Inv => BlipsAbsorbed
  <2> SUFFICES ASSUME Inv, ref = "job", verdict = "unknown", ~done
               PROVE  /\ Len(recent) = Tolerated + 1
                      /\ \A i \in 1 .. Len(recent) : recent[i] = "error"
    BY DEF BlipsAbsorbed
  <2>1. /\ errs = Tolerated + 1 /\ errs <= Len(recent)
        /\ \A i \in 1 .. Len(recent) : i > Len(recent) - errs => recent[i] = "error"
    BY DEF Inv, Streak
  <2>2. Len(recent) \in Nat /\ Len(recent) <= Tolerated + 1
    BY DEF Inv, Typed, TypeOK
  <2>. QED
    BY <2>1, <2>2, ToleratedNat
<1>. QED
  BY AlwaysInv, <1>1, PTL

\* No wait goes on after a whole streak of failures.
THEOREM FailuresAlwaysBounded == Spec => []FailuresBounded
<1>1. Inv => FailuresBounded
  <2> SUFFICES ASSUME Inv, pc \in {"select", "poll", "asked"},
                      Len(recent) = Tolerated + 1,
                      \A i \in 1 .. Len(recent) : recent[i] = "error"
               PROVE  FALSE
    BY DEF FailuresBounded
  <2>1. errs <= Tolerated /\ (errs < Len(recent) => recent[Len(recent) - errs] = "state")
    BY DEF Inv, Streak
  <2>2. errs \in Nat
    BY DEF Inv, Typed, TypeOK
  <2>3. Len(recent) - errs \in 1 .. Len(recent)
    BY <2>1, <2>2, ToleratedNat
  <2>. QED
    BY <2>1, <2>2, <2>3, ToleratedNat
<1>. QED
  BY AlwaysInv, <1>1, PTL

\* A wait gives one verdict, true when it is given.
THEOREM WaitImplementsJobOutcome == Spec => ImplementsJobOutcome
<1>1. Init => Outcome!Init
  BY DEF Init, Outcome!Init
<1>2. Inv /\ Inv' /\ [Next]_vars => [Outcome!Next]_<<job, verdict>>
  <2> SUFFICES ASSUME Inv, Inv', [Next]_vars
               PROVE  Outcome!Next \/ UNCHANGED <<job, verdict>>
    OBVIOUS
  <2>1. CASE JobEnds
    BY <2>1 DEF JobEnds, Outcome!Next, Outcome!End, JobStates, Outcome!JobStates
  <2>2. CASE verdict' # verdict /\ ~JobEnds
    <3>1. job' = job /\ verdict = "none"
      BY <2>2 DEF Next, WaitNext, Deadline, Enter, Ask, Answer, PollFails, OnError,
                  OnState, Tick, Expire, JobRemoved, vars, Return, Move, Inv, Known
    <3>2. verdict' \in Verdicts(job)
      BY <3>1, <2>2 DEF Inv, Known, Typed, TypeOK, Verdicts
    <3>. QED
      BY <3>1, <3>2 DEF Outcome!Next, Outcome!Judge, Verdicts, Outcome!Verdicts
  <2>3. CASE verdict' = verdict /\ ~JobEnds
    BY <2>3 DEF Next, WaitNext, Deadline, Enter, Ask, Answer, PollFails, OnError,
                OnState, Tick, Expire, JobRemoved, vars
  <2>. QED
    BY <2>1, <2>2, <2>3
<1>. QED
  BY <1>1, <1>2, AlwaysInv, PTL DEF Spec, ImplementsJobOutcome, Outcome!Spec

\* For every budget: it is for failures in a row, and never exceeded
\* (job.go:104-117).
THEOREM BudgetAlwaysKept == Spec => []BudgetKept
BY BlipsAlwaysAbsorbed, FailuresAlwaysBounded, PTL DEF BudgetKept

----------------------------------------------------------------------------

\* What the host has begun on.  What an apply or a destroy asks for has been
\* made before.
WorkSound(w) ==
  /\ work[w].op = "none" <=> work[w].state = "none"
  /\ work[w].state = "completed" => work[w].after \in Promised(work[w].op)
  /\ work[w].op \in {"apply", "destroySnapshot"} =>
       work[w].arg \in Ids /\ work[work[w].arg].state = "completed"
  /\ work[w].op = "destroySnapshot" /\ work[w].state = "completed" => work[w].arg \notin cps

\* What a goroutine holds of its last call is the request of that number.
CallSound(c) ==
  /\ call[c].phase = "idle" => call[c].out = "none" /\ call[c].cp = "unasked"
  /\ call[c].phase # "idle" =>
       /\ call[c].w \in Ids /\ call[c].op # "none"
       /\ work[call[c].w].op = call[c].op
       /\ call[c].ref \/ work[call[c].w].state = "completed"
  /\ call[c].out = "ok" => work[call[c].w].state = "completed"
  /\ call[c].cp = "found" => call[c].id = call[c].w /\ call[c].op = "snapshot"
  /\ call[c].op = "snapshot" /\ call[c].out = "ok" /\ call[c].cp = "notFound" =>
       ~work[call[c].w].rows

VmInv ==
  /\ VmTypeOK
  /\ \A w \in Ids : WorkSound(w)
  /\ \A c \in Clients : CallSound(c)

Works == [op : Ops \cup {"none"}, arg : Ids \cup {0}, state : JobStates \cup {"none"},
          after : VmStates, rows : BOOLEAN]

Calls == [phase : {"idle", "back", "inside", "over"}, op : Ops \cup {"none"},
          w : Ids \cup {0}, ref : BOOLEAN, out : {"none", "ok", "failed"},
          cp : {"unasked", "failed", "found", "notFound"}, id : Ids \cup {0}]

HostTypes == vm \in VmStates /\ disk \in BOOLEAN /\ cps \in SUBSET Ids /\ work \in [Ids -> Works]

LEMMA VmTypes == VmTypeOK <=> HostTypes /\ call \in [Clients -> Calls]
BY DEF VmTypeOK, HostTypes, Works, Calls

LEMMA VmTypesNext == HostTypes' /\ call' \in [Clients -> Calls] => VmTypeOK'
BY DEF VmTypeOK, HostTypes, Works, Calls, Ids

\* What has been begun on stays what it is, and what has been done stays done.
Settled(w) ==
  /\ work'[w].op = work[w].op /\ work'[w].arg = work[w].arg
  /\ work[w].state = "completed" =>
       work'[w].state = "completed" /\ work'[w].after = work[w].after
  /\ ~work[w].rows => ~work'[w].rows

\* And a checkpoint that was made and is gone does not come back.
Steady ==
  /\ \A w \in Ids : work[w].op # "none" => Settled(w)
  /\ \A w \in Ids : work[w].state = "completed" /\ w \notin cps => w \notin cps'

\* One value of a function is replaced.
LEMMA Replaced ==
  ASSUME NEW D, NEW R, NEW f \in [D -> R], NEW x \in D, NEW v \in R, NEW g,
         g = [f EXCEPT ![x] = v]
  PROVE  g \in [D -> R] /\ g[x] = v /\ \A y \in D \ {x} : g[y] = f[y]
  OBVIOUS

\* A goroutine knows the same of a call while the host goes on.
LEMMA CallStays ==
  ASSUME NEW c \in Clients, CallSound(c), call'[c] = call[c],
         Steady
  PROVE  CallSound(c)'
<1>1. CASE call[c].phase = "idle"
  BY <1>1 DEF CallSound
<1>2. CASE call[c].phase # "idle"
  <2>1. call[c].w \in Ids /\ call[c].op # "none" /\ work[call[c].w].op = call[c].op
    BY <1>2 DEF CallSound
  <2>2. Settled(call[c].w)
    BY <2>1 DEF Steady
  <2>. QED
    BY <1>2, <2>1, <2>2 DEF CallSound, Settled
<1>. QED
  BY <1>1, <1>2

\* What carrying out a request does to the VM, its disk and its checkpoints.
LEMMA Done ==
  ASSUME HostTypes, NEW op \in Ops, NEW arg \in Ids \cup {0}, NEW w \in Ids, Do(op, arg, w)
  PROVE  /\ vm' \in VmStates /\ vm' \in Promised(op)
         /\ disk' \in BOOLEAN
         /\ cps' \in SUBSET Ids /\ cps' \subseteq cps \cup {w}
         /\ op # "snapshot" => cps' \subseteq cps
         /\ op = "destroySnapshot" => arg \notin cps'
<1>1. vm' \in VmStates /\ vm' \in Promised(op)
  <2>1. CASE op \in StateOps
    BY <2>1 DEF Do, StateOps, VmStates, Promised, Enters, RequestedState
  <2>2. CASE op \notin StateOps
    BY <2>2 DEF Do, Ops, StateOps, VmStates, Promised, HostTypes
  <2>. QED
    BY <2>1, <2>2
<1>2. disk' \in BOOLEAN
  BY DEF Do
<1>3. /\ cps' \in SUBSET Ids /\ cps' \subseteq cps \cup {w}
      /\ op # "snapshot" => cps' \subseteq cps
      /\ op = "destroySnapshot" => arg \notin cps'
  <2>0. cps \in SUBSET Ids
    BY DEF HostTypes
  <2>1. CASE op = "snapshot"
    BY <2>0, <2>1 DEF Do
  <2>2. CASE op = "destroySnapshot"
    BY <2>0, <2>2 DEF Do
  <2>3. CASE op = "destroy"
    BY <2>0, <2>3 DEF Do
  <2>4. CASE op \notin {"snapshot", "destroySnapshot", "destroy"}
    BY <2>0, <2>4 DEF Do
  <2>. QED
    BY <2>1, <2>2, <2>3, <2>4
<1>. QED
  BY <1>1, <1>2, <1>3


\* One request is begun on, or comes to its end.
LEMMA Progress ==
  ASSUME HostTypes, \A x \in Ids : WorkSound(x), NEW w \in Ids, NEW e \in Works,
         work' = [work EXCEPT ![w] = e], work[w].state # "completed",
         vm' \in VmStates, disk' \in BOOLEAN, cps' \in SUBSET Ids, cps' \subseteq cps \cup {w},
         e.op # "none" /\ e.state # "none",
         work[w].op # "none" =>
           e.op = work[w].op /\ e.arg = work[w].arg /\ e.rows = work[w].rows,
         e.state = "completed" => e.after \in Promised(e.op),
         e.op \in {"apply", "destroySnapshot"} =>
           e.arg \in Ids /\ work[e.arg].state = "completed",
         e.op = "destroySnapshot" /\ e.state = "completed" => e.arg \notin cps'
  PROVE  /\ HostTypes'
         /\ \A x \in Ids : WorkSound(x)'
         /\ Steady
         /\ work'[w] = e
<1>1. work' \in [Ids -> Works] /\ work'[w] = e /\ \A x \in Ids \ {w} : work'[x] = work[x]
  BY Replaced DEF HostTypes
<1>2. HostTypes'
  BY <1>1 DEF HostTypes, Ids
<1>3. ASSUME NEW x \in Ids \ {w} PROVE WorkSound(x)'
  <2>1. WorkSound(x) /\ work'[x] = work[x]
    BY <1>1
  <2>2. work[x].op \in {"apply", "destroySnapshot"} =>
          /\ work[x].arg \in Ids \ {w} /\ work[work[x].arg].state = "completed"
          /\ work'[work[x].arg] = work[work[x].arg]
    BY <1>1, <2>1 DEF WorkSound
  <2>. QED
    BY <2>1, <2>2 DEF WorkSound
<1>4. WorkSound(w)'
  <2>1. e.op \in {"apply", "destroySnapshot"} => work'[e.arg] = work[e.arg]
    BY <1>1
  <2>. QED
    BY <1>1, <2>1 DEF WorkSound
<1>5. ASSUME NEW x \in Ids, work[x].op # "none" PROVE Settled(x)
  <2>1. CASE x = w
    BY <1>1, <1>5, <2>1 DEF Settled
  <2>2. CASE x # w
    BY <1>1, <2>2 DEF Settled
  <2>. QED
    BY <2>1, <2>2
<1>6. Steady
  BY <1>5 DEF Steady
<1>. QED
  BY <1>1, <1>2, <1>3, <1>4, <1>6

\* The requests that name a checkpoint name one that has been made.
LEMMA Begun ==
  ASSUME HostTypes, \A x \in Ids : WorkSound(x), NEW op \in Ops, NEW arg \in Ids \cup {0},
         op \in {"apply", "destroySnapshot"} => arg \in Ids /\ work[arg].state = "completed",
         NEW w \in Ids, NEW now \in BOOLEAN, Begin(op, arg, w, now)
  PROVE  /\ HostTypes'
         /\ \A x \in Ids : WorkSound(x)'
         /\ Steady
         /\ work'[w].op = op
         /\ now => work'[w].state = "completed"
<1>0. work[w].op = "none" /\ work[w].state # "completed" /\ op # "none"
  BY DEF Begin, WorkSound, Ops, StateOps, DiskOps
<1>1. CASE now
  <2> DEFINE e == Entry(op, arg, "completed", vm')
  <2>1. Do(op, arg, w) /\ work' = [work EXCEPT ![w] = e]
    BY <1>1 DEF Begin
  <2>2. /\ vm' \in VmStates /\ vm' \in Promised(op)
        /\ disk' \in BOOLEAN
        /\ cps' \in SUBSET Ids /\ cps' \subseteq cps \cup {w}
        /\ op = "destroySnapshot" => arg \notin cps'
    BY <2>1, Done
  <2>3. /\ e \in Works /\ e.op = op /\ e.arg = arg /\ e.state = "completed" /\ e.after = vm'
    BY <2>2 DEF Entry, Works, JobStates
  <2>. HIDE DEF e
  <2>. QED
    BY <1>0, <2>1, <2>2, <2>3, Progress
<1>2. CASE ~now
  <2> DEFINE e == Entry(op, arg, "active", "none")
  <2>1. UNCHANGED <<vm, disk, cps>> /\ work' = [work EXCEPT ![w] = e]
    BY <1>2 DEF Begin
  <2>2. /\ e \in Works /\ e.op = op /\ e.arg = arg /\ e.state = "active"
    BY DEF Entry, Works, JobStates, VmStates
  <2>3. vm' \in VmStates /\ disk' \in BOOLEAN /\ cps' \in SUBSET Ids /\ cps' \subseteq cps \cup {w}
    BY <2>1 DEF HostTypes
  <2>. HIDE DEF e
  <2>. QED
    BY <1>0, <1>2, <2>1, <2>2, <2>3, Progress
<1>. QED
  BY <1>1, <1>2

LEMMA WorkEndsStep == ASSUME VmInv, NEW w \in Ids, WorkEnds(w) PROVE VmInv' /\ Steady
<1>0. /\ HostTypes /\ call \in [Clients -> Calls] /\ call' = call
      /\ \A x \in Ids : WorkSound(x)
      /\ \A c \in Clients : CallSound(c)
  BY VmTypes DEF VmInv, WorkEnds
<1>1. /\ work \in [Ids -> Works] /\ work[w] \in Works /\ work[w].state = "active"
      /\ work[w].op # "none"
  BY <1>0 DEF WorkEnds, HostTypes, WorkSound
<1>2. /\ HostTypes' /\ \A x \in Ids : WorkSound(x)'
      /\ Steady
  <2>1. CASE /\ Do(work[w].op, work[w].arg, w)
             /\ work' = [work EXCEPT ![w].state = "completed", ![w].after = vm']
    <3> DEFINE e == [work[w] EXCEPT !.state = "completed", !.after = vm']
    <3>1. work[w].op \in Ops /\ work[w].arg \in Ids \cup {0}
      BY <1>1 DEF Works
    <3>2. /\ vm' \in VmStates /\ vm' \in Promised(work[w].op)
          /\ disk' \in BOOLEAN
          /\ cps' \in SUBSET Ids /\ cps' \subseteq cps \cup {w}
          /\ work[w].op = "destroySnapshot" => work[w].arg \notin cps'
      BY <1>0, <2>1, <3>1, Done
    <3>3. /\ e \in Works /\ e.op = work[w].op /\ e.arg = work[w].arg /\ e.rows = work[w].rows
          /\ e.state = "completed" /\ e.after = vm'
      BY <1>1, <3>2 DEF Works, JobStates
    <3>4. work' = [work EXCEPT ![w] = e]
      BY <1>1, <2>1
    <3>5. work[w].op \in {"apply", "destroySnapshot"} =>
            work[w].arg \in Ids /\ work[work[w].arg].state = "completed"
      BY <1>0 DEF WorkSound
    <3>. HIDE DEF e
    <3>. QED
      BY <1>0, <1>1, <3>2, <3>3, <3>4, <3>5, Progress
  <2>2. CASE work' = [work EXCEPT ![w].state = "failed"] /\ UNCHANGED <<vm, disk, cps>>
    <3> DEFINE e == [work[w] EXCEPT !.state = "failed"]
    <3>1. /\ e \in Works /\ e.op = work[w].op /\ e.arg = work[w].arg /\ e.rows = work[w].rows
          /\ e.state = "failed"
      BY <1>1 DEF Works, JobStates
    <3>2. work' = [work EXCEPT ![w] = e]
      BY <1>1, <2>2
    <3>3. vm' \in VmStates /\ disk' \in BOOLEAN /\ cps' \in SUBSET Ids /\ cps' \subseteq cps \cup {w}
      BY <1>0, <2>2 DEF HostTypes
    <3>4. work[w].op \in {"apply", "destroySnapshot"} =>
            work[w].arg \in Ids /\ work[work[w].arg].state = "completed"
      BY <1>0 DEF WorkSound
    <3>. HIDE DEF e
    <3>. QED
      BY <1>0, <1>1, <3>1, <3>2, <3>3, <3>4, Progress
  <2>. QED
    BY <2>1, <2>2 DEF WorkEnds
<1>3. ASSUME NEW c \in Clients PROVE CallSound(c)'
  BY <1>0, <1>2, CallStays
<1>4. VmTypeOK'
  BY <1>0, <1>2, VmTypesNext
<1>. QED
  BY <1>2, <1>3, <1>4 DEF VmInv


LEMMA ForgetStep == ASSUME VmInv, NEW w \in Ids, Forget(w) PROVE VmInv' /\ Steady
<1>0. /\ HostTypes /\ call \in [Clients -> Calls] /\ UNCHANGED <<vm, disk, cps, call>>
      /\ \A x \in Ids : WorkSound(x)
      /\ \A c \in Clients : CallSound(c)
  BY VmTypes DEF VmInv, Forget
<1> DEFINE e == [work[w] EXCEPT !.rows = FALSE]
<1>1. work \in [Ids -> Works] /\ work[w] \in Works
  BY <1>0 DEF HostTypes
<1>2. work' = [work EXCEPT ![w] = e]
  BY <1>1 DEF Forget
<1>3. /\ e \in Works /\ e.op = work[w].op /\ e.arg = work[w].arg
      /\ e.state = work[w].state /\ e.after = work[w].after /\ ~e.rows
  BY <1>1 DEF Works
<1>. HIDE DEF e
<1>4. /\ work' \in [Ids -> Works] /\ work'[w] = e /\ \A x \in Ids \ {w} : work'[x] = work[x]
  BY <1>1, <1>2, <1>3, Replaced
<1>5. \A x \in Ids :
        /\ work'[x].op = work[x].op /\ work'[x].arg = work[x].arg
        /\ work'[x].state = work[x].state /\ work'[x].after = work[x].after
        /\ ~work[x].rows => ~work'[x].rows
  BY <1>3, <1>4
<1>6. HostTypes'
  BY <1>0, <1>4 DEF HostTypes, Ids
<1>7. \A x \in Ids : WorkSound(x)'
  BY <1>0, <1>5 DEF WorkSound
<1>8. Steady
  BY <1>0, <1>5 DEF Steady, Settled
<1>9. ASSUME NEW c \in Clients PROVE CallSound(c)'
  BY <1>0, <1>8, CallStays
<1>. QED
  BY <1>0, <1>6, <1>7, <1>8, <1>9, VmTypesNext DEF VmInv

\* A call of one goroutine leaves the others' alone.
LEMMA CallStep ==
  ASSUME VmInv, NEW c \in Clients, NEW e \in Calls, call' = [call EXCEPT ![c] = e],
         HostTypes', \A w \in Ids : WorkSound(w)', Steady, CallSound(c)'
  PROVE  VmInv' /\ Steady
<1>1. HostTypes /\ call \in [Clients -> Calls] /\ \A d \in Clients : CallSound(d)
  BY VmTypes DEF VmInv
<1>2. call' \in [Clients -> Calls] /\ \A d \in Clients \ {c} : call'[d] = call[d]
  BY <1>1, Replaced
<1>3. ASSUME NEW d \in Clients \ {c} PROVE CallSound(d)'
  BY <1>1, <1>2, CallStays
<1>. QED
  BY <1>2, <1>3, VmTypesNext DEF VmInv

LEMMA CallOf ==
  ASSUME VmInv, NEW c \in Clients, NEW e \in Calls, call' = [call EXCEPT ![c] = e]
  PROVE  call'[c] = e
<1>1. call \in [Clients -> Calls]
  BY VmTypes DEF VmInv
<1>. QED
  BY <1>1, Replaced

\* A call after which there is nothing to say.
LEMMA NothingToSay ==
  ASSUME VmInv, NEW c \in Clients, call' = [call EXCEPT ![c] = NoCall]
  PROVE  NoCall \in Calls /\ CallSound(c)'
<1>1. NoCall \in Calls
  BY DEF NoCall, Calls
<1>2. call'[c] = NoCall
  BY <1>1, CallOf
<1>. QED
  BY <1>1, <1>2 DEF CallSound, NoCall

LEMMA RequestStep ==
  ASSUME VmInv, NEW c \in Clients, NEW op \in Ops, NEW arg \in Ids \cup {0},
         op \in {"apply", "destroySnapshot"} => arg \in Ids /\ work[arg].state = "completed",
         Request(c, op, arg)
  PROVE  VmInv' /\ Steady
<1>0. HostTypes /\ call \in [Clients -> Calls] /\ \A x \in Ids : WorkSound(x)
  BY VmTypes DEF VmInv
<1>1. PICK w \in Ids, now \in BOOLEAN :
        /\ Begin(op, arg, w, now)
        /\ \E reply \in IF now THEN {"done", "lost"} ELSE {"job", "jobless", "lost"} :
             call' = [call EXCEPT ![c] =
               IF Accepts(reply)
                 THEN [phase |-> IF WaitsInside(op) THEN "inside" ELSE "back",
                       op |-> op, w |-> w, ref |-> reply = "job",
                       out |-> "none", cp |-> "unasked", id |-> 0]
                 ELSE NoCall]
  BY DEF Request
<1>2. /\ HostTypes' /\ \A x \in Ids : WorkSound(x)'
      /\ Steady
      /\ work'[w].op = op
      /\ now => work'[w].state = "completed"
  BY <1>0, <1>1, Begun
<1>3. PICK reply \in IF now THEN {"done", "lost"} ELSE {"job", "jobless", "lost"} :
        call' = [call EXCEPT ![c] =
          IF Accepts(reply)
            THEN [phase |-> IF WaitsInside(op) THEN "inside" ELSE "back",
                  op |-> op, w |-> w, ref |-> reply = "job",
                  out |-> "none", cp |-> "unasked", id |-> 0]
            ELSE NoCall]
  BY <1>1
<1>4. CASE Accepts(reply)
  <2> DEFINE phase == IF WaitsInside(op) THEN "inside" ELSE "back"
             byJob == reply = "job"
             e == [phase |-> phase, op |-> op, w |-> w, ref |-> byJob,
                   out |-> "none", cp |-> "unasked", id |-> 0]
  <2>1. call' = [call EXCEPT ![c] = e]
    BY <1>3, <1>4
  <2>2. phase \in {"inside", "back"} /\ byJob \in BOOLEAN /\ op # "none"
    BY DEF Ops, StateOps, DiskOps
  <2>3. ~byJob => now
    BY <1>3, <1>4 DEF Accepts
  <2>. HIDE DEF phase, byJob
  <2>4. e \in Calls
    BY <2>2 DEF Calls
  <2>5. /\ e.phase = phase /\ e.op = op /\ e.w = w /\ (e.ref <=> byJob)
        /\ e.out = "none" /\ e.cp = "unasked"
    OBVIOUS
  <2>. HIDE DEF e
  <2>6. call'[c] = e
    BY <2>1, <2>4, CallOf
  <2>7. call'[c].ref \/ work'[w].state = "completed"
    BY <1>2, <2>3, <2>5, <2>6
  <2>8. CallSound(c)'
    BY <1>2, <2>2, <2>5, <2>7, <2>6 DEF CallSound, Ids
  <2>. QED
    BY <1>2, <2>1, <2>4, <2>8, CallStep
<1>5. CASE ~Accepts(reply)
  <2>1. call' = [call EXCEPT ![c] = NoCall]
    BY <1>3, <1>5
  <2>. QED
    BY <1>2, <2>1, NothingToSay, CallStep
<1>. QED
  BY <1>4, <1>5

\* The steps of a goroutine that do not reach the host.
LEMMA HostAlone ==
  ASSUME VmInv, UNCHANGED host
  PROVE  HostTypes' /\ (\A w \in Ids : WorkSound(w)') /\ Steady
<1>1. HostTypes /\ \A w \in Ids : WorkSound(w)
  BY VmTypes DEF VmInv
<1>. QED
  BY <1>1 DEF host, HostTypes, WorkSound, Steady, Settled, Ids

LEMMA RefusedStep == ASSUME VmInv, NEW c \in Clients, Refused(c) PROVE VmInv' /\ Steady
<1>1. UNCHANGED host /\ call' = [call EXCEPT ![c] = NoCall]
  BY DEF Refused
<1>. QED
  BY <1>1, HostAlone, NothingToSay, CallStep


LEMMA WaitStep == ASSUME VmInv, NEW c \in Clients, Wait(c) PROVE VmInv' /\ Steady
<1>0. /\ HostTypes /\ call \in [Clients -> Calls] /\ CallSound(c)
      /\ UNCHANGED host /\ call[c].phase \in {"back", "inside"}
  BY VmTypes DEF VmInv, Wait
<1>1. PICK v \in IF call[c].ref THEN Verdicts(work[call[c].w].state) ELSE {"ok"} :
        call' = [call EXCEPT ![c].phase = "over", ![c].out = Reported(v),
                             ![c].cp = "unasked", ![c].id = 0]
  BY DEF Wait
<1> DEFINE e == [call[c] EXCEPT !.phase = "over", !.out = Reported(v), !.cp = "unasked", !.id = 0]
<1>2. call' = [call EXCEPT ![c] = e]
  BY <1>0, <1>1
<1>3. call[c] \in Calls /\ Reported(v) \in {"ok", "failed"} /\ (Reported(v) = "ok" => v = "ok")
  BY <1>0 DEF Reported
<1>4. e \in Calls
  BY <1>3 DEF Calls
<1>5. /\ e.phase = "over" /\ e.out = Reported(v) /\ e.cp = "unasked"
      /\ e.w = call[c].w /\ e.op = call[c].op /\ (e.ref <=> call[c].ref)
  BY <1>3 DEF Calls
<1>. HIDE DEF e
<1>6. call'[c] = e
  BY <1>2, <1>4, CallOf
<1>7. /\ call[c].w \in Ids /\ call[c].op # "none" /\ work[call[c].w].op = call[c].op
      /\ call[c].ref \/ work[call[c].w].state = "completed"
  BY <1>0 DEF CallSound
<1>8. v = "ok" => work[call[c].w].state = "completed"
  BY <1>1, <1>7 DEF Verdicts
<1>9. work' = work
  BY <1>0 DEF host
<1>10. CallSound(c)'
  BY <1>3, <1>5, <1>6, <1>7, <1>8, <1>9 DEF CallSound, Ids
<1>. QED
  BY <1>0, <1>2, <1>4, <1>10, HostAlone, CallStep

\* What a completed job is listed to have created is what it was begun for:
\* its own checkpoint, or a system, which is none.
LEMMA FoundIs ==
  ASSUME HostTypes, \A x \in Ids : WorkSound(x), NEW w \in Ids
  PROVE  /\ \A id \in Ids : Found(w) = {id} => id = w /\ work[w].op = "snapshot"
         /\ work[w].op = "snapshot" /\ work[w].state = "completed" /\ work[w].rows =>
              Found(w) = {w}
<1> DEFINE row == [job |-> w, creates |-> TRUE,
                   element |-> IF work[w].op = "snapshot" THEN w ELSE 0]
           created == work[w].op \in {"snapshot", "define"} /\ work[w].state = "completed"
                        /\ work[w].rows
<1>1. {x \in Rows : x.job = w /\ x.creates} = IF created THEN {row} ELSE {}
  <2>1. ASSUME NEW x \in Rows, x.job = w, x.creates PROVE created /\ x = row
    <3>1. CASE x \in [job : {y \in Ids : work[y] # NoWork /\ work[y].rows},
                      creates : {FALSE}, element : {0}]
      BY <2>1, <3>1
    <3>2. CASE x \in {[job |-> y, creates |-> TRUE,
                       element |-> IF work[y].op = "snapshot" THEN y ELSE 0] :
                        y \in {z \in Ids : work[z].op \in {"snapshot", "define"}
                                           /\ work[z].state = "completed" /\ work[z].rows}}
      <4>1. PICK y \in Ids : /\ work[y].op \in {"snapshot", "define"}
                             /\ work[y].state = "completed" /\ work[y].rows
                             /\ x = [job |-> y, creates |-> TRUE,
                                     element |-> IF work[y].op = "snapshot" THEN y ELSE 0]
        BY <3>2
      <4>2. y = w
        BY <2>1, <4>1
      <4>. QED
        BY <4>1, <4>2
    <3>. QED
      BY <2>1, <3>1, <3>2 DEF Rows
  <2>2. created => row \in Rows
    BY DEF Rows
  <2>3. row.job = w /\ row.creates
    OBVIOUS
  <2>. HIDE DEF row, created
  <2>. QED
    BY <2>1, <2>2, <2>3
<1>2. row.element = IF work[w].op = "snapshot" THEN w ELSE 0
  OBVIOUS
<1>. HIDE DEF row, created
<1>3. Found(w) = IF created THEN {row.element} ELSE {}
  BY <1>1 DEF Found
<1>4. \A id \in Ids : id # 0
  BY DEF Ids
<1>5. ASSUME NEW id \in Ids, Found(w) = {id} PROVE id = w /\ work[w].op = "snapshot"
  BY <1>2, <1>3, <1>4, <1>5
<1>6. work[w].op = "snapshot" /\ work[w].state = "completed" /\ work[w].rows => Found(w) = {w}
  BY <1>2, <1>3 DEF created
<1>. QED
  BY <1>5, <1>6

LEMMA ResolveStep ==
  ASSUME VmInv, NEW c \in Clients, ResolveCreatedCheckpoint(c) PROVE VmInv' /\ Steady
<1>0. /\ HostTypes /\ call \in [Clients -> Calls] /\ CallSound(c)
      /\ \A x \in Ids : WorkSound(x)
      /\ UNCHANGED host /\ call[c].phase \in {"back", "over"} /\ call[c].ref
  BY VmTypes DEF VmInv, ResolveCreatedCheckpoint
<1> DEFINE w == call[c].w
           one == \E id \in Ids : Found(w) = {id}
<1>1. PICK answered \in BOOLEAN :
        call' = [call EXCEPT
          ![c].cp = IF ~answered THEN "failed" ELSE IF one THEN "found" ELSE "notFound",
          ![c].id = IF answered /\ one THEN CHOOSE id \in Ids : Found(w) = {id} ELSE 0]
  BY DEF ResolveCreatedCheckpoint
<1> DEFINE cp == IF ~answered THEN "failed" ELSE IF one THEN "found" ELSE "notFound"
           id == IF answered /\ one THEN CHOOSE i \in Ids : Found(w) = {i} ELSE 0
           e == [call[c] EXCEPT !.cp = cp, !.id = id]
<1>2. call' = [call EXCEPT ![c] = e]
  BY <1>0, <1>1
<1>3. /\ w \in Ids /\ call[c].op # "none" /\ work[w].op = call[c].op
  BY <1>0 DEF CallSound
<1>4. cp \in {"failed", "found", "notFound"}
  OBVIOUS
<1>5. cp = "found" => id \in Ids /\ Found(w) = {id}
  OBVIOUS
<1>6. cp # "found" => id = 0
  OBVIOUS
<1>7. cp = "notFound" => \A i \in Ids : Found(w) # {i}
  OBVIOUS
<1>. HIDE DEF cp, id
<1>8. call[c] \in Calls
  BY <1>0
<1>9. e \in Calls
  BY <1>4, <1>5, <1>6, <1>8 DEF Calls
<1>10. /\ e.phase = call[c].phase /\ e.op = call[c].op /\ e.w = w /\ (e.ref <=> call[c].ref)
       /\ e.out = call[c].out /\ e.cp = cp /\ e.id = id
  BY <1>8 DEF Calls
<1>. HIDE DEF e
<1>11. call'[c] = e
  BY <1>2, <1>9, CallOf
<1>12. work' = work
  BY <1>0 DEF host
<1>13. cp = "found" => id = w /\ call[c].op = "snapshot"
  BY <1>0, <1>3, <1>5, FoundIs
<1>14. cp = "notFound" /\ call[c].op = "snapshot" /\ call[c].out = "ok" => ~work[w].rows
  BY <1>0, <1>3, <1>7, FoundIs DEF CallSound
<1>15. CallSound(c)'
  BY <1>0, <1>3, <1>10, <1>11, <1>12, <1>13, <1>14 DEF CallSound, Ids
<1>. QED
  BY <1>0, <1>2, <1>9, <1>15, HostAlone, CallStep

LEMMA VmInitInv == VmInit => VmInv
<1> SUFFICES ASSUME VmInit PROVE VmInv
  OBVIOUS
<1>1. HostTypes /\ call \in [Clients -> Calls]
  BY DEF VmInit, HostTypes, Works, Calls, NoWork, NoCall, VmStates
<1>2. ASSUME NEW w \in Ids PROVE WorkSound(w)
  BY DEF VmInit, WorkSound, NoWork
<1>3. ASSUME NEW c \in Clients PROVE CallSound(c)
  BY DEF VmInit, CallSound, NoCall
<1>. QED
  BY <1>1, <1>2, <1>3, VmTypes DEF VmInv

LEMMA VmNextInv == VmInv /\ [VmNext]_vmVars => VmInv' /\ Steady
<1> SUFFICES ASSUME VmInv, [VmNext]_vmVars PROVE VmInv' /\ Steady
  OBVIOUS
<1>1. ASSUME NEW c \in Clients, Step(c) PROVE VmInv' /\ Steady
  <2>1. ASSUME NEW op \in Ops \ {"apply", "destroySnapshot"}, Request(c, op, 0) PROVE VmInv' /\ Steady
    BY <2>1, RequestStep
  <2>2. ASSUME NEW op \in {"apply", "destroySnapshot"}, NEW id \in Listed, Request(c, op, id)
        PROVE  VmInv' /\ Steady
    <3>1. op \in Ops /\ id \in Ids /\ work[id].state = "completed"
      BY DEF Ops, Listed
    <3>. QED
      BY <2>2, <3>1, RequestStep
  <2>3. CASE \/ DefineSystem(c) \/ DestroySystem(c) \/ RequestStateChange(c)
             \/ AddScsiController(c) \/ CreateVmCheckpoint(c)
             \/ CreateVirtualHardDisk(c) \/ ResizeVirtualHardDisk(c)
    BY <2>1, <2>3
       DEF DefineSystem, DestroySystem, RequestStateChange, AddScsiController,
           CreateVmCheckpoint, CreateVirtualHardDisk, ResizeVirtualHardDisk,
           Ops, StateOps, DiskOps
  <2>4. CASE ApplyVmCheckpoint(c) \/ DestroyVmCheckpoint(c)
    BY <2>2, <2>4 DEF ApplyVmCheckpoint, DestroyVmCheckpoint
  <2>. QED
    BY <1>1, <2>3, <2>4, RefusedStep, WaitStep, ResolveStep DEF Step
<1>2. ASSUME NEW w \in Ids, WorkEnds(w) \/ Forget(w) PROVE VmInv' /\ Steady
  BY <1>2, WorkEndsStep, ForgetStep
<1>3. CASE UNCHANGED vmVars
  <2>1. VmInv'
    BY <1>3 DEF vmVars, VmInv, VmTypeOK, Works, Ids, WorkSound, CallSound
  <2>. QED
    BY <1>3, <2>1, HostAlone DEF vmVars, host
<1>. QED
  BY <1>1, <1>2, <1>3 DEF VmNext

THEOREM VmAlwaysInv == VmSpec => []VmInv
<1>1. VmInit => VmInv
  BY VmInitInv
<1>2. VmInv /\ [VmNext]_vmVars => VmInv'
  BY VmNextInv
<1>. QED
  BY <1>1, <1>2, PTL DEF VmSpec

\* The types of the VM, of the requests and of what the callers hold (vm.go,
\* vm_state.go, checkpoint.go, vhd.go).
THEOREM VmTypeCorrect == VmSpec => []VmTypeOK
BY VmAlwaysInv, PTL DEF VmInv

\* A call that returned no error, with its wait, was carried out, left the VM
\* where its name promises, and what it destroyed stays away (vm_state.go:81-114,
\* vhd.go:64, 121, checkpoint.go:151-178).
THEOREM AlwaysDoneAsTold == VmSpec => []DoneAsTold
<1>1. VmInv => DoneAsTold
  <2> SUFFICES ASSUME VmInv, NEW c \in Clients, call[c].out = "ok"
               PROVE  /\ work[call[c].w].state = "completed"
                      /\ work[call[c].w].op = call[c].op
                      /\ work[call[c].w].after \in Promised(call[c].op)
                      /\ call[c].op = "destroySnapshot" => work[call[c].w].arg \notin cps
    BY DEF DoneAsTold, OkMeansDone, DestroyedMeansGone
  <2>1. CallSound(c) /\ call[c].phase # "idle"
    BY DEF VmInv, CallSound
  <2>2. /\ call[c].w \in Ids /\ work[call[c].w].op = call[c].op
        /\ work[call[c].w].state = "completed"
    BY <2>1 DEF CallSound
  <2>3. WorkSound(call[c].w)
    BY <2>2 DEF VmInv
  <2>. QED
    BY <2>2, <2>3 DEF WorkSound
<1>. QED
  BY <1>1, VmAlwaysInv, PTL

\* ResolveCreatedCheckpoint finds the checkpoint of its own job or none, and none
\* after the wait only when the host lists no more what the job made
\* (checkpoint.go:285, 320-357).
THEOREM AlwaysResolvesRight == VmSpec => []ResolvesRight
<1>1. VmInv => ResolvesRight
  BY DEF VmInv, CallSound, ResolvesRight, ResolvedIsOwn, ResolvedAfterWait
<1>. QED
  BY <1>1, VmAlwaysInv, PTL

\* What the host has carried out stays what it was, under its number, and a
\* checkpoint that is gone does not come back under the same one, whatever else
\* is begun (checkpoint.go:118-178).
THEOREM DoneForGood ==
  VmSpec => [][/\ \A w \in Ids : work[w].state = "completed" =>
                    /\ work'[w].op = work[w].op /\ work'[w].arg = work[w].arg
                    /\ work'[w].state = "completed" /\ work'[w].after = work[w].after
               /\ \A w \in Ids : work[w].state = "completed" /\ w \notin cps =>
                    w \notin cps']_vmVars
<1> DEFINE A == /\ \A w \in Ids : work[w].state = "completed" =>
                     /\ work'[w].op = work[w].op /\ work'[w].arg = work[w].arg
                     /\ work'[w].state = "completed" /\ work'[w].after = work[w].after
                /\ \A w \in Ids : work[w].state = "completed" /\ w \notin cps =>
                     w \notin cps'
<1>1. VmInv /\ Steady => A
  BY DEF VmInv, WorkSound, Steady, Settled
<1>2. VmInv /\ [VmNext]_vmVars => [A]_vmVars
  BY <1>1, VmNextInv
<1>. HIDE DEF A
<1>3. VmSpec => [][A]_vmVars
  BY <1>2, VmAlwaysInv, PTL DEF VmSpec
<1>. QED
  BY <1>3 DEF A
==============================================================================
