------------------------------ MODULE JobWait ------------------------------
(***************************************************************************)
(* WaitForJobEPR (hyperv/job.go): the loop that polls a job of the host    *)
(* until it has ended, the deadline passes, or too many polls fail in a    *)
(* row.                                                                    *)
(*                                                                         *)
(* A poll is a Get of the job: the host answers with the state of the job  *)
(* at that moment, and the client looks at the answer later.  The host may *)
(* drop a job that has ended, and then answers a poll with a Fault.        *)
(***************************************************************************)
EXTENDS Integers, Sequences, JobVerdicts

CONSTANT MaxPollErrors   \* WithMaxPollErrors, 5 without the option

ASSUME JobWaitAssumption == MaxPollErrors \in Int

VARIABLES
  ref,       \* the reference to wait for: "job", "nil", or "noid"
  pc,        \* where the goroutine stands
  done,      \* the context of the wait is done: deadline or cancellation
  errs,      \* consecErrors
  seen,      \* the answer to the poll: a state, or "error"
  recent,    \* the last outcomes of polls, for the properties only
  job,       \* the state of the job on the host
  listed,    \* the host still knows the job
  verdict    \* what the wait returns: nil is "ok"

vars == <<ref, pc, done, errs, seen, recent, job, listed, verdict>>

PCs == {"start", "poll", "asked", "answered", "select", "returned"}

\* How many failed polls in a row end the wait: at least one, even when the
\* option is negative.
Tolerated == IF MaxPollErrors > 0 THEN MaxPollErrors ELSE 0

----------------------------------------------------------------------------
\* WaitForJobEPR is called with the EPR that a method of the host returned:
\* of a job that has been started, none after a synchronous completion, or one
\* without InstanceID.
Init ==
  /\ ref \in {"job", "nil", "noid"}
  /\ pc = "start"
  /\ done = FALSE
  /\ errs = 0
  /\ seen = "error"
  /\ recent = << >>
  /\ job = IF ref = "nil" THEN "completed" ELSE "active"
  /\ listed = TRUE
  /\ verdict = "none"

Move(from, to) ==
  /\ pc = from
  /\ pc' = to

Return(v) ==
  /\ pc' = "returned"
  /\ verdict' = v

\* Remember the outcome of a poll, as far back as the tolerance reaches.
Remember(outcome) ==
  recent' = LET all == Append(recent, outcome) IN
            IF Len(all) > Tolerated + 1 THEN Tail(all) ELSE all

\* There is nothing to wait for without an EPR, and nothing to ask for without
\* InstanceID; else the deadline is set and the loop entered.
Enter ==
  /\ pc = "start"
  /\ \/ ref = "nil" /\ Return("ok")
     \/ ref = "noid" /\ Return("unknown")
     \/ ref = "job" /\ pc' = "poll" /\ UNCHANGED verdict
  /\ UNCHANGED <<ref, done, errs, seen, recent, job, listed>>

\* The deadline of WithJobTimeout, or the caller's cancellation.
Deadline ==
  /\ ~done
  /\ pc # "returned"
  /\ done' = TRUE
  /\ UNCHANGED <<ref, pc, errs, seen, recent, job, listed, verdict>>

AskWithoutContext ==                  \* faulty: getJob is not given the context
  /\ Move("poll", "asked")
  /\ UNCHANGED <<ref, done, errs, seen, recent, job, listed, verdict>>

\* getJob sends the Get, unless the context is done.
Ask ==
  /\ Move("poll", "asked")
  /\ ~done
  /\ UNCHANGED <<ref, done, errs, seen, recent, job, listed, verdict>>

\* The host answers the Get: the state of the job, or a Fault.
Answer ==
  /\ Move("asked", "answered")
  /\ seen' = IF listed THEN job ELSE "error"
  /\ UNCHANGED <<ref, done, errs, recent, job, listed, verdict>>

\* getJob fails on its way: no connection, timeout, context done.
PollFails ==
  /\ pc \in {"poll", "asked"}
  /\ pc' = "answered"
  /\ seen' = "error"
  /\ UNCHANGED <<ref, done, errs, recent, job, listed, verdict>>

OnErrorTolerates ==                   \* faulty: never gives up
  /\ pc = "answered"
  /\ seen = "error"
  /\ Remember("error")
  /\ pc' = "select"
  /\ UNCHANGED <<ref, done, errs, seen, job, listed, verdict>>

\* getJob has failed.  When the context is done that is the reason given;
\* else the failure is counted, and one too many ends the wait.
OnError ==
  /\ pc = "answered"
  /\ seen = "error"
  /\ Remember("error")
  /\ IF done THEN Return("unknown") /\ UNCHANGED errs
     ELSE /\ errs' = errs + 1
          /\ IF errs' > MaxPollErrors
               THEN Return("unknown")
               ELSE pc' = "select" /\ UNCHANGED verdict
  /\ UNCHANGED <<ref, done, seen, job, listed>>

OnStateNoReset ==                     \* faulty: the failures are never forgotten
  /\ pc = "answered"
  /\ seen # "error"
  /\ Remember("state")
  /\ \/ seen = "completed" /\ Return("ok")
     \/ seen = "failed" /\ Return("failed")
     \/ seen = "active" /\ pc' = "select" /\ UNCHANGED verdict
  /\ UNCHANGED <<ref, done, errs, seen, job, listed>>

OnStateEndedIsOk ==                   \* faulty: every ended job has completed
  /\ pc = "answered"
  /\ seen # "error"
  /\ Remember("state")
  /\ errs' = 0
  /\ \/ seen \in {"completed", "failed"} /\ Return("ok")
     \/ seen = "active" /\ pc' = "select" /\ UNCHANGED verdict
  /\ UNCHANGED <<ref, done, seen, job, listed>>

\* getJob has returned the job: the failures before it are forgotten, and the
\* wait is over when the job has ended.
OnState ==
  /\ pc = "answered"
  /\ seen # "error"
  /\ Remember("state")
  /\ errs' = 0
  /\ \/ seen = "completed" /\ Return("ok")
     \/ seen = "failed" /\ Return("failed")
     \/ seen = "active" /\ pc' = "select" /\ UNCHANGED verdict
  /\ UNCHANGED <<ref, done, seen, job, listed>>

\* select: the ticker fires, first or by Go's choice among two ready cases.
Tick ==
  /\ Move("select", "poll")
  /\ UNCHANGED <<ref, done, errs, seen, recent, job, listed, verdict>>

\* select: the context is done.
Expire ==
  /\ pc = "select"
  /\ done
  /\ Return("unknown")
  /\ UNCHANGED <<ref, done, errs, seen, recent, job, listed>>

----------------------------------------------------------------------------
\* The host ends the job, whether someone waits for it or not.
JobEnds ==
  /\ job = "active"
  /\ job' \in JobStates \ {"active"}
  /\ UNCHANGED <<ref, pc, done, errs, seen, recent, listed, verdict>>

\* The host drops a job some time after its end.
JobRemoved ==
  /\ job # "active"
  /\ listed
  /\ listed' = FALSE
  /\ UNCHANGED <<ref, pc, done, errs, seen, recent, job, verdict>>

\* What makes the wait go on; each poll ends, with an answer or without.
WaitNext ==
  Enter \/ Ask \/ Answer \/ PollFails \/ OnError \/ OnState \/ Tick \/ Expire

Next == Deadline \/ WaitNext \/ JobEnds \/ JobRemoved

\* The goroutine runs, its ticker fires, and every poll ends because the
\* context, or the timeout of the HTTP client, bounds it.
\* The job may never end.
Spec == Init /\ [][Next]_vars /\ WF_vars(WaitNext)

\* The deadline, which WaitForJobEPR always sets, is left to the property that
\* needs it.
DeadlinePasses == WF_vars(Deadline)

----------------------------------------------------------------------------
TypeOK ==
  /\ ref \in {"job", "nil", "noid"}
  /\ pc \in PCs
  /\ done \in BOOLEAN
  /\ errs \in 0 .. Tolerated + 1
  /\ seen \in JobStates \cup {"error"}
  /\ recent \in Seq({"error", "state"})
  /\ job \in JobStates
  /\ listed \in BOOLEAN
  /\ verdict \in {"none", "ok", "failed", "unknown"}

\* The verdict is true when it is given and ever after, however late the
\* answer of the poll is looked at (job.go:116-122).
VerdictTrue == verdict # "none" => verdict \in Verdicts(job)

\* Single failures are absorbed: a wait that ends without a verdict before its
\* deadline has seen MaxPollErrors + 1 polls fail, and no success among them
\* (job.go:17-23, 104-115).
BlipsAbsorbed ==
  ref = "job" /\ verdict = "unknown" /\ ~done =>
    /\ Len(recent) = Tolerated + 1
    /\ \A i \in 1 .. Len(recent) : recent[i] = "error"

\* A broken host is given up: no wait goes on polling after more failures in a
\* row than it tolerates (job.go:105-107).
FailuresBounded ==
  pc \in {"select", "poll", "asked"} =>
    ~ (/\ Len(recent) = Tolerated + 1
       /\ \A i \in 1 .. Len(recent) : recent[i] = "error")

\* A job that has ended is noticed without the help of the deadline, also when
\* the host has dropped it before the wait could see it.
EndNoticed == ref = "job" /\ job # "active" ~> pc = "returned"

\* Every wait returns, even for a job that never ends (job.go:89-90).
WaitReturns == DeadlinePasses => (pc = "start" ~> pc = "returned")

Outcome == INSTANCE JobOutcome

\* The wait gives one verdict, true when it is given.
ImplementsJobOutcome == Outcome!Spec

\* The budget of failed polls is for failures in a row: one poll that succeeds
\* restores it, and it is never exceeded (job.go:104-117).
BudgetKept == BlipsAbsorbed /\ FailuresBounded
=============================================================================
