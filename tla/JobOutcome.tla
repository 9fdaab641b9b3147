----------------------------- MODULE JobOutcome -----------------------------
(***************************************************************************)
(* What waiting for a job promises: one verdict, true when it is given.    *)
(* The job ends once and stays as it is; it may well end after the verdict *)
(* "unknown".                                                              *)
(*                                                                         *)
(* This is the abstract specification.  JobWait implements it, and Storage *)
(* relies on it.                                                           *)
(***************************************************************************)
EXTENDS JobVerdicts

VARIABLES
  job,      \* the state of the job on the host
  verdict   \* "none" until the wait is over

\* A synchronous operation has no job left to wait for: it has completed.
Init == job \in {"active", "completed"} /\ verdict = "none"

End ==
  /\ job = "active"
  /\ job' \in JobStates \ {"active"}
  /\ UNCHANGED verdict

Judge ==
  /\ verdict = "none"
  /\ verdict' \in Verdicts(job)
  /\ UNCHANGED job

Next == End \/ Judge

Spec == Init /\ [][Next]_<<job, verdict>>
=============================================================================
