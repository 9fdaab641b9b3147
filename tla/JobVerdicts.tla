---------------------------- MODULE JobVerdicts ----------------------------
(***************************************************************************)
(* The asynchronous jobs of the host (ReturnValue 4096) and what           *)
(* Client.WaitForJob may say of one (hyperv/job.go): "ok" and "failed"     *)
(* only when they are true, "unknown" (deadline, cancellation, or too many *)
(* failed polls) at any time.                                              *)
(***************************************************************************)

\* JobState of Msvm_ConcreteJob: 7 is completed; 8, 9 and 10 are failed; the
\* others are active.
JobStates == {"active", "completed", "failed"}

Verdicts(job) ==
  {"unknown"} \cup (IF job = "completed" THEN {"ok"} ELSE {})
              \cup (IF job = "failed" THEN {"failed"} ELSE {})
=============================================================================
