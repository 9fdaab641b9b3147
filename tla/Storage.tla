------------------------------ MODULE Storage ------------------------------
(***************************************************************************)
(* AttachVHD, AttachDVD, AddDVDDrive and DetachStorage (hyperv/storage.go) *)
(* on the Add- and RemoveResourceSettings of hyperv/resource_settings.go.  *)
(*                                                                         *)
(* An attach makes two resources on the host, a drive at a location of a   *)
(* controller and, when a file is given, a child of the drive; a detach    *)
(* removes them in the opposite order.  Each request is carried out at     *)
(* once (ReturnValue 0) or by a job (4096), which goes on when the client  *)
(* no longer waits for it.  The wait is known by its contract: see         *)
(* JobVerdicts.tla, and JobWait.tla for the code.                          *)
(*                                                                         *)
(* Several goroutines attach to one controller.  Each attaches one disk    *)
(* and then detaches it, or what an error has left of it, with the         *)
(* references the attach returned.                                         *)
(***************************************************************************)
EXTENDS JobVerdicts

CONSTANTS
  Clients,     \* goroutines; each stands also for the drive it attaches
  Locations    \* the ControllerLocations they choose among

VARIABLES
  pc,        \* where the goroutine stands
  loc,       \* the ControllerLocation asked for
  media,     \* the call has a Path
  ret,       \* what the attach returned: error or not, and the references
  using,     \* the detach was given the storage reference
  detached,  \* how the last detach ended
  res,       \* res[c][part]: the two resources on the host
  job,       \* job[c][part]: the job of the last request, "none" without
  lost       \* an answer to c was lost on the way

vars == <<pc, loc, media, ret, using, detached, res, job, lost>>

Parts == {"drive", "child"}

PCs == {"idle", "addDrive", "waitDrive", "addStorage", "waitStorage", "back",
        "removeStorage", "waitRemoveStorage", "removeDrive", "waitRemoveDrive"}

Nothing == [err |-> TRUE, drive |-> FALSE, storage |-> FALSE]

----------------------------------------------------------------------------
Init ==
  /\ pc = [c \in Clients |-> "idle"]
  /\ loc \in [Clients -> Locations]
  /\ media \in [Clients -> BOOLEAN]
  /\ ret = [c \in Clients |-> Nothing]
  /\ using = [c \in Clients |-> FALSE]
  /\ detached = [c \in Clients |-> "no"]
  /\ res = [c \in Clients |-> [p \in Parts |-> "absent"]]
  /\ job = [c \in Clients |-> [p \in Parts |-> "none"]]
  /\ lost = [c \in Clients |-> FALSE]

Move(c, from, to) ==
  /\ pc[c] = from
  /\ pc' = [pc EXCEPT ![c] = to]

\* What the host accepts: a drive where the location is free, a child on a
\* drive that has been realised, and the removal of a drive without a child.
CanAdd(c, part) ==
  IF part = "drive"
    THEN \A d \in Clients : loc[d] = loc[c] => res[d]["drive"] = "absent"
    ELSE res[c]["drive"] = "present" /\ res[c]["child"] = "absent"

CanRemove(c, part) ==
  /\ res[c][part] = "present"
  /\ part = "drive" => res[c]["child"] = "absent"

Change(c, part, state, j) ==
  /\ res' = [res EXCEPT ![c][part] = state]
  /\ job' = [job EXCEPT ![c][part] = j]

\* The host carries a request out at once or starts a job.
Begin(c, part, action) ==
  IF action = "add"
    THEN /\ CanAdd(c, part)
         /\ Change(c, part, "present", "none") \/ Change(c, part, "adding", "active")
    ELSE /\ CanRemove(c, part)
         /\ Change(c, part, "absent", "none") \/ Change(c, part, "removing", "active")

\* A job ends, well or not, whether someone waits for it or not.
JobEnds(c, part) ==
  \/ res[c][part] = "adding" /\ Change(c, part, "present", "completed")
  \/ res[c][part] = "adding" /\ Change(c, part, "absent", "failed")
  \/ res[c][part] = "removing" /\ Change(c, part, "absent", "completed")
  \/ res[c][part] = "removing" /\ Change(c, part, "present", "failed")

HostStep(c) ==
  /\ \E part \in Parts : JobEnds(c, part)
  /\ UNCHANGED <<pc, loc, media, ret, using, detached, lost>>

----------------------------------------------------------------------------
\* WaitForJob on the job of the last request: without a job there is nothing
\* to wait for.
WaitVerdicts(c, part) ==
  IF job[c][part] = "none" THEN {"ok"} ELSE Verdicts(job[c][part])

\* A request that the host has begun on, answered or not; or one that it
\* refuses or never sees.
Answered(c, part, action) == Begin(c, part, action) /\ UNCHANGED lost

AnswerLost(c, part, action) ==
  /\ Begin(c, part, action)
  /\ lost' = [lost EXCEPT ![c] = TRUE]

Refused(c) == UNCHANGED <<res, job, lost>>

NotAccepted(c, part, action) == Refused(c) \/ AnswerLost(c, part, action)

\* The arguments are valid, and the controllers are listed, sorted and picked
\* by number; or one of these steps fails.
Attach(c) ==
  /\ \/ Move(c, "idle", "addDrive")
     \/ Move(c, "idle", "back")
  /\ UNCHANGED <<loc, media, ret, using, detached, res, job, lost>>

\* AddResourceSettings with the drive.  Without an answer there is no result.
AddDrive(c) ==
  /\ \/ /\ Move(c, "addDrive", "waitDrive")
        /\ Answered(c, "drive", "add")
        /\ ret' = [ret EXCEPT ![c].drive = TRUE]
     \/ /\ Move(c, "addDrive", "back")
        /\ NotAccepted(c, "drive", "add")
        /\ UNCHANGED ret
  /\ UNCHANGED <<loc, media, using, detached>>

\* What comes after the drive: the file, if there is one.
AfterDrive(c) ==
  IF media[c]
    THEN /\ pc' = [pc EXCEPT ![c] = "addStorage"]
         /\ UNCHANGED ret
    ELSE /\ pc' = [pc EXCEPT ![c] = "back"]
         /\ ret' = [ret EXCEPT ![c].err = FALSE]

WaitDriveNil(c) ==                    \* faulty: a failed wait returns no result
  /\ pc[c] = "waitDrive"
  /\ \E v \in WaitVerdicts(c, "drive") :
       \/ /\ v = "ok"
          /\ AfterDrive(c)
       \/ /\ v # "ok"
          /\ pc' = [pc EXCEPT ![c] = "back"]
          /\ ret' = [ret EXCEPT ![c] = Nothing]
  /\ UNCHANGED <<loc, media, using, detached, res, job, lost>>

\* WaitForJob on the drive; an error is returned together with the reference.
WaitDrive(c) ==
  /\ pc[c] = "waitDrive"
  /\ \E v \in WaitVerdicts(c, "drive") :
       \/ /\ v = "ok"
          /\ AfterDrive(c)
       \/ /\ v # "ok"
          /\ pc' = [pc EXCEPT ![c] = "back"]
          /\ UNCHANGED ret
  /\ UNCHANGED <<loc, media, using, detached, res, job, lost>>

\* AddResourceSettings with the file, its Parent being the drive.
AddStorage(c) ==
  /\ \/ /\ Move(c, "addStorage", "waitStorage")
        /\ Answered(c, "child", "add")
        /\ ret' = [ret EXCEPT ![c].storage = TRUE]
     \/ /\ Move(c, "addStorage", "back")
        /\ NotAccepted(c, "child", "add")
        /\ UNCHANGED ret
  /\ UNCHANGED <<loc, media, using, detached>>

WaitStorageNot(c) ==                  \* faulty: returns while the job is running
  /\ Move(c, "waitStorage", "back")
  /\ ret' = [ret EXCEPT ![c].err = FALSE]
  /\ UNCHANGED <<loc, media, using, detached, res, job, lost>>

\* WaitForJob on the file; both references are returned either way.
WaitStorage(c) ==
  /\ Move(c, "waitStorage", "back")
  /\ \E v \in WaitVerdicts(c, "child") : ret' = [ret EXCEPT ![c].err = (v # "ok")]
  /\ UNCHANGED <<loc, media, using, detached, res, job, lost>>

----------------------------------------------------------------------------
\* The caller detaches with the references it got, again after an error, or
\* with the drive alone, as the rollback of a failed attach.
Detach(c) ==
  /\ ret[c].drive
  /\ detached[c] # "ok"
  /\ \E s \in {ret[c].storage, FALSE} :
       /\ Move(c, "back", IF s THEN "removeStorage" ELSE "removeDrive")
       /\ using' = [using EXCEPT ![c] = s]
  /\ detached' = [detached EXCEPT ![c] = "no"]
  /\ UNCHANGED <<loc, media, ret, res, job, lost>>

DetachEnds(c, how) ==
  /\ pc' = [pc EXCEPT ![c] = "back"]
  /\ detached' = [detached EXCEPT ![c] = how]

\* RemoveResourceSettings with one resource.
Remove(c, part, from, to) ==
  /\ pc[c] = from
  /\ \/ /\ pc' = [pc EXCEPT ![c] = to]
        /\ Answered(c, part, "remove")
        /\ UNCHANGED detached
     \/ /\ DetachEnds(c, "failed")
        /\ NotAccepted(c, part, "remove")
  /\ UNCHANGED <<loc, media, ret, using>>

RemoveStorage(c) == Remove(c, "child", "removeStorage", "waitRemoveStorage")

RemoveDrive(c) == Remove(c, "drive", "removeDrive", "waitRemoveDrive")

WaitRemoveStorageAny(c) ==            \* faulty: goes on whatever the job came to
  /\ Move(c, "waitRemoveStorage", "removeDrive")
  /\ UNCHANGED <<loc, media, ret, using, detached, res, job, lost>>

\* WaitForJob on the removal of the file; the drive comes next.
WaitRemoveStorage(c) ==
  /\ pc[c] = "waitRemoveStorage"
  /\ \E v \in WaitVerdicts(c, "child") :
       \/ v = "ok" /\ pc' = [pc EXCEPT ![c] = "removeDrive"] /\ UNCHANGED detached
       \/ v # "ok" /\ DetachEnds(c, "failed")
  /\ UNCHANGED <<loc, media, ret, using, res, job, lost>>

\* WaitForJob on the removal of the drive.
WaitRemoveDrive(c) ==
  /\ pc[c] = "waitRemoveDrive"
  /\ \E v \in WaitVerdicts(c, "drive") :
       DetachEnds(c, IF v = "ok" THEN "ok" ELSE "failed")
  /\ UNCHANGED <<loc, media, ret, using, res, job, lost>>

----------------------------------------------------------------------------
ClientStep(c) ==
  \/ Attach(c) \/ AddDrive(c) \/ WaitDrive(c) \/ AddStorage(c) \/ WaitStorage(c)
  \/ Detach(c) \/ RemoveStorage(c) \/ WaitRemoveStorage(c)
  \/ RemoveDrive(c) \/ WaitRemoveDrive(c)

Next == \E c \in Clients : ClientStep(c) \/ HostStep(c)

Spec == Init /\ [][Next]_vars

----------------------------------------------------------------------------
States == {"absent", "adding", "present", "removing"}

TypeOK ==
  /\ pc \in [Clients -> PCs]
  /\ loc \in [Clients -> Locations]
  /\ media \in [Clients -> BOOLEAN]
  /\ ret \in [Clients -> [err : BOOLEAN, drive : BOOLEAN, storage : BOOLEAN]]
  /\ using \in [Clients -> BOOLEAN]
  /\ detached \in [Clients -> {"no", "failed", "ok"}]
  /\ res \in [Clients -> [Parts -> States]]
  /\ job \in [Clients -> [Parts -> JobStates \cup {"none"}]]
  /\ lost \in [Clients -> BOOLEAN]

\* An attach that returns no error has attached: the drive is there, the file
\* too when one was given, and StorageRef tells which (storage.go:69-80,
\* 484-488).
AttachedMeansAttached ==
  \A c \in Clients :
    pc[c] = "back" /\ ~ret[c].err /\ detached[c] = "no" =>
      /\ res[c]["drive"] = "present"
      /\ res[c]["child"] = IF media[c] THEN "present" ELSE "absent"
      /\ ret[c].storage = media[c]

\* The file is added only to a drive that the host has realised; else its job
\* would end in 32773 (storage.go:448-450).
ParentRealised ==
  \A c \in Clients : pc[c] = "addStorage" => res[c]["drive"] = "present"

\* In a detach with both references the drive's turn comes when its child is
\* gone; else the host would refuse it with 0x80041001 (storage.go:497-501).
ChildRemovedFirst ==
  \A c \in Clients :
    pc[c] = "removeDrive" /\ using[c] => res[c]["child"] = "absent"

\* A detach that returns no error has removed the drive and whatever hung on
\* it, also after earlier attempts that failed (storage.go:502).
DetachedMeansGone ==
  \A c \in Clients :
    detached[c] = "ok" => \A part \in Parts : res[c][part] = "absent"

\* Unless an answer was lost, the caller of a failed attach holds a reference
\* to everything that is on the host, or that a job still running may yet make
\* (storage.go:444-453, 482-487).
ReferencesSuffice ==
  \A c \in Clients :
    pc[c] = "back" /\ ~lost[c] =>
      /\ res[c]["drive"] # "absent" => ret[c].drive
      /\ res[c]["child"] # "absent" => ret[c].storage

\* A medium that was attached without an error is in its drive, and one that was
\* detached without an error is gone with it (storage.go:484-488, 502).
OutcomesTrue == AttachedMeansAttached /\ DetachedMeansGone

\* The drive comes before the medium in it and goes after it, whatever other
\* goroutines do meanwhile (storage.go:448-450, 497-501).
OrderKept == ParentRealised /\ ChildRemovedFirst
=============================================================================
