--------------------------------- MODULE Vm ---------------------------------
(***************************************************************************)
(* The methods that begin a job and hand its reference to the caller:      *)
(* DefineSystem and DestroySystem (hyperv/vm.go), RequestStateChange with  *)
(* its shortcuts (hyperv/vm_state.go), AddScsiController                   *)
(* (hyperv/storage.go), the checkpoint methods with                        *)
(* ResolveCreatedCheckpoint (hyperv/checkpoint.go); and the disk methods,  *)
(* which wait for the job themselves (hyperv/vhd.go).                      *)
(*                                                                         *)
(* Several goroutines work on one VM and one disk.  The host carries a     *)
(* request out at once or by a job, which may fail, also because the state *)
(* it needs has gone by the time it runs.  Each piece of work has a        *)
(* number, which is the InstanceID of its job and the identifier of the    *)
(* checkpoint it makes.                                                    *)
(***************************************************************************)
EXTENDS JobVerdicts, Naturals

CONSTANTS
  Clients,   \* goroutines
  MaxWork    \* requests the host begins on, in all

ASSUME VmAssumption == MaxWork \in Nat

VARIABLES
  vm,     \* host: the VM's state, "none" when there is no VM
  disk,   \* host: there is a disk file
  cps,    \* host: the VM's checkpoints
  work,   \* host: the requests it has begun on
  call    \* the last call of each goroutine

vmVars == <<vm, disk, cps, work, call>>
host == <<vm, disk, cps, work>>

Ids == 1 .. MaxWork

StateOps == {"start", "turnOff", "shutdown", "pause", "resume", "save"}
DiskOps == {"createDisk", "resizeDisk"}
Ops == {"define", "destroy", "addController", "snapshot", "apply", "destroySnapshot"}
         \cup StateOps \cup DiskOps

VmStates == {"none", "off", "running", "paused", "saved"}

NoWork == [op |-> "none", arg |-> 0, state |-> "none", after |-> "none", rows |-> TRUE]

\* Also after an error, which leaves nothing to say.
\* ref: a JobRef was returned; out: how the call, with its wait, came out;
\* cp: what ResolveCreatedCheckpoint said of the JobRef.
NoCall == [phase |-> "idle", op |-> "none", w |-> 0, ref |-> FALSE, out |-> "none",
           cp |-> "unasked", id |-> 0]

VmInit ==
  /\ vm \in {"none", "running"}
  /\ disk = FALSE
  /\ cps = {}
  /\ work = [w \in Ids |-> NoWork]
  /\ call = [c \in Clients |-> NoCall]

----------------------------------------------------------------------------
\* RequestedState of the shortcuts: 2 Enabled, 3 Disabled, 4 ShutDown,
\* 6 Saved, 9 Paused.

RequestedState(op) ==
  CASE op \in {"start", "resume"} -> 2
    [] op = "turnOff" -> 3
    [] op = "shutdown" -> 4
    [] op = "save" -> 6
    [] op = "pause" -> 9

\* What the host makes of a RequestedState, and from which states.
Enters(s) ==
  CASE s = 2 -> "running"
    [] s \in {3, 4} -> "off"
    [] s = 6 -> "saved"
    [] s = 9 -> "paused"

Leaves(s) ==
  CASE s = 2 -> {"off", "saved", "paused"}
    [] s = 3 -> {"running", "paused"}
    [] s \in {4, 9} -> {"running"}
    [] s = 6 -> {"running", "paused"}

CanDo(op, arg) ==
  CASE op = "define" -> vm = "none"
    [] op = "destroy" -> vm = "off"
    [] op \in StateOps -> vm \in Leaves(RequestedState(op))
    [] op \in {"snapshot", "addController"} -> vm # "none"
    [] op \in {"apply", "destroySnapshot"} -> arg \in cps
    [] op = "createDisk" -> ~disk
    [] op = "resizeDisk" -> disk

\* A checkpoint applied leaves the VM off or saved; one destroyed may take its
\* children with it.
Do(op, arg, w) ==
  /\ vm' \in CASE op = "define" -> {"off"}
               [] op = "destroy" -> {"none"}
               [] op \in StateOps -> {Enters(RequestedState(op))}
               [] op = "apply" -> {"off", "saved"}
               [] OTHER -> {vm}
  /\ disk' = (disk \/ op = "createDisk")
  /\ cps' \in CASE op = "snapshot" -> {cps \cup {w}}
                [] op = "destroySnapshot" -> SUBSET (cps \ {arg})
                [] op = "destroy" -> {{}}
                [] OTHER -> {cps}

Entry(op, arg, state, after) ==
  [op |-> op, arg |-> arg, state |-> state, after |-> after, rows |-> TRUE]

\* The host carries the request out, or starts a job for it.
Begin(op, arg, w, now) ==
  /\ work[w].op = "none" /\ \A x \in Ids : x < w => work[x].op # "none"
  /\ CanDo(op, arg)
  /\ \/ /\ now
        /\ Do(op, arg, w)
        /\ work' = [work EXCEPT ![w] = Entry(op, arg, "completed", vm')]
     \/ /\ ~now
        /\ work' = [work EXCEPT ![w] = Entry(op, arg, "active", "none")]
        /\ UNCHANGED <<vm, disk, cps>>

WorkEnds(w) ==
  /\ work[w].state = "active"
  /\ \/ /\ CanDo(work[w].op, work[w].arg)
        /\ Do(work[w].op, work[w].arg, w)
        /\ work' = [work EXCEPT ![w].state = "completed", ![w].after = vm']
     \/ /\ work' = [work EXCEPT ![w].state = "failed"]
        /\ UNCHANGED <<vm, disk, cps>>
  /\ UNCHANGED call

\* The host forgets a job, and the rows that tell what it affected.
Forget(w) ==
  /\ work[w].op = "snapshot" /\ work[w].state = "completed" /\ work[w].rows
  /\ work' = [work EXCEPT ![w].rows = FALSE]
  /\ UNCHANGED <<vm, disk, cps, call>>

----------------------------------------------------------------------------
\* Every method alike: ReturnValue 0, or 4096 with a reference to the job;
\* anything else is an error.
AcceptsJobless(reply) == reply # "lost"      \* faulty: a missing Job is taken for none

Accepts(reply) == reply \in {"done", "job"}

\* waitImageJob.
WaitsInside(op) == op \in DiskOps

Request(c, op, arg) ==
  /\ call[c].phase \in {"idle", "over"}
  /\ \E w \in Ids, now \in BOOLEAN :
       /\ Begin(op, arg, w, now)
       /\ \E reply \in IF now THEN {"done", "lost"} ELSE {"job", "jobless", "lost"} :
            call' = [call EXCEPT ![c] =
              IF Accepts(reply)
                THEN [phase |-> IF WaitsInside(op) THEN "inside" ELSE "back",
                      op |-> op, w |-> w, ref |-> reply = "job",
                      out |-> "none", cp |-> "unasked", id |-> 0]
                ELSE NoCall]

\* Any of the methods, refused by the host or not heard by it: the code
\* returns the error, whatever the method.
Refused(c) ==
  /\ call[c].phase \in {"idle", "over"}
  /\ call' = [call EXCEPT ![c] = NoCall]
  /\ UNCHANGED host

DefineSystem(c) == Request(c, "define", 0)

DestroySystem(c) == Request(c, "destroy", 0)

RequestStateChange(c) == \E op \in StateOps : Request(c, op, 0)

AddScsiController(c) == Request(c, "addController", 0)

CreateVmCheckpoint(c) == Request(c, "snapshot", 0)

\* ListVmCheckpoints has told of the checkpoint, earlier.
Listed == {w \in Ids : work[w].op = "snapshot" /\ work[w].state = "completed"}

ApplyVmCheckpoint(c) == \E id \in Listed : Request(c, "apply", id)

DestroyVmCheckpoint(c) == \E id \in Listed : Request(c, "destroySnapshot", id)

CreateVirtualHardDisk(c) == Request(c, "createDisk", 0)

ResizeVirtualHardDisk(c) == Request(c, "resizeDisk", 0)

ReportedRaw(v) == v                    \* faulty: the verdict is passed on as it is

Reported(v) == IF v = "ok" THEN "ok" ELSE "failed"

\* WaitForJob, by the caller or inside the call.
Wait(c) ==
  /\ call[c].phase \in {"back", "inside"}
  /\ \E v \in IF call[c].ref THEN Verdicts(work[call[c].w].state) ELSE {"ok"} :
       call' = [call EXCEPT ![c].phase = "over",
                            ![c].out = Reported(v),
                            ![c].cp = "unasked", ![c].id = 0]
  /\ UNCHANGED host

----------------------------------------------------------------------------
\* Msvm_AffectedJobElement: every job affects the system (element 0); what it
\* creates is listed when it has completed.
Rows ==
  [job : {w \in Ids : work[w] # NoWork /\ work[w].rows}, creates : {FALSE}, element : {0}]
    \cup {[job |-> w, creates |-> TRUE, element |-> IF work[w].op = "snapshot" THEN w ELSE 0] :
            w \in {x \in Ids : work[x].op \in {"snapshot", "define"}
                               /\ work[x].state = "completed" /\ work[x].rows}}

FoundAny(w) == {r.element : r \in {x \in Rows : x.creates}}   \* faulty: of any job

Found(w) == {r.element : r \in {x \in Rows : x.job = w /\ x.creates}}

\* Exactly one element, whose identifier is a checkpoint's.  The caller may
\* ask with the JobRef of another kind of call, and without having waited.
ResolveCreatedCheckpoint(c) ==
  /\ call[c].ref /\ call[c].cp = "unasked" /\ call[c].phase \in {"back", "over"}
  /\ \E answered \in BOOLEAN :
       LET found == Found(call[c].w)
       IN  call' = [call EXCEPT
             ![c].cp = IF ~answered THEN "failed"
                       ELSE IF \E id \in Ids : found = {id} THEN "found" ELSE "notFound",
             ![c].id = IF answered /\ \E id \in Ids : found = {id}
                         THEN CHOOSE id \in Ids : found = {id} ELSE 0]
  /\ UNCHANGED host

Step(c) ==
  \/ DefineSystem(c) \/ DestroySystem(c) \/ RequestStateChange(c) \/ AddScsiController(c)
  \/ CreateVmCheckpoint(c) \/ ApplyVmCheckpoint(c) \/ DestroyVmCheckpoint(c)
  \/ CreateVirtualHardDisk(c) \/ ResizeVirtualHardDisk(c)
  \/ Refused(c) \/ Wait(c) \/ ResolveCreatedCheckpoint(c)

VmNext == (\E c \in Clients : Step(c)) \/ (\E w \in Ids : WorkEnds(w) \/ Forget(w))

VmSpec == VmInit /\ [][VmNext]_vmVars

----------------------------------------------------------------------------
VmTypeOK ==
  /\ vm \in VmStates
  /\ disk \in BOOLEAN
  /\ cps \in SUBSET Ids
  /\ work \in [Ids -> [op : Ops \cup {"none"}, arg : Ids \cup {0},
                       state : JobStates \cup {"none"}, after : VmStates, rows : BOOLEAN]]
  /\ call \in [Clients -> [phase : {"idle", "back", "inside", "over"},
                           op : Ops \cup {"none"}, w : Ids \cup {0}, ref : BOOLEAN,
                           out : {"none", "ok", "failed"},
                           cp : {"unasked", "failed", "found", "notFound"}, id : Ids \cup {0}]]

Promised(op) ==
  CASE op \in {"start", "resume"} -> {"running"}
    [] op \in {"turnOff", "shutdown"} -> {"off"}
    [] op = "pause" -> {"paused"}
    [] op = "save" -> {"saved"}
    [] OTHER -> VmStates

\* A call that returned no error, and whose JobRef was waited for, was carried
\* out, and left the VM in the state its name promises (vm_state.go:81-114);
\* the disk methods need no wait but their own (vhd.go:64, 121).
OkMeansDone ==
  \A c \in Clients :
    call[c].out = "ok" =>
      /\ work[call[c].w].state = "completed"
      /\ work[call[c].w].op = call[c].op
      /\ work[call[c].w].after \in Promised(call[c].op)

\* A checkpoint that was destroyed without an error, and waited for, does not
\* come back (checkpoint.go:151-178).
DestroyedMeansGone ==
  \A c \in Clients :
    call[c].out = "ok" /\ call[c].op = "destroySnapshot" => work[call[c].w].arg \notin cps

\* ResolveCreatedCheckpoint returns the checkpoint that the caller's own job
\* has made, or none: never that of another job, whoever else makes
\* checkpoints, and never a VM for a checkpoint (checkpoint.go:320-354).
ResolvedIsOwn ==
  \A c \in Clients :
    call[c].cp = "found" => call[c].id = call[c].w /\ call[c].op = "snapshot"

\* After the wait it finds it, as long as the host lists the job's rows
\* (checkpoint.go:285, 355-357).
ResolvedAfterWait ==
  \A c \in Clients :
    call[c].op = "snapshot" /\ call[c].out = "ok" /\ call[c].cp = "notFound" =>
      ~work[call[c].w].rows

\* What a goroutine was told without an error came about, and what it destroyed
\* does not come back (vm_state.go:81-114, vhd.go:64, 121, checkpoint.go:151-178).
DoneAsTold == OkMeansDone /\ DestroyedMeansGone

\* ResolveCreatedCheckpoint finds the checkpoint of its own job or none, and none
\* after the wait only when the host does not list what the job made
\* (checkpoint.go:285, 320-357).
ResolvesRight == ResolvedIsOwn /\ ResolvedAfterWait
=============================================================================
