------------------------------ MODULE Network ------------------------------
(***************************************************************************)
(* AddNetworkAdapter, AddNetworkAdapterVlan and RemoveNetworkAdapter       *)
(* (hyperv/network.go) with CreateSwitch and DestroySwitch                 *)
(* (hyperv/switch.go), each followed by the WaitForJob of its caller on    *)
(* the JobRef it returned (JobVerdicts.tla).                               *)
(*                                                                         *)
(* An adapter is a port, a port allocation that connects it to a switch,   *)
(* and VLAN settings of the allocation.  AddNetworkAdapter asks for the    *)
(* allocation without waiting for the port's job, and returns the JobRef   *)
(* of its last request alone.                                              *)
(*                                                                         *)
(* Other goroutines create and destroy switches.  A switch is looked up by *)
(* its name, which a later switch may have again, and then addressed by    *)
(* its GUID, which none has again.                                         *)
(***************************************************************************)
EXTENDS JobVerdicts, Naturals

CONSTANTS
  Adapters,     \* goroutines that add, change and remove an adapter
  Admins,       \* goroutines that create and destroy switches
  Names,        \* names of switches
  MaxSwitches   \* how many switches are ever created

ASSUME NetworkAssumption == MaxSwitches \in Nat

VARIABLES
  want,     \* opts.SwitchName, "" without
  pc,       \* where the goroutine of an adapter stands
  op,       \* the call that returned last: "add", "vlan", "remove"
  refs,     \* the references AddNetworkAdapter has returned
  ret,      \* what the last call returned: an error or not, and whose JobRef
  waited,   \* the verdict on that job
  found,    \* the GUID of the switch that was looked up
  lost,     \* an answer was lost, or did not name its job
  res,      \* host: the parts of each adapter
  job,      \* host: the job of the last request for each part
  switch,   \* host: the switches by GUID
  name,     \* host: their names
  swjob,    \* host: the job of the last request for each switch
  task      \* what each admin does, or what came of it

adapterVars == <<want, pc, op, refs, ret, waited, found, lost, res, job>>
switchVars == <<switch, name, swjob, task>>
vars == <<adapterVars, switchVars>>

Parts == {"port", "alloc", "vlan"}
GUIDs == 1 .. MaxSwitches
Replies == {"done", "job", "jobless", "lost"}

Returned(e, j) == [err |-> e, job |-> j]

Idle == [do |-> "idle", what |-> "none", id |-> 0, name |-> "", job |-> FALSE]

Init ==
  /\ want \in [Adapters -> Names \cup {""}]
  /\ pc = [c \in Adapters |-> "addPort"]
  /\ op = [c \in Adapters |-> "none"]
  /\ refs = [c \in Adapters |-> [port |-> FALSE, alloc |-> FALSE]]
  /\ ret = [c \in Adapters |-> Returned(TRUE, "none")]
  /\ waited = [c \in Adapters |-> "no"]
  /\ found = [c \in Adapters |-> 0]
  /\ lost = [c \in Adapters |-> FALSE]
  /\ res = [c \in Adapters |-> [p \in Parts |-> "absent"]]
  /\ job = [c \in Adapters |-> [p \in Parts |-> "none"]]
  /\ switch = [s \in GUIDs |-> "none"]
  /\ name = [s \in GUIDs |-> ""]
  /\ swjob = [s \in GUIDs |-> "none"]
  /\ task = [a \in Admins |-> Idle]

----------------------------------------------------------------------------
\* The host.  A part is accepted on a parent that has been realised, and an
\* adapter is removed, with all that hangs on it, when none of its parts is
\* being changed.
CanAdd(c, part) ==
  /\ res[c][part] = "absent"
  /\ part = "alloc" => res[c]["port"] = "present" /\ switch[found[c]] = "present"
  /\ part = "vlan" => res[c]["alloc"] = "present"

CanRemove(c) ==
  /\ res[c]["port"] = "present"
  /\ \A part \in Parts : res[c][part] \in {"absent", "present"}

\* It is done with the answer, or a job does it; of a request whose answer is
\* lost, now tells which.
Begins(reply, now) == reply = "done" \/ (reply = "lost" /\ now)
Told(reply, now) == now => reply = "lost"

BeginAdd(c, part, reply, now) ==
  /\ Told(reply, now)
  /\ CanAdd(c, part)
  /\ res' = [res EXCEPT ![c][part] = IF Begins(reply, now) THEN "present" ELSE "adding"]
  /\ job' = [job EXCEPT ![c][part] = IF Begins(reply, now) THEN "none" ELSE "active"]

Gone == [p \in Parts |-> "absent"]

BeginRemove(c, reply, now) ==
  /\ Told(reply, now)
  /\ CanRemove(c)
  /\ res' = [res EXCEPT ![c] = IF Begins(reply, now) THEN Gone
                               ELSE [@ EXCEPT !["port"] = "removing"]]
  /\ job' = [job EXCEPT ![c]["port"] = IF Begins(reply, now) THEN "none" ELSE "active"]

NotBegun == UNCHANGED <<res, job>>

JobEnds(c, part) ==
  /\ job[c][part] = "active"
  /\ \E state \in {"completed", "failed"} :
       /\ job' = [job EXCEPT ![c][part] = state]
       /\ res' = [res EXCEPT ![c] =
                    IF res[c][part] = "adding"
                      THEN [@ EXCEPT ![part] = IF state = "completed" THEN "present" ELSE "absent"]
                      ELSE IF state = "completed" THEN Gone
                      ELSE [@ EXCEPT ![part] = "present"]]
  /\ UNCHANGED <<want, pc, op, refs, ret, waited, found, lost, switchVars>>

----------------------------------------------------------------------------
\* AddResourceSettings, AddFeatureSettings, RemoveResourceSettings and the
\* switch service alike: ReturnValue 0, or 4096 with a reference to the job.

Accepts(reply) == reply \in {"done", "job"}

JobRef(reply, part) == IF reply = "job" THEN part ELSE "none"

Loses(c, reply) == lost' = [lost EXCEPT ![c] = @ \/ reply \in {"jobless", "lost"}]

Returns(c, call, err, j) ==
  /\ pc' = [pc EXCEPT ![c] = "back"]
  /\ op' = [op EXCEPT ![c] = call]
  /\ ret' = [ret EXCEPT ![c] = Returned(err, j)]
  /\ waited' = [waited EXCEPT ![c] = "no"]

\* The port.  Its reference and its job are in the result from here on; a
\* switch is looked up when one was named.
AddPort(c) ==
  /\ pc[c] = "addPort"
  /\ \/ \E reply \in Replies, now \in BOOLEAN :
          /\ BeginAdd(c, "port", reply, now)
          /\ Loses(c, reply)
          /\ IF ~Accepts(reply)
               THEN Returns(c, "add", TRUE, "none") /\ UNCHANGED refs
               ELSE /\ refs' = [refs EXCEPT ![c].port = TRUE]
                    /\ IF want[c] = ""
                         THEN Returns(c, "add", FALSE, JobRef(reply, "port"))
                         ELSE /\ pc' = [pc EXCEPT ![c] = "lookup"]
                              /\ ret' = [ret EXCEPT ![c].job = JobRef(reply, "port")]
                              /\ UNCHANGED <<op, waited>>
     \/ /\ NotBegun /\ UNCHANGED <<refs, lost>>
        /\ Returns(c, "add", TRUE, "none")
  /\ UNCHANGED <<want, found, switchVars>>

\* GetVirtualEthernetSwitch: the first switch of the list that has the name.
Listed == {s \in GUIDs : switch[s] \in {"present", "removing"}}

NamedAny(n) == Listed                 \* faulty: the first of the list

Named(n) == {s \in Listed : name[s] = n}

LookupNil(c) ==                       \* faulty: no result with the error
  /\ pc[c] = "lookup"
  /\ \/ /\ found' \in {[found EXCEPT ![c] = s] : s \in Named(want[c])}
        /\ pc' = [pc EXCEPT ![c] = "addAlloc"]
        /\ UNCHANGED <<op, refs, ret, waited>>
     \/ /\ Returns(c, "add", TRUE, "none")
        /\ refs' = [refs EXCEPT ![c].port = FALSE]
        /\ UNCHANGED found
  /\ UNCHANGED <<want, lost, res, job, switchVars>>

\* An error, also of the list itself, is returned with what there is.
Lookup(c) ==
  /\ pc[c] = "lookup"
  /\ \/ /\ found' \in {[found EXCEPT ![c] = s] : s \in Named(want[c])}
        /\ pc' = [pc EXCEPT ![c] = "addAlloc"]
        /\ UNCHANGED <<op, ret, waited>>
     \/ /\ Returns(c, "add", TRUE, ret[c].job)
        /\ UNCHANGED found
  /\ UNCHANGED <<want, refs, lost, res, job, switchVars>>

LastJobKept(c, reply) == ret[c].job   \* faulty: the port's job is returned

LastJob(c, reply) == JobRef(reply, "alloc")

\* The allocation: the last request's job replaces the port's.
AddAlloc(c) ==
  /\ pc[c] = "addAlloc"
  /\ \/ \E reply \in Replies, now \in BOOLEAN :
          /\ BeginAdd(c, "alloc", reply, now)
          /\ Loses(c, reply)
          /\ IF Accepts(reply)
               THEN /\ refs' = [refs EXCEPT ![c].alloc = TRUE]
                    /\ Returns(c, "add", FALSE, LastJob(c, reply))
               ELSE Returns(c, "add", TRUE, ret[c].job) /\ UNCHANGED refs
     \/ /\ NotBegun /\ UNCHANGED <<refs, lost>>
        /\ Returns(c, "add", TRUE, ret[c].job)
  /\ UNCHANGED <<want, found, switchVars>>

\* WaitForJob on the JobRef returned; without one there is nothing to wait for.
Wait(c) ==
  /\ pc[c] = "back" /\ waited[c] = "no"
  /\ \E v \in IF ret[c].job = "none" THEN {"ok"} ELSE Verdicts(job[c][ret[c].job]) :
       waited' = [waited EXCEPT ![c] = IF v = "ok" THEN "ok" ELSE "failed"]
  /\ UNCHANGED <<want, pc, op, refs, ret, found, lost, res, job, switchVars>>

\* AddNetworkAdapterVlan on the AllocationRef.
AddVlan(c) ==
  /\ pc[c] = "back" /\ op[c] = "add" /\ refs[c].alloc
  /\ \/ \E reply \in Replies, now \in BOOLEAN :
          /\ BeginAdd(c, "vlan", reply, now)
          /\ Loses(c, reply)
          /\ Returns(c, "vlan", ~Accepts(reply), JobRef(reply, "vlan"))
     \/ /\ NotBegun /\ UNCHANGED lost
        /\ Returns(c, "vlan", TRUE, "none")
  /\ UNCHANGED <<want, refs, found, switchVars>>

\* RemoveNetworkAdapter on the PortRef, also after an error and again after
\* one of its own.
RemoveAdapter(c) ==
  /\ pc[c] = "back" /\ refs[c].port
  /\ op[c] = "remove" => ret[c].err \/ waited[c] = "failed"
  /\ \/ \E reply \in Replies, now \in BOOLEAN :
          /\ BeginRemove(c, reply, now)
          /\ Loses(c, reply)
          /\ Returns(c, "remove", ~Accepts(reply), JobRef(reply, "port"))
     \/ /\ NotBegun /\ UNCHANGED lost
        /\ Returns(c, "remove", TRUE, "none")
  /\ UNCHANGED <<want, refs, found, switchVars>>

----------------------------------------------------------------------------
\* Switches.  A switch with a port on it is not destroyed.
InUse(s) ==
  \E c \in Adapters : found[c] = s /\ res[c]["alloc"] # "absent"

BeginSwitch(s, from, via, to, reply, now) ==
  /\ Told(reply, now)
  /\ switch[s] = from
  /\ switch' = [switch EXCEPT ![s] = IF Begins(reply, now) THEN to ELSE via]
  /\ swjob' = [swjob EXCEPT ![s] = IF Begins(reply, now) THEN "none" ELSE "active"]

SwitchJobEnds(s) ==
  /\ swjob[s] = "active"
  /\ \E state \in {"completed", "failed"} :
       /\ swjob' = [swjob EXCEPT ![s] = state]
       /\ switch' = [switch EXCEPT ![s] =
                       IF @ = "adding"
                         THEN IF state = "completed" THEN "present" ELSE "unmade"
                         ELSE IF state = "completed" THEN "gone" ELSE "present"]
  /\ UNCHANGED <<adapterVars, name, task>>

Task(a, do, what, s, n, j) ==
  task' = [task EXCEPT ![a] = [do |-> do, what |-> what, id |-> s, name |-> n, job |-> j]]

Fails(a) == task' = [task EXCEPT ![a] = Idle]

\* A call that fails leaves nothing to say of it.
Begun(a, what, s, n, reply) ==
  IF Accepts(reply) THEN Task(a, "wait", what, s, n, reply = "job") ELSE Fails(a)

\* CreateSwitch, with the settings its type asks for (Lookups.tla).
CreateSwitch(a) ==
  /\ task[a].do \in {"idle", "ok"}
  /\ \E s \in GUIDs, n \in Names, reply \in Replies, now \in BOOLEAN :
       /\ \A t \in GUIDs : t < s => switch[t] # "none"
       /\ BeginSwitch(s, "none", "adding", "present", reply, now)
       /\ name' = [name EXCEPT ![s] = n]
       /\ Begun(a, "create", s, n, reply)
  /\ UNCHANGED adapterVars

\* DestroySwitch: the switch is looked up by its name ...
LookupToDestroy(a) ==
  /\ task[a].do \in {"idle", "ok"}
  /\ \E n \in Names : \E s \in Named(n) : Task(a, "destroy", "destroy", s, n, FALSE)
  /\ UNCHANGED <<adapterVars, switch, name, swjob>>

\* ... and destroyed by its GUID, which may be gone by now.
DestroySwitch(a) ==
  /\ task[a].do = "destroy"
  /\ LET s == task[a].id
         n == task[a].name
     IN \/ \E reply \in Replies, now \in BOOLEAN :
             /\ ~InUse(s)
             /\ BeginSwitch(s, "present", "removing", "gone", reply, now)
             /\ Begun(a, "destroy", s, n, reply)
        \/ /\ Fails(a)
           /\ UNCHANGED <<switch, swjob>>
  /\ UNCHANGED <<adapterVars, name>>

WaitSwitch(a) ==
  /\ task[a].do = "wait"
  /\ \E v \in IF task[a].job THEN Verdicts(swjob[task[a].id]) ELSE {"ok"} :
       IF v = "ok" THEN task' = [task EXCEPT ![a].do = "ok", ![a].job = FALSE] ELSE Fails(a)
  /\ UNCHANGED <<adapterVars, switch, name, swjob>>

AdapterStep(c) ==
  \/ AddPort(c) \/ Lookup(c) \/ AddAlloc(c) \/ Wait(c) \/ AddVlan(c) \/ RemoveAdapter(c)
  \/ \E part \in Parts : JobEnds(c, part)

AdminStep(a) ==
  CreateSwitch(a) \/ LookupToDestroy(a) \/ DestroySwitch(a) \/ WaitSwitch(a)

Next ==
  \/ \E c \in Adapters : AdapterStep(c)
  \/ \E a \in Admins : AdminStep(a)
  \/ \E s \in GUIDs : SwitchJobEnds(s)

Spec == Init /\ [][Next]_vars

----------------------------------------------------------------------------
States == {"absent", "adding", "present", "removing"}

TypeOK ==
  /\ want \in [Adapters -> Names \cup {""}]
  /\ pc \in [Adapters -> {"addPort", "lookup", "addAlloc", "back"}]
  /\ op \in [Adapters -> {"none", "add", "vlan", "remove"}]
  /\ refs \in [Adapters -> [port : BOOLEAN, alloc : BOOLEAN]]
  /\ ret \in [Adapters -> [err : BOOLEAN, job : Parts \cup {"none"}]]
  /\ waited \in [Adapters -> {"no", "ok", "failed"}]
  /\ found \in [Adapters -> GUIDs \cup {0}]
  /\ lost \in [Adapters -> BOOLEAN]
  /\ res \in [Adapters -> [Parts -> States]]
  /\ job \in [Adapters -> [Parts -> JobStates \cup {"none"}]]
  /\ switch \in [GUIDs -> {"none", "adding", "present", "removing", "gone", "unmade"}]
  /\ name \in [GUIDs -> Names \cup {""}]
  /\ swjob \in [GUIDs -> JobStates \cup {"none"}]
  /\ task \in [Admins -> [do : {"idle", "destroy", "wait", "ok"},
                          what : {"none", "create", "destroy"}, id : GUIDs \cup {0},
                          name : Names \cup {""}, job : BOOLEAN]]

\* An adapter that was added without an error, and whose one JobRef was waited
\* for, is there: the port, whose own job nobody waited for, too, connected to
\* a switch of the name asked for (network.go:179-236).
Connected ==
  \A c \in Adapters :
    op[c] = "add" /\ ~ret[c].err /\ waited[c] = "ok" =>
      /\ res[c]["port"] = "present"
      /\ want[c] # "" =>
           /\ res[c]["alloc"] = "present" /\ refs[c].alloc
           /\ switch[found[c]] = "present" /\ name[found[c]] = want[c]

\* Unless an answer was lost, whoever called AddNetworkAdapter holds the
\* PortRef of what there is or may come to be, with the error too, and when the
\* JobRef returned has ended well nothing is in the way of RemoveNetworkAdapter
\* (network.go:147-148, 187, 224-229).
Undoable ==
  \A c \in Adapters :
    pc[c] = "back" /\ op[c] = "add" /\ ~lost[c] =>
      /\ res[c]["port"] # "absent" => refs[c].port
      /\ waited[c] = "ok" /\ refs[c].port => CanRemove(c)

\* VLAN settings that were added without an error, and waited for, are on the
\* connection; a removal that was is a removal of port, connection and
\* settings (network.go:243-244, 281-318).
VerdictsOnAdapters ==
  \A c \in Adapters :
    ~ret[c].err /\ waited[c] = "ok" =>
      /\ op[c] = "vlan" => \A part \in Parts : res[c][part] = "present"
      /\ op[c] = "remove" => res[c] = Gone

\* A switch that was created without an error, and waited for, was made with
\* its name; one that was destroyed is gone, even when another bears the name
\* again by then (switch.go:145-158, 312-333).
VerdictsOnSwitches ==
  \A a \in Admins :
    task[a].do = "ok" =>
      /\ name[task[a].id] = task[a].name
      /\ task[a].what = "create" => switch[task[a].id] \notin {"none", "adding", "unmade"}
      /\ task[a].what = "destroy" => switch[task[a].id] = "gone"

\* What the caller is told of an adapter, once it has waited for the one JobRef
\* it was given, is true: connected, configured or gone (network.go:179-318).
AdaptersAsTold == Connected /\ VerdictsOnAdapters
=============================================================================
