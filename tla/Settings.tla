------------------------------ MODULE Settings ------------------------------
(***************************************************************************)
(* The changes of settings: UpdateVm (hyperv/vm.go), SetMemorySettings and *)
(* SetProcessorSettings (hyperv/vm_resources.go) write back what the       *)
(* caller has read and changed; RenameVmCheckpoint (hyperv/checkpoint.go)  *)
(* and SetIntegrationServiceEnabled (hyperv/integration.go) write one      *)
(* property and the key.                                                   *)
(*                                                                         *)
(* A property has a field of a value type, whose zero value is not sent,   *)
(* or of a pointer type, of which nil is not sent.  Slices are like        *)
(* values, the empty one being zero.  A change of some properties is       *)
(* accepted and has no effect: that is the host's behaviour, found         *)
(* property by property (vm.go:236-243), and UpdateVm clears some of them  *)
(* from a list of its own.  Why the host ends a request with all that was  *)
(* read in an exception is not known (vm.go:284-292): here any job may     *)
(* fail.                                                                   *)
(*                                                                         *)
(* Several goroutines change the settings of one object.  Between reading  *)
(* and writing, and between a request and the end of its job, the others   *)
(* take their turns.                                                       *)
(***************************************************************************)
EXTENDS JobVerdicts

CONSTANTS
  Clients,         \* goroutines
  ValueFields,     \* properties with a field of a value type, or a slice
  PointerFields,   \* properties with a field of a pointer type
  ClearedFields,   \* properties that clearReadOnlyForModify clears
  IgnoredFields,   \* properties the host accepts and does not change
  NonZero,         \* values other than a type's zero value
  Zero,            \* false, 0, "" or an empty array
  Null             \* no value: NULL on the host, nil in a pointer field

ASSUME SettingsAssumption ==
  /\ ValueFields # {} /\ ValueFields \cap PointerFields = {}
  /\ ClearedFields \subseteq IgnoredFields \cap ValueFields
  /\ Zero \notin NonZero /\ Null \notin NonZero /\ Zero # Null

Fields == ValueFields \cup PointerFields
Values == NonZero \cup {Zero, Null}

VARIABLES
  object,   \* "system", Msvm_VirtualSystemSettingData, or "resource"
  host,     \* host: the object's properties
  pc,       \* "idle", "read" or "sent"
  base,     \* what the goroutine has read
  want,     \* the change it makes: a property and its new value
  small,    \* it writes this property alone
  sent,     \* the properties of its last request, Null for one that is not in it
  job,      \* the job of that request, "none" without
  named,    \* the answer named the job
  effect,   \* the request was carried out, and the property had the value then
  out       \* how the call, with its wait, came out

vars == <<object, host, pc, base, want, small, sent, job, named, effect, out>>

Nothing == [f \in Fields |-> Null]

NoWish == [field |-> CHOOSE f \in Fields : TRUE, value |-> Null]

Init ==
  /\ object \in {"system", "resource"}
  /\ host \in {h \in [Fields -> Values] : \A f \in IgnoredFields : h[f] \in NonZero}
  /\ pc = [c \in Clients |-> "idle"]
  /\ base = [c \in Clients |-> Nothing]
  /\ want = [c \in Clients |-> NoWish]
  /\ small = [c \in Clients |-> FALSE]
  /\ sent = [c \in Clients |-> Nothing]
  /\ job = [c \in Clients |-> "none"]
  /\ named = [c \in Clients |-> FALSE]
  /\ effect = [c \in Clients |-> FALSE]
  /\ out = [c \in Clients |-> "none"]

----------------------------------------------------------------------------

\* UnmarshalList: a property without a value leaves its field as it was made.
Unmarshal(h) ==
  [f \in Fields |-> IF h[f] = Null /\ f \notin PointerFields THEN Zero ELSE h[f]]

ClearTooMuch(s) ==                    \* faulty: one that the host takes is on the list
  IF object = "system" THEN [f \in Fields |-> IF f \in ValueFields THEN Zero ELSE s[f]] ELSE s

\* clearReadOnlyForModify, which UpdateVm runs on a copy.
Clear(s) ==
  IF object = "system"
    THEN [f \in Fields |-> IF f \in ClearedFields THEN Zero ELSE s[f]]
    ELSE s

\* marshalEmbeddedInstance.
Marshal(s) ==
  [f \in Fields |-> IF s[f] = Zero /\ f \notin PointerFields THEN Null ELSE s[f]]

\* The struct with the key and one field.
Only(f, v) ==
  [g \in Fields |-> IF g = f THEN v ELSE IF g \in PointerFields THEN Null ELSE Zero]

----------------------------------------------------------------------------
Takes(f) == f \notin IgnoredFields

\* The host keeps what is not in the request, and what it takes no change of.
After(p) ==
  [f \in Fields |-> IF p[f] # Null /\ Takes(f) THEN p[f] ELSE host[f]]

CarryOut(c, p, w) ==
  /\ host' = After(p)
  /\ effect' = [effect EXCEPT ![c] = host'[w.field] = w.value]

JobEnds(c) ==
  /\ job[c] = "active"
  /\ \/ /\ CarryOut(c, sent[c], want[c])
        /\ job' = [job EXCEPT ![c] = "completed"]
     \/ /\ job' = [job EXCEPT ![c] = "failed"]
        /\ UNCHANGED <<host, effect>>
  /\ UNCHANGED <<object, pc, base, want, small, sent, named, out>>

----------------------------------------------------------------------------
\* GetSystemSettingData, GetMemorySettings, GetProcessorSettings.
Read(c) ==
  /\ pc[c] = "idle" /\ job[c] # "active"
  /\ pc' = [pc EXCEPT ![c] = "read"]
  /\ base' = [base EXCEPT ![c] = host]
  /\ want' = [want EXCEPT ![c] = NoWish]
  /\ small' = [small EXCEPT ![c] = FALSE]
  /\ sent' = [sent EXCEPT ![c] = Nothing]
  /\ job' = [job EXCEPT ![c] = "none"]
  /\ named' = [named EXCEPT ![c] = FALSE]
  /\ effect' = [effect EXCEPT ![c] = FALSE]
  /\ out' = [out EXCEPT ![c] = "none"]
  /\ UNCHANGED <<object, host>>

\* ModifySystemSettings or ModifyResourceSettings: carried out, begun, or not
\* known to be either.
Send(c, f, v, p) ==
  /\ want' = [want EXCEPT ![c] = [field |-> f, value |-> v]]
  /\ sent' = [sent EXCEPT ![c] = p]
  /\ \E answer \in {"done", "job", "jobless", "lost"} :
       /\ pc' = [pc EXCEPT ![c] = IF answer \in {"done", "job"} THEN "sent" ELSE "idle"]
       /\ named' = [named EXCEPT ![c] = answer = "job"]
       /\ \/ /\ answer \in {"done", "lost"}
             /\ CarryOut(c, p, [field |-> f, value |-> v])
             /\ job' = [job EXCEPT ![c] = "none"]
          \/ /\ answer # "done"
             /\ job' = [job EXCEPT ![c] = "active"]
             /\ effect' = [effect EXCEPT ![c] = FALSE]
             /\ UNCHANGED host
          \/ /\ answer = "lost"
             /\ job' = [job EXCEPT ![c] = "none"]
             /\ effect' = [effect EXCEPT ![c] = FALSE]
             /\ UNCHANGED host

\* A request with all that was read.
WriteBack(c, target) ==
  /\ pc[c] = "read" /\ object = target
  /\ \E f \in Fields, v \in NonZero \cup {Zero} :
       Send(c, f, v, Marshal(Clear([Unmarshal(base[c]) EXCEPT ![f] = v])))
  /\ small' = [small EXCEPT ![c] = FALSE]
  /\ UNCHANGED <<object, base, out>>

UpdateVm(c) == WriteBack(c, "system")

SetMemorySettings(c) == WriteBack(c, "resource")    \* and SetProcessorSettings

SmallRequestFull(c, f, v) ==          \* faulty: what was read is sent too
  Marshal(Clear([Unmarshal(base[c]) EXCEPT ![f] = v]))

SmallRequest(c, f, v) == Marshal(Clear(Only(f, v)))

\* A request with the key and one value, which is never a zero: a name or an
\* EnabledState, which the host takes.
WriteSmall(c, target) ==
  /\ pc[c] = "read" /\ object = target
  /\ \E f \in {g \in ValueFields : Takes(g)}, v \in NonZero :
       Send(c, f, v, SmallRequest(c, f, v))
  /\ small' = [small EXCEPT ![c] = TRUE]
  /\ UNCHANGED <<object, base, out>>

\* An empty name is refused.
RenameVmCheckpoint(c) == WriteSmall(c, "system")

\* The settings are read only to find the key.
SetIntegrationServiceEnabled(c) == WriteSmall(c, "resource")

Outcome(v) == IF v = "ok" THEN "ok" ELSE "failed"

\* WaitForJob on the JobRef returned; SetIntegrationServiceEnabled does it
\* itself.
Wait(c) ==
  /\ pc[c] = "sent"
  /\ pc' = [pc EXCEPT ![c] = "idle"]
  /\ \E v \in IF named[c] THEN Verdicts(job[c]) ELSE {"ok"} :
       out' = [out EXCEPT ![c] = Outcome(v)]
  /\ UNCHANGED <<object, host, base, want, small, sent, job, named, effect>>

Next ==
  \E c \in Clients :
    \/ Read(c) \/ UpdateVm(c) \/ SetMemorySettings(c)
    \/ RenameVmCheckpoint(c) \/ SetIntegrationServiceEnabled(c)
    \/ Wait(c) \/ JobEnds(c)

Spec == Init /\ [][Next]_vars

----------------------------------------------------------------------------
TypeOK ==
  /\ object \in {"system", "resource"}
  /\ host \in [Fields -> Values]
  /\ pc \in [Clients -> {"idle", "read", "sent"}]
  /\ base \in [Clients -> [Fields -> Values]]
  /\ want \in [Clients -> [field : Fields, value : Values]]
  /\ small \in [Clients -> BOOLEAN]
  /\ sent \in [Clients -> [Fields -> Values]]
  /\ job \in [Clients -> JobStates \cup {"none"}]
  /\ named \in [Clients -> BOOLEAN]
  /\ effect \in [Clients -> BOOLEAN]
  /\ out \in [Clients -> {"none", "ok", "failed"}]

\* A change that returned no error, and was waited for, took effect.  The
\* exceptions: a property with a value field set to zero is not sent and
\* returns no error all the same (vm.go:200-201, embedded.go:224-238); and one
\* whose changes the host ignores (vm.go:236-243).  No other property may be
\* cleared: that dropped changes without a word (vm.go:250-251).
TakesEffect ==
  \A c \in Clients :
    /\ out[c] = "ok" /\ Takes(want[c].field)
    /\ want[c].value # Zero \/ want[c].field \in PointerFields
    => effect[c]

\* A property nobody asked to change keeps its value; the exception is one
\* that another goroutine has changed after it was read, and the write-back
\* of what was read undoes that change (vm.go:280-295).
OnlyRacesLose ==
  [][\A f \in Fields : host'[f] # host[f] =>
       \E c \in Clients :
         /\ job'[c] # job[c] \/ sent'[c] # sent[c] \/ pc'[c] # pc[c]
         /\ want'[c].field = f \/ host'[f] = base[c][f]]_vars

\* The small requests change their property alone, whatever has happened
\* since the key was read (checkpoint.go:201-204, integration.go:221-224).
SmallChangesOne ==
  [][\A c \in Clients :
       small'[c] /\ (pc'[c] # pc[c] \/ job'[c] # job[c]) =>
         \A f \in Fields : f # want'[c].field => host'[f] = host[f]]_vars

\* A change costs no other property its value, but for what a goroutine undoes
\* that writes back all it has read, and by the small requests not even that
\* (vm.go:274, checkpoint.go:201-204, integration.go:221-224).
NothingElseLost == OnlyRacesLose /\ SmallChangesOne
=============================================================================
