---------------------------- MODULE NetworkProofs ----------------------------
(***************************************************************************)
(* Theorems about Network, for any adapters, administrators, names and     *)
(* number of switches.                                                     *)
(*                                                                         *)
(* Own(c) is what the goroutine of adapter c may conclude about the host   *)
(* from where it stands and from what it was returned; Linked(c) ties the  *)
(* adapter to the switch it was connected to; Tasked(a) is what an         *)
(* administrator may conclude about the switch it works on.                *)
(***************************************************************************)
EXTENDS Network, TLAPS

\* The last request for a part was to add it.
Adds(c, p) == job[c][p] \in {"none", "completed"} => res[c][p] = "present"

\* The JobRef returned is the part's, or there is none and none was begun.
On(c, p) == ret[c].job \in {p, "none"} /\ (ret[c].job = "none" => job[c][p] = "none")

Host(c) ==
  /\ \A p \in Parts : res[c][p] \in {"adding", "removing"} <=> job[c][p] = "active"
  /\ \A p \in Parts : res[c][p] = "removing" => p = "port" /\ op[c] = "remove"
  /\ res[c]["port"] = "removing" =>
       res[c]["alloc"] \in {"absent", "present"} /\ res[c]["vlan"] \in {"absent", "present"}
  /\ res[c]["alloc"] # "absent" => res[c]["port"] \in {"present", "removing"}
  /\ res[c]["vlan"] # "absent" => res[c]["alloc"] = "present"

\* While AddNetworkAdapter is going on ...
Adding(c) ==
  /\ pc[c] = "addPort" => res[c] = Gone /\ ~lost[c] /\ ~refs[c].port /\ ~refs[c].alloc
  /\ pc[c] \in {"lookup", "addAlloc"} =>
       /\ refs[c].port /\ ~refs[c].alloc /\ want[c] # ""
       /\ Adds(c, "port") /\ On(c, "port")
       /\ res[c]["alloc"] = "absent" /\ res[c]["vlan"] = "absent"
  /\ pc[c] = "addAlloc" => found[c] # 0
  /\ pc[c] = "back" <=> op[c] # "none"
  /\ pc[c] # "back" => waited[c] = "no"

\* ... and when it has returned.
Added(c) ==
  op[c] = "add" =>
    /\ res[c]["vlan"] = "absent"
    /\ refs[c].port => Adds(c, "port")
    /\ refs[c].port /\ ~refs[c].alloc => On(c, "port")
    /\ refs[c].alloc =>
         want[c] # "" /\ res[c]["port"] = "present" /\ Adds(c, "alloc") /\ On(c, "alloc")
    /\ ~ret[c].err => refs[c].port /\ (want[c] # "" => refs[c].alloc)

\* What there is has its reference, unless an answer was lost.
Referenced(c) ==
  ~lost[c] /\ op[c] \in {"none", "add"} =>
    /\ res[c]["port"] # "absent" => refs[c].port
    /\ res[c]["alloc"] # "absent" => refs[c].alloc

WithVlan(c) ==
  op[c] = "vlan" /\ ~ret[c].err =>
    res[c]["alloc"] = "present" /\ Adds(c, "vlan") /\ On(c, "vlan")

Removed(c) ==
  op[c] = "remove" /\ ~ret[c].err =>
    /\ job[c]["port"] \in {"none", "completed"} => res[c] = Gone
    /\ job[c]["port"] = "active" => res[c]["port"] = "removing"
    /\ On(c, "port")

Waited(c) ==
  waited[c] = "ok" => ret[c].job = "none" \/ job[c][ret[c].job] = "completed"

Own(c) ==
  Host(c) /\ Adding(c) /\ Added(c) /\ Referenced(c) /\ WithVlan(c) /\ Removed(c) /\ Waited(c)

\* The switch of an adapter has kept its name, and stays while it is in use.
Linked(c) ==
  /\ found[c] # 0 => name[found[c]] = want[c] /\ switch[found[c]] # "none"
  /\ res[c]["alloc"] # "absent" => found[c] # 0 /\ switch[found[c]] = "present"

Sound(s) ==
  /\ swjob[s] = "active" <=> switch[s] \in {"adding", "removing"}
  /\ switch[s] = "unmade" => swjob[s] = "failed"

Made == {"present", "removing", "gone"}

Tasked(a) ==
  LET s == task[a].id
  IN  task[a].do # "idle" =>
        /\ s # 0 /\ name[s] = task[a].name /\ switch[s] # "none"
        /\ task[a].do \in {"wait", "ok"} => task[a].what \in {"create", "destroy"}
        /\ task[a].do \in {"wait", "ok"} /\ task[a].what = "create" =>
             switch[s] \in Made \/ (task[a].do = "wait" /\ task[a].job)
        /\ task[a].do = "wait" /\ task[a].what = "destroy" =>
             \/ switch[s] = "gone"
             \/ task[a].job /\ switch[s] = "removing"
             \/ task[a].job /\ switch[s] = "present" /\ swjob[s] = "failed"
        /\ task[a].do = "ok" /\ task[a].what = "destroy" => switch[s] = "gone"

Inv ==
  /\ TypeOK
  /\ \A c \in Adapters : Own(c) /\ Linked(c)
  /\ \A s \in GUIDs : Sound(s)
  /\ \A a \in Admins : Tasked(a)

----------------------------------------------------------------------------
LEMMA InitInv == Init => Inv
<1> SUFFICES ASSUME Init PROVE Inv
  OBVIOUS
<1>1. TypeOK
  BY NetworkAssumption DEF Init, TypeOK, Parts, GUIDs, States, JobStates, Returned, Idle
<1>2. ASSUME NEW c \in Adapters PROVE Own(c)
  <2>1. Host(c)
    BY DEF Init, Host, Parts
  <2>2. Adding(c)
    BY DEF Init, Adding, Gone
  <2>3. Added(c) /\ Referenced(c) /\ WithVlan(c) /\ Removed(c) /\ Waited(c)
    BY DEF Init, Added, Referenced, WithVlan, Removed, Waited, Parts
  <2>. QED
    BY <2>1, <2>2, <2>3 DEF Own
<1>3. ASSUME NEW c \in Adapters PROVE Linked(c)
  BY DEF Init, Linked, Parts
<1>4. ASSUME NEW s \in GUIDs PROVE Sound(s)
  BY DEF Init, Sound
<1>5. ASSUME NEW a \in Admins PROVE Tasked(a)
  BY DEF Init, Tasked, Idle
<1>. QED
  BY <1>1, <1>2, <1>3, <1>4, <1>5 DEF Inv

\* The steps of the goroutine of an adapter and of its jobs leave the others
\* and the switches alone.
Same(d) ==
  /\ want'[d] = want[d] /\ pc'[d] = pc[d] /\ op'[d] = op[d] /\ refs'[d] = refs[d]
  /\ ret'[d] = ret[d] /\ waited'[d] = waited[d] /\ found'[d] = found[d]
  /\ lost'[d] = lost[d] /\ res'[d] = res[d] /\ job'[d] = job[d]

Frame(c) == UNCHANGED switchVars /\ \A d \in Adapters \ {c} : Same(d)

LEMMA OwnSame ==
  ASSUME NEW d \in Adapters, Own(d), Same(d)
  PROVE  Own(d)'
<1>1. Host(d)'
  BY DEF Own, Host, Same
<1>2. \A p : (Adds(d, p) => Adds(d, p)') /\ (On(d, p) => On(d, p)')
  BY DEF Same, Adds, On
<1>3. Adding(d)'
  BY <1>2 DEF Own, Adding, Same, Gone
<1>4. Added(d)' /\ Referenced(d)' /\ WithVlan(d)'
  BY <1>2 DEF Own, Added, Referenced, WithVlan, Same
<1>5. Removed(d)' /\ Waited(d)'
  BY <1>2 DEF Own, Removed, Waited, Same, Gone
<1>. QED
  BY <1>1, <1>3, <1>4, <1>5 DEF Own

\* So it is enough to look at the goroutine that takes the step.
LEMMA AdapterStepInv ==
  ASSUME Inv, NEW c \in Adapters, Frame(c), TypeOK', Own(c)', Linked(c)'
  PROVE  Inv'
<1>1. ASSUME NEW d \in Adapters \ {c} PROVE Own(d)' /\ Linked(d)'
  BY OwnSame DEF Inv, Frame, Same, Linked, switchVars
<1>2. ASSUME NEW s \in GUIDs PROVE Sound(s)'
  BY DEF Inv, Frame, Sound, switchVars
<1>3. ASSUME NEW a \in Admins PROVE Tasked(a)'
  BY DEF Inv, Frame, Tasked, switchVars
<1>. QED
  BY <1>1, <1>2, <1>3 DEF Inv

----------------------------------------------------------------------------
\* One value of a function is replaced.
LEMMA Updated ==
  ASSUME NEW D, NEW R, NEW f \in [D -> R], NEW c \in D, NEW v \in R, NEW g,
         g = [f EXCEPT ![c] = v]
  PROVE  g \in [D -> R] /\ g[c] = v /\ \A d \in D \ {c} : g[d] = f[d]
  OBVIOUS

\* What the host does when it begins to add a part ...
LEMMA AddBegun ==
  ASSUME TypeOK, NEW c \in Adapters, NEW p \in Parts, NEW reply, NEW now,
         BeginAdd(c, p, reply, now)
  PROVE  /\ res' \in [Adapters -> [Parts -> States]]
         /\ job' \in [Adapters -> [Parts -> JobStates \cup {"none"}]]
         /\ \A d \in Adapters \ {c} : res'[d] = res[d] /\ job'[d] = job[d]
         /\ \A q \in Parts \ {p} : res'[c][q] = res[c][q] /\ job'[c][q] = job[c][q]
         /\ CanAdd(c, p)
         /\ \/ res'[c][p] = "present" /\ job'[c][p] = "none" /\ reply # "job"
            \/ res'[c][p] = "adding" /\ job'[c][p] = "active" /\ reply # "done"
<1>1. /\ res \in [Adapters -> [Parts -> States]]
      /\ job \in [Adapters -> [Parts -> JobStates \cup {"none"}]]
  BY DEF TypeOK
<1> DEFINE r == IF Begins(reply, now) THEN "present" ELSE "adding"
           j == IF Begins(reply, now) THEN "none" ELSE "active"
<1>2. /\ res' = [res EXCEPT ![c] = [@ EXCEPT ![p] = r]]
      /\ job' = [job EXCEPT ![c] = [@ EXCEPT ![p] = j]]
      /\ CanAdd(c, p)
  BY DEF BeginAdd
<1>3. r \in States /\ j \in JobStates \cup {"none"}
  BY DEF States, JobStates
<1>4. \/ r = "present" /\ j = "none" /\ reply # "job"
      \/ r = "adding" /\ j = "active" /\ reply # "done"
  BY DEF Begins
<1> HIDE DEF r, j
<1>5. [res[c] EXCEPT ![p] = r] \in [Parts -> States]
      /\ [job[c] EXCEPT ![p] = j] \in [Parts -> JobStates \cup {"none"}]
  BY <1>1, <1>3
<1>6. /\ \A q \in Parts \ {p} : res'[c][q] = res[c][q] /\ job'[c][q] = job[c][q]
      /\ res'[c][p] = r /\ job'[c][p] = j
  BY <1>1, <1>2
<1>. QED
  BY <1>1, <1>2, <1>4, <1>5, <1>6

\* ... or to remove an adapter.
LEMMA RemoveBegun ==
  ASSUME TypeOK, NEW c \in Adapters, NEW reply, NEW now, BeginRemove(c, reply, now)
  PROVE  /\ res' \in [Adapters -> [Parts -> States]]
         /\ job' \in [Adapters -> [Parts -> JobStates \cup {"none"}]]
         /\ \A d \in Adapters \ {c} : res'[d] = res[d] /\ job'[d] = job[d]
         /\ CanRemove(c)
         /\ job'[c]["alloc"] = job[c]["alloc"] /\ job'[c]["vlan"] = job[c]["vlan"]
         /\ \/ res'[c] = Gone /\ job'[c]["port"] = "none" /\ reply # "job"
            \/ /\ res'[c]["port"] = "removing" /\ job'[c]["port"] = "active"
               /\ reply # "done"
               /\ res'[c]["alloc"] = res[c]["alloc"] /\ res'[c]["vlan"] = res[c]["vlan"]
<1>1. /\ res \in [Adapters -> [Parts -> States]]
      /\ job \in [Adapters -> [Parts -> JobStates \cup {"none"}]]
      /\ "port" \in Parts /\ "alloc" \in Parts /\ "vlan" \in Parts
      /\ Gone \in [Parts -> States]
  BY DEF TypeOK, Parts, Gone, States
<1> DEFINE r == IF Begins(reply, now) THEN Gone ELSE [res[c] EXCEPT !["port"] = "removing"]
           j == IF Begins(reply, now) THEN "none" ELSE "active"
<1>2. /\ res' = [res EXCEPT ![c] = r]
      /\ job' = [job EXCEPT ![c] = [@ EXCEPT !["port"] = j]]
      /\ CanRemove(c)
  BY DEF BeginRemove
<1>3. r \in [Parts -> States] /\ j \in JobStates \cup {"none"}
  BY <1>1 DEF States, JobStates
<1>4. \/ r = Gone /\ j = "none" /\ reply # "job"
      \/ /\ r["port"] = "removing" /\ j = "active" /\ reply # "done"
         /\ r["alloc"] = res[c]["alloc"] /\ r["vlan"] = res[c]["vlan"]
  BY <1>1 DEF Begins
<1> HIDE DEF r, j
<1>5. [job[c] EXCEPT !["port"] = j] \in [Parts -> JobStates \cup {"none"}]
  BY <1>1, <1>3
<1>6. /\ job'[c]["alloc"] = job[c]["alloc"] /\ job'[c]["vlan"] = job[c]["vlan"]
      /\ job'[c]["port"] = j
      /\ \A d \in Adapters \ {c} : job'[d] = job[d]
  BY <1>1, <1>2, <1>5
<1>7. res'[c] = r
  BY <1>1, <1>2
<1>8. /\ res' \in [Adapters -> [Parts -> States]]
      /\ \A d \in Adapters \ {c} : res'[d] = res[d]
  BY <1>1, <1>2, <1>3
<1>9. job' \in [Adapters -> [Parts -> JobStates \cup {"none"}]]
  BY <1>1, <1>2, <1>5
<1>. QED
  BY <1>2, <1>4, <1>6, <1>7, <1>8, <1>9

\* A call that returns.
LEMMA CallReturned ==
  ASSUME TypeOK, NEW c \in Adapters, NEW call \in {"add", "vlan", "remove"},
         NEW err \in BOOLEAN, NEW j \in Parts \cup {"none"}, Returns(c, call, err, j)
  PROVE  /\ pc' \in [Adapters -> {"addPort", "lookup", "addAlloc", "back"}]
         /\ op' \in [Adapters -> {"none", "add", "vlan", "remove"}]
         /\ ret' \in [Adapters -> [err : BOOLEAN, job : Parts \cup {"none"}]]
         /\ waited' \in [Adapters -> {"no", "ok", "failed"}]
         /\ pc'[c] = "back" /\ op'[c] = call /\ waited'[c] = "no"
         /\ ret'[c].err = err /\ ret'[c].job = j
         /\ \A d \in Adapters \ {c} :
              pc'[d] = pc[d] /\ op'[d] = op[d] /\ ret'[d] = ret[d] /\ waited'[d] = waited[d]
<1>1. Returned(err, j) \in [err : BOOLEAN, job : Parts \cup {"none"}]
  BY DEF Returned
<1>2. Returned(err, j).err = err /\ Returned(err, j).job = j
  BY DEF Returned
<1>3. /\ pc' \in [Adapters -> {"addPort", "lookup", "addAlloc", "back"}]
      /\ pc'[c] = "back" /\ \A d \in Adapters \ {c} : pc'[d] = pc[d]
  <2>1. /\ pc \in [Adapters -> {"addPort", "lookup", "addAlloc", "back"}]
        /\ pc' = [pc EXCEPT ![c] = "back"]
    BY DEF Returns, TypeOK
  <2>. QED
    BY <2>1, Updated
<1>4. /\ op' \in [Adapters -> {"none", "add", "vlan", "remove"}]
      /\ op'[c] = call /\ \A d \in Adapters \ {c} : op'[d] = op[d]
  <2>1. /\ op \in [Adapters -> {"none", "add", "vlan", "remove"}]
        /\ op' = [op EXCEPT ![c] = call]
    BY DEF Returns, TypeOK
  <2>. QED
    BY <2>1, Updated
<1>5. /\ waited' \in [Adapters -> {"no", "ok", "failed"}]
      /\ waited'[c] = "no" /\ \A d \in Adapters \ {c} : waited'[d] = waited[d]
  <2>1. /\ waited \in [Adapters -> {"no", "ok", "failed"}]
        /\ waited' = [waited EXCEPT ![c] = "no"]
    BY DEF Returns, TypeOK
  <2>. QED
    BY <2>1, Updated
<1>6. /\ ret' \in [Adapters -> [err : BOOLEAN, job : Parts \cup {"none"}]]
      /\ ret'[c] = Returned(err, j) /\ \A d \in Adapters \ {c} : ret'[d] = ret[d]
  <2>1. /\ ret \in [Adapters -> [err : BOOLEAN, job : Parts \cup {"none"}]]
        /\ ret' = [ret EXCEPT ![c] = Returned(err, j)]
    BY DEF Returns, TypeOK
  <2>. QED
    BY <1>1, <2>1, Updated
<1>. QED
  BY <1>2, <1>3, <1>4, <1>5, <1>6

\* What a result is given.
LEMMA PortReferenced ==
  ASSUME TypeOK, NEW c \in Adapters, refs' = [refs EXCEPT ![c].port = TRUE]
  PROVE  /\ refs' \in [Adapters -> [port : BOOLEAN, alloc : BOOLEAN]]
         /\ refs'[c].port /\ refs'[c].alloc = refs[c].alloc
         /\ \A d \in Adapters \ {c} : refs'[d] = refs[d]
<1> DEFINE r == [refs[c] EXCEPT !.port = TRUE]
<1>1. refs \in [Adapters -> [port : BOOLEAN, alloc : BOOLEAN]]
  BY DEF TypeOK
<1>2. r \in [port : BOOLEAN, alloc : BOOLEAN] /\ r.port /\ r.alloc = refs[c].alloc
  BY <1>1
<1>3. refs' = [refs EXCEPT ![c] = r]
  OBVIOUS
<1> HIDE DEF r
<1>4. /\ refs' \in [Adapters -> [port : BOOLEAN, alloc : BOOLEAN]] /\ refs'[c] = r
      /\ \A d \in Adapters \ {c} : refs'[d] = refs[d]
  BY <1>1, <1>2, <1>3
<1>. QED
  BY <1>2, <1>4

LEMMA AllocReferenced ==
  ASSUME TypeOK, NEW c \in Adapters, refs' = [refs EXCEPT ![c].alloc = TRUE]
  PROVE  /\ refs' \in [Adapters -> [port : BOOLEAN, alloc : BOOLEAN]]
         /\ refs'[c].alloc /\ refs'[c].port = refs[c].port
         /\ \A d \in Adapters \ {c} : refs'[d] = refs[d]
<1> DEFINE r == [refs[c] EXCEPT !.alloc = TRUE]
<1>1. refs \in [Adapters -> [port : BOOLEAN, alloc : BOOLEAN]]
  BY DEF TypeOK
<1>2. r \in [port : BOOLEAN, alloc : BOOLEAN] /\ r.alloc /\ r.port = refs[c].port
  BY <1>1
<1>3. refs' = [refs EXCEPT ![c] = r]
  OBVIOUS
<1> HIDE DEF r
<1>4. /\ refs' \in [Adapters -> [port : BOOLEAN, alloc : BOOLEAN]] /\ refs'[c] = r
      /\ \A d \in Adapters \ {c} : refs'[d] = refs[d]
  BY <1>1, <1>2, <1>3
<1>. QED
  BY <1>2, <1>4

LEMMA JobRecorded ==
  ASSUME TypeOK, NEW c \in Adapters, NEW j \in Parts \cup {"none"},
         ret' = [ret EXCEPT ![c].job = j]
  PROVE  /\ ret' \in [Adapters -> [err : BOOLEAN, job : Parts \cup {"none"}]]
         /\ ret'[c].job = j
         /\ \A d \in Adapters \ {c} : ret'[d] = ret[d]
<1> DEFINE r == [ret[c] EXCEPT !.job = j]
<1>1. ret \in [Adapters -> [err : BOOLEAN, job : Parts \cup {"none"}]]
  BY DEF TypeOK
<1>2. r \in [err : BOOLEAN, job : Parts \cup {"none"}] /\ r.job = j
  BY <1>1
<1>3. ret' = [ret EXCEPT ![c] = r]
  OBVIOUS
<1> HIDE DEF r
<1>4. /\ ret' \in [Adapters -> [err : BOOLEAN, job : Parts \cup {"none"}]] /\ ret'[c] = r
      /\ \A d \in Adapters \ {c} : ret'[d] = ret[d]
  BY <1>1, <1>2, <1>3
<1>. QED
  BY <1>2, <1>4

LEMMA AnswerLost ==
  ASSUME TypeOK, NEW c \in Adapters, NEW reply, Loses(c, reply)
  PROVE  /\ lost' \in [Adapters -> BOOLEAN]
         /\ lost'[c] <=> lost[c] \/ reply \in {"jobless", "lost"}
         /\ \A d \in Adapters \ {c} : lost'[d] = lost[d]
<1> DEFINE v == lost[c] \/ reply \in {"jobless", "lost"}
<1>1. lost \in [Adapters -> BOOLEAN] /\ lost' = [lost EXCEPT ![c] = v]
  BY DEF Loses, TypeOK
<1>2. v \in BOOLEAN
  OBVIOUS
<1>. QED
  BY <1>1, <1>2, Updated

----------------------------------------------------------------------------
LEMMA AddPortStep == ASSUME Inv, NEW c \in Adapters, AddPort(c) PROVE Inv'
<1>1. TypeOK /\ Own(c) /\ Linked(c) /\ "port" \in Parts /\ "alloc" \in Parts /\ "vlan" \in Parts
  BY DEF Inv, Parts
<1>2. /\ pc[c] = "addPort" /\ op[c] = "none" /\ ~lost[c] /\ ~refs[c].port /\ ~refs[c].alloc
      /\ \A p \in Parts : res[c][p] = "absent"
      /\ UNCHANGED <<want, found, switchVars>>
  BY <1>1 DEF AddPort, Own, Adding, Gone
<1>3. CASE \E reply \in Replies, now \in BOOLEAN :
             BeginAdd(c, "port", reply, now) /\ Loses(c, reply) /\ ~Accepts(reply)
             /\ Returns(c, "add", TRUE, "none") /\ UNCHANGED refs
  <2>1. PICK reply \in Replies, now \in BOOLEAN :
          BeginAdd(c, "port", reply, now) /\ Loses(c, reply) /\ ~Accepts(reply)
          /\ Returns(c, "add", TRUE, "none") /\ UNCHANGED refs
    BY <1>3
  <2>2. /\ res' \in [Adapters -> [Parts -> States]]
        /\ job' \in [Adapters -> [Parts -> JobStates \cup {"none"}]]
        /\ \A d \in Adapters \ {c} : res'[d] = res[d] /\ job'[d] = job[d]
        /\ \A q \in Parts \ {"port"} : res'[c][q] = res[c][q] /\ job'[c][q] = job[c][q]
        /\ \/ res'[c]["port"] = "present" /\ job'[c]["port"] = "none"
           \/ res'[c]["port"] = "adding" /\ job'[c]["port"] = "active"
    BY <1>1, <2>1, AddBegun
  <2>3. /\ lost' \in [Adapters -> BOOLEAN] /\ lost'[c]
        /\ \A d \in Adapters \ {c} : lost'[d] = lost[d]
    BY <1>1, <2>1, AnswerLost DEF Accepts, Replies
  <2>4. /\ pc' \in [Adapters -> {"addPort", "lookup", "addAlloc", "back"}]
        /\ op' \in [Adapters -> {"none", "add", "vlan", "remove"}]
        /\ ret' \in [Adapters -> [err : BOOLEAN, job : Parts \cup {"none"}]]
        /\ waited' \in [Adapters -> {"no", "ok", "failed"}]
        /\ pc'[c] = "back" /\ op'[c] = "add" /\ waited'[c] = "no"
        /\ ret'[c].err /\ ret'[c].job = "none"
        /\ \A d \in Adapters \ {c} :
             pc'[d] = pc[d] /\ op'[d] = op[d] /\ ret'[d] = ret[d] /\ waited'[d] = waited[d]
    BY <1>1, <2>1, CallReturned
  <2>5. TypeOK'
    BY <1>1, <1>2, <2>1, <2>2, <2>3, <2>4 DEF TypeOK, switchVars
  <2>6. Frame(c)
    BY <1>2, <2>1, <2>2, <2>3, <2>4 DEF Frame, Same, switchVars
  <2>7. Host(c)'
    BY <1>1, <1>2, <2>2 DEF Host, Own, Parts
  <2>8. Adding(c)' /\ Added(c)' /\ Referenced(c)' /\ WithVlan(c)' /\ Removed(c)' /\ Waited(c)'
    <3>0. /\ res'[c]["vlan"] = "absent" /\ ~refs'[c].port /\ ~refs'[c].alloc
          /\ pc'[c] = "back" /\ op'[c] = "add" /\ waited'[c] = "no" /\ ret'[c].err /\ lost'[c]
      <4>1. res'[c]["vlan"] = "absent"
        BY <1>1, <1>2, <2>2
      <4>2. refs' = refs
        BY <2>1
      <4>. QED
        BY <1>2, <2>3, <2>4, <4>1, <4>2
    <3>1. Adding(c)'
      BY <3>0 DEF Adding
    <3>2. Added(c)'
      BY <3>0 DEF Added
    <3>3. Referenced(c)' /\ WithVlan(c)'
      BY <3>0 DEF Referenced, WithVlan
    <3>4. Removed(c)' /\ Waited(c)'
      BY <3>0 DEF Removed, Waited
    <3>. QED
      BY <3>1, <3>2, <3>3, <3>4
  <2>9. Linked(c)'
    BY <1>1, <1>2, <2>2 DEF Linked, switchVars
  <2>. QED
    BY <2>5, <2>6, <2>7, <2>8, <2>9, AdapterStepInv DEF Own
<1> DEFINE GoesOn(reply) ==
  IF want[c] = ""
    THEN Returns(c, "add", FALSE, JobRef(reply, "port"))
    ELSE /\ pc' = [pc EXCEPT ![c] = "lookup"]
         /\ ret' = [ret EXCEPT ![c].job = JobRef(reply, "port")]
         /\ UNCHANGED <<op, waited>>
<1>4. CASE \E reply \in Replies, now \in BOOLEAN :
             BeginAdd(c, "port", reply, now) /\ Loses(c, reply) /\ Accepts(reply)
             /\ refs' = [refs EXCEPT ![c].port = TRUE] /\ GoesOn(reply)
  <2> HIDE DEF GoesOn
  <2>1. PICK reply \in Replies, now \in BOOLEAN :
          BeginAdd(c, "port", reply, now) /\ Loses(c, reply) /\ Accepts(reply)
          /\ refs' = [refs EXCEPT ![c].port = TRUE] /\ GoesOn(reply)
    BY <1>4
  <2>2. /\ res' \in [Adapters -> [Parts -> States]]
        /\ job' \in [Adapters -> [Parts -> JobStates \cup {"none"}]]
        /\ \A d \in Adapters \ {c} : res'[d] = res[d] /\ job'[d] = job[d]
        /\ \A q \in Parts \ {"port"} : res'[c][q] = res[c][q] /\ job'[c][q] = job[c][q]
        /\ \/ res'[c]["port"] = "present" /\ job'[c]["port"] = "none" /\ reply # "job"
           \/ res'[c]["port"] = "adding" /\ job'[c]["port"] = "active" /\ reply # "done"
    BY <1>1, <2>1, AddBegun
  <2>3. /\ lost' \in [Adapters -> BOOLEAN] /\ ~lost'[c]
        /\ \A d \in Adapters \ {c} : lost'[d] = lost[d]
    BY <1>1, <1>2, <2>1, AnswerLost DEF Accepts
  <2>4. JobRef(reply, "port") \in {"port", "none"} /\ (JobRef(reply, "port") = "none" <=> reply = "done")
    BY <2>1 DEF JobRef, Accepts
  <2>5. /\ refs' \in [Adapters -> [port : BOOLEAN, alloc : BOOLEAN]]
        /\ refs'[c].port /\ ~refs'[c].alloc /\ \A d \in Adapters \ {c} : refs'[d] = refs[d]
    BY <1>1, <1>2, <2>1, PortReferenced
  <2>6. /\ pc' \in [Adapters -> {"addPort", "lookup", "addAlloc", "back"}]
        /\ op' \in [Adapters -> {"none", "add", "vlan", "remove"}]
        /\ ret' \in [Adapters -> [err : BOOLEAN, job : Parts \cup {"none"}]]
        /\ waited' \in [Adapters -> {"no", "ok", "failed"}]
        /\ waited'[c] = "no" /\ ret'[c].job = JobRef(reply, "port")
        /\ \A d \in Adapters \ {c} :
             pc'[d] = pc[d] /\ op'[d] = op[d] /\ ret'[d] = ret[d] /\ waited'[d] = waited[d]
        /\ IF want[c] = "" THEN pc'[c] = "back" /\ op'[c] = "add"
                           ELSE pc'[c] = "lookup" /\ op'[c] = "none"
    <3>1. CASE want[c] = ""
      <4>1. Returns(c, "add", FALSE, JobRef(reply, "port"))
        BY <2>1, <3>1 DEF GoesOn
      <4>2. JobRef(reply, "port") \in Parts \cup {"none"}
        BY <2>4 DEF Parts
      <4>. QED
        BY <1>1, <3>1, <4>1, <4>2, CallReturned
    <3>2. CASE want[c] # ""
      <4>1. /\ pc' = [pc EXCEPT ![c] = "lookup"]
            /\ ret' = [ret EXCEPT ![c].job = JobRef(reply, "port")]
            /\ UNCHANGED <<op, waited>>
        BY <2>1, <3>2 DEF GoesOn
      <4>2. JobRef(reply, "port") \in Parts \cup {"none"}
        BY <2>4 DEF Parts
      <4>3. /\ ret' \in [Adapters -> [err : BOOLEAN, job : Parts \cup {"none"}]]
            /\ ret'[c].job = JobRef(reply, "port")
            /\ \A d \in Adapters \ {c} : ret'[d] = ret[d]
        BY <1>1, <4>1, <4>2, JobRecorded
      <4>4. /\ pc' \in [Adapters -> {"addPort", "lookup", "addAlloc", "back"}]
            /\ pc'[c] = "lookup" /\ \A d \in Adapters \ {c} : pc'[d] = pc[d]
        <5>1. pc \in [Adapters -> {"addPort", "lookup", "addAlloc", "back"}]
          BY <1>1 DEF TypeOK
        <5>. QED
          BY <4>1, <5>1, Updated
      <4>5. /\ op' \in [Adapters -> {"none", "add", "vlan", "remove"}]
            /\ waited' \in [Adapters -> {"no", "ok", "failed"}]
            /\ op'[c] = "none" /\ waited'[c] = "no"
            /\ \A d \in Adapters \ {c} : op'[d] = op[d] /\ waited'[d] = waited[d]
        BY <1>1, <1>2, <4>1 DEF TypeOK, Own, Adding
      <4>. QED
        BY <3>2, <4>3, <4>4, <4>5
    <3>. QED
      BY <3>1, <3>2
  <2>7. TypeOK'
    BY <1>1, <1>2, <2>2, <2>3, <2>5, <2>6 DEF TypeOK, switchVars
  <2>8. Frame(c)
    BY <1>2, <2>2, <2>3, <2>5, <2>6 DEF Frame, Same, switchVars
  <2>9. Host(c)'
    BY <1>1, <1>2, <2>2 DEF Host, Own, Parts
  <2>10. Adds(c, "port")' /\ On(c, "port")'
    BY <2>2, <2>4, <2>6 DEF Adds, On
  <2>11. Adding(c)' /\ Added(c)' /\ Referenced(c)' /\ WithVlan(c)' /\ Removed(c)' /\ Waited(c)'
    <3>a. res'[c]["alloc"] = "absent" /\ res'[c]["vlan"] = "absent" /\ want'[c] = want[c]
      BY <1>1, <1>2, <2>2
    <3>b. refs'[c].port /\ ~refs'[c].alloc /\ waited'[c] = "no"
      BY <2>5, <2>6
    <3>c. \/ want[c] = "" /\ pc'[c] = "back" /\ op'[c] = "add"
          \/ want[c] # "" /\ pc'[c] = "lookup" /\ op'[c] = "none"
      BY <2>6
    <3>1. Adding(c)'
      BY <2>10, <3>a, <3>b, <3>c DEF Adding
    <3>2. Added(c)'
      BY <2>10, <3>a, <3>b, <3>c DEF Added
    <3>3. Referenced(c)' /\ WithVlan(c)'
      BY <3>a, <3>b, <3>c DEF Referenced, WithVlan
    <3>4. Removed(c)' /\ Waited(c)'
      BY <3>b, <3>c DEF Removed, Waited
    <3>. QED
      BY <3>1, <3>2, <3>3, <3>4
  <2>12. Linked(c)'
    BY <1>1, <1>2, <2>2 DEF Linked, switchVars
  <2>. QED
    BY <2>7, <2>8, <2>9, <2>11, <2>12, AdapterStepInv DEF Own
<1>5. CASE NotBegun /\ UNCHANGED <<refs, lost>> /\ Returns(c, "add", TRUE, "none")
  <2>1. /\ pc' \in [Adapters -> {"addPort", "lookup", "addAlloc", "back"}]
        /\ op' \in [Adapters -> {"none", "add", "vlan", "remove"}]
        /\ ret' \in [Adapters -> [err : BOOLEAN, job : Parts \cup {"none"}]]
        /\ waited' \in [Adapters -> {"no", "ok", "failed"}]
        /\ pc'[c] = "back" /\ op'[c] = "add" /\ waited'[c] = "no"
        /\ ret'[c].err /\ ret'[c].job = "none"
        /\ \A d \in Adapters \ {c} :
             pc'[d] = pc[d] /\ op'[d] = op[d] /\ ret'[d] = ret[d] /\ waited'[d] = waited[d]
    BY <1>1, <1>5, CallReturned
  <2>2. TypeOK'
    BY <1>1, <1>2, <1>5, <2>1 DEF TypeOK, switchVars, NotBegun
  <2>3. Frame(c)
    BY <1>2, <1>5, <2>1 DEF Frame, Same, switchVars, NotBegun
  <2>4. Host(c)'
    BY <1>1, <1>2, <1>5 DEF Host, Own, NotBegun
  <2>5. Adding(c)' /\ Added(c)' /\ Referenced(c)' /\ WithVlan(c)' /\ Removed(c)' /\ Waited(c)'
    <3>1. Adding(c)'
      BY <1>1, <1>2, <1>5, <2>1 DEF Adding, NotBegun
    <3>2. Added(c)'
      BY <1>1, <1>2, <1>5, <2>1 DEF Added, NotBegun
    <3>3. Referenced(c)' /\ WithVlan(c)'
      BY <1>1, <1>2, <1>5, <2>1 DEF Referenced, WithVlan, NotBegun
    <3>4. Removed(c)' /\ Waited(c)'
      BY <1>1, <1>2, <1>5, <2>1 DEF Removed, Waited, NotBegun
    <3>. QED
      BY <3>1, <3>2, <3>3, <3>4
  <2>6. Linked(c)'
    BY <1>1, <1>2, <1>5 DEF Linked, switchVars, NotBegun
  <2>. QED
    BY <2>2, <2>3, <2>4, <2>5, <2>6, AdapterStepInv DEF Own
<1>. QED
  BY <1>3, <1>4, <1>5 DEF AddPort

LEMMA LookupStep == ASSUME Inv, NEW c \in Adapters, Lookup(c) PROVE Inv'
<1>1. TypeOK /\ Own(c) /\ Linked(c)
  BY DEF Inv
<1>2. /\ pc[c] = "lookup" /\ op[c] = "none" /\ waited[c] = "no"
      /\ refs[c].port /\ ~refs[c].alloc /\ want[c] # "" /\ Adds(c, "port") /\ On(c, "port")
      /\ res[c]["alloc"] = "absent" /\ res[c]["vlan"] = "absent"
      /\ UNCHANGED <<want, refs, lost, res, job, switchVars>>
  BY <1>1 DEF Lookup, Own, Adding
<1>3. CASE found' \in {[found EXCEPT ![c] = s] : s \in Named(want[c])}
           /\ pc' = [pc EXCEPT ![c] = "addAlloc"] /\ UNCHANGED <<op, ret, waited>>
  <2>1. PICK s \in GUIDs : /\ found' = [found EXCEPT ![c] = s]
                           /\ switch[s] \in {"present", "removing"} /\ name[s] = want[c]
    BY <1>3 DEF Named, Listed
  <2>2. /\ found' \in [Adapters -> GUIDs \cup {0}] /\ found'[c] = s
        /\ \A d \in Adapters \ {c} : found'[d] = found[d]
    <3>1. found \in [Adapters -> GUIDs \cup {0}] /\ s \in GUIDs \cup {0}
      BY <1>1 DEF TypeOK
    <3>. QED
      BY <2>1, <3>1, Updated
  <2>3. s # 0
    BY <2>1, NetworkAssumption DEF GUIDs
  <2>4. /\ pc' \in [Adapters -> {"addPort", "lookup", "addAlloc", "back"}]
        /\ pc'[c] = "addAlloc" /\ \A d \in Adapters \ {c} : pc'[d] = pc[d]
    <3>1. pc \in [Adapters -> {"addPort", "lookup", "addAlloc", "back"}]
      BY <1>1 DEF TypeOK
    <3>. QED
      BY <1>3, <3>1, Updated
  <2>5. TypeOK'
    BY <1>1, <1>2, <1>3, <2>2, <2>4 DEF TypeOK, switchVars
  <2>6. Frame(c)
    BY <1>2, <1>3, <2>2, <2>4 DEF Frame, Same, switchVars
  <2>7. Host(c)'
    BY <1>1, <1>2, <1>3 DEF Own, Host
  <2>8. Adds(c, "port")' /\ On(c, "port")'
    BY <1>2, <1>3 DEF Adds, On
  <2>9. Adding(c)' /\ Added(c)' /\ Referenced(c)' /\ WithVlan(c)' /\ Removed(c)' /\ Waited(c)'
    <3>1. Adding(c)'
      BY <1>1, <1>2, <1>3, <2>2, <2>3, <2>4, <2>8 DEF Own, Adding
    <3>2. Added(c)'
      BY <1>1, <1>2, <1>3, <2>2, <2>3, <2>4, <2>8 DEF Own, Added
    <3>3. Referenced(c)' /\ WithVlan(c)'
      BY <1>1, <1>2, <1>3, <2>2, <2>3, <2>4, <2>8 DEF Own, Referenced, WithVlan
    <3>4. Removed(c)' /\ Waited(c)'
      BY <1>1, <1>2, <1>3, <2>2, <2>3, <2>4, <2>8 DEF Own, Removed, Waited
    <3>. QED
      BY <3>1, <3>2, <3>3, <3>4
  <2>10. Linked(c)'
    BY <1>2, <2>1, <2>2 DEF Linked, switchVars
  <2>. QED
    BY <2>5, <2>6, <2>7, <2>9, <2>10, AdapterStepInv DEF Own
<1>4. CASE Returns(c, "add", TRUE, ret[c].job) /\ UNCHANGED found
  <2>1. ret[c].job \in Parts \cup {"none"}
    BY <1>1 DEF TypeOK
  <2>2. /\ pc' \in [Adapters -> {"addPort", "lookup", "addAlloc", "back"}]
        /\ op' \in [Adapters -> {"none", "add", "vlan", "remove"}]
        /\ ret' \in [Adapters -> [err : BOOLEAN, job : Parts \cup {"none"}]]
        /\ waited' \in [Adapters -> {"no", "ok", "failed"}]
        /\ pc'[c] = "back" /\ op'[c] = "add" /\ waited'[c] = "no"
        /\ ret'[c].err /\ ret'[c].job = ret[c].job
        /\ \A d \in Adapters \ {c} :
             pc'[d] = pc[d] /\ op'[d] = op[d] /\ ret'[d] = ret[d] /\ waited'[d] = waited[d]
    BY <1>1, <1>4, <2>1, CallReturned
  <2>3. TypeOK'
    BY <1>1, <1>2, <1>4, <2>2 DEF TypeOK, switchVars
  <2>4. Frame(c)
    BY <1>2, <1>4, <2>2 DEF Frame, Same, switchVars
  <2>5. Host(c)'
    BY <1>1, <1>2, <2>2 DEF Own, Host
  <2>6. Adds(c, "port")' /\ On(c, "port")'
    BY <1>2, <2>2 DEF Adds, On
  <2>7. Adding(c)' /\ Added(c)' /\ Referenced(c)' /\ WithVlan(c)' /\ Removed(c)' /\ Waited(c)'
    <3>1. Adding(c)'
      BY <1>1, <1>2, <2>2, <2>6 DEF Own, Adding
    <3>2. Added(c)'
      BY <1>1, <1>2, <2>2, <2>6 DEF Own, Added
    <3>3. Referenced(c)' /\ WithVlan(c)'
      BY <1>1, <1>2, <2>2, <2>6 DEF Own, Referenced, WithVlan
    <3>4. Removed(c)' /\ Waited(c)'
      BY <1>1, <1>2, <2>2, <2>6 DEF Own, Removed, Waited
    <3>. QED
      BY <3>1, <3>2, <3>3, <3>4
  <2>8. Linked(c)'
    BY <1>1, <1>2, <1>4 DEF Linked, switchVars
  <2>. QED
    BY <2>3, <2>4, <2>5, <2>7, <2>8, AdapterStepInv DEF Own
<1>. QED
  BY <1>3, <1>4 DEF Lookup

LEMMA AddAllocStep == ASSUME Inv, NEW c \in Adapters, AddAlloc(c) PROVE Inv'
<1>1. TypeOK /\ Own(c) /\ Linked(c) /\ "port" \in Parts /\ "alloc" \in Parts /\ "vlan" \in Parts
  BY DEF Inv, Parts
<1>2. /\ pc[c] = "addAlloc" /\ op[c] = "none" /\ found[c] # 0
      /\ refs[c].port /\ ~refs[c].alloc /\ want[c] # "" /\ Adds(c, "port") /\ On(c, "port")
      /\ res[c]["alloc"] = "absent" /\ res[c]["vlan"] = "absent"
      /\ UNCHANGED <<want, found, switchVars>>
  BY <1>1 DEF AddAlloc, Own, Adding
<1>3. ret[c].job \in Parts \cup {"none"}
  BY <1>1 DEF TypeOK
<1>4. CASE \E reply \in Replies, now \in BOOLEAN :
             BeginAdd(c, "alloc", reply, now) /\ Loses(c, reply) /\ Accepts(reply)
             /\ refs' = [refs EXCEPT ![c].alloc = TRUE]
             /\ Returns(c, "add", FALSE, LastJob(c, reply))
  <2>1. PICK reply \in Replies, now \in BOOLEAN :
          BeginAdd(c, "alloc", reply, now) /\ Loses(c, reply) /\ Accepts(reply)
          /\ refs' = [refs EXCEPT ![c].alloc = TRUE]
          /\ Returns(c, "add", FALSE, LastJob(c, reply))
    BY <1>4
  <2>2. /\ res' \in [Adapters -> [Parts -> States]]
        /\ job' \in [Adapters -> [Parts -> JobStates \cup {"none"}]]
        /\ \A d \in Adapters \ {c} : res'[d] = res[d] /\ job'[d] = job[d]
        /\ \A q \in Parts \ {"alloc"} : res'[c][q] = res[c][q] /\ job'[c][q] = job[c][q]
        /\ CanAdd(c, "alloc")
        /\ \/ res'[c]["alloc"] = "present" /\ job'[c]["alloc"] = "none" /\ reply # "job"
           \/ res'[c]["alloc"] = "adding" /\ job'[c]["alloc"] = "active" /\ reply # "done"
    BY <1>1, <2>1, AddBegun
  <2>3. res[c]["port"] = "present" /\ switch[found[c]] = "present"
    BY <2>2 DEF CanAdd
  <2>4. lost' \in [Adapters -> BOOLEAN] /\ \A d \in Adapters \ {c} : lost'[d] = lost[d]
    BY <1>1, <2>1, AnswerLost
  <2>5. /\ LastJob(c, reply) \in {"alloc", "none"}
        /\ LastJob(c, reply) = "none" <=> reply = "done"
        /\ LastJob(c, reply) \in Parts \cup {"none"}
    BY <1>1, <2>1 DEF LastJob, JobRef, Accepts
  <2>6. /\ refs' \in [Adapters -> [port : BOOLEAN, alloc : BOOLEAN]]
        /\ refs'[c].port /\ refs'[c].alloc /\ \A d \in Adapters \ {c} : refs'[d] = refs[d]
    BY <1>1, <1>2, <2>1, AllocReferenced
  <2>7. /\ pc' \in [Adapters -> {"addPort", "lookup", "addAlloc", "back"}]
        /\ op' \in [Adapters -> {"none", "add", "vlan", "remove"}]
        /\ ret' \in [Adapters -> [err : BOOLEAN, job : Parts \cup {"none"}]]
        /\ waited' \in [Adapters -> {"no", "ok", "failed"}]
        /\ pc'[c] = "back" /\ op'[c] = "add" /\ waited'[c] = "no"
        /\ ~ret'[c].err /\ ret'[c].job = LastJob(c, reply)
        /\ \A d \in Adapters \ {c} :
             pc'[d] = pc[d] /\ op'[d] = op[d] /\ ret'[d] = ret[d] /\ waited'[d] = waited[d]
    BY <1>1, <2>1, <2>5, CallReturned
  <2>8. TypeOK'
    BY <1>1, <1>2, <2>2, <2>4, <2>6, <2>7 DEF TypeOK, switchVars
  <2>9. Frame(c)
    BY <1>2, <2>2, <2>4, <2>6, <2>7 DEF Frame, Same, switchVars
  <2>10. Host(c)'
    <3>1. /\ res'[c]["port"] = "present" /\ job'[c]["port"] # "active"
          /\ res'[c]["vlan"] = "absent" /\ job'[c]["vlan"] # "active"
      <4>1. job[c]["port"] # "active" /\ job[c]["vlan"] # "active"
        BY <1>1, <1>2, <2>3 DEF Host, Own
      <4>2. "port" \in Parts \ {"alloc"} /\ "vlan" \in Parts \ {"alloc"}
        BY DEF Parts
      <4>. QED
        BY <1>2, <2>2, <2>3, <4>1, <4>2
    <3>. QED
      BY <2>2, <3>1 DEF Host, Parts
  <2>11. Adds(c, "port")' /\ Adds(c, "alloc")' /\ On(c, "alloc")'
    <3>1. res'[c]["port"] = "present"
      BY <1>1, <2>2, <2>3
    <3>2. On(c, "alloc")'
      BY <2>2, <2>5, <2>7 DEF On
    <3>3. Adds(c, "alloc")'
      BY <2>2 DEF Adds
    <3>. QED
      BY <3>1, <3>2, <3>3 DEF Adds
  <2>12. Adding(c)' /\ Added(c)' /\ Referenced(c)' /\ WithVlan(c)' /\ Removed(c)' /\ Waited(c)'
    <3>a. res'[c]["port"] = "present" /\ res'[c]["vlan"] = "absent" /\ want'[c] # ""
      BY <1>1, <1>2, <2>2, <2>3
    <3>b. /\ refs'[c].port /\ refs'[c].alloc
          /\ pc'[c] = "back" /\ op'[c] = "add" /\ waited'[c] = "no"
      BY <2>6, <2>7
    <3>1. Adding(c)'
      BY <3>b DEF Adding
    <3>2. Added(c)'
      BY <2>11, <3>a, <3>b DEF Added
    <3>3. Referenced(c)' /\ WithVlan(c)'
      BY <3>b DEF Referenced, WithVlan
    <3>4. Removed(c)' /\ Waited(c)'
      BY <3>b DEF Removed, Waited
    <3>. QED
      BY <3>1, <3>2, <3>3, <3>4
  <2>13. Linked(c)'
    BY <1>1, <1>2, <2>3 DEF Linked, switchVars
  <2>. QED
    BY <2>8, <2>9, <2>10, <2>12, <2>13, AdapterStepInv DEF Own
<1>5. CASE \E reply \in Replies, now \in BOOLEAN :
             BeginAdd(c, "alloc", reply, now) /\ Loses(c, reply) /\ ~Accepts(reply)
             /\ Returns(c, "add", TRUE, ret[c].job) /\ UNCHANGED refs
  <2>1. PICK reply \in Replies, now \in BOOLEAN :
          BeginAdd(c, "alloc", reply, now) /\ Loses(c, reply) /\ ~Accepts(reply)
          /\ Returns(c, "add", TRUE, ret[c].job) /\ UNCHANGED refs
    BY <1>5
  <2>2. /\ res' \in [Adapters -> [Parts -> States]]
        /\ job' \in [Adapters -> [Parts -> JobStates \cup {"none"}]]
        /\ \A d \in Adapters \ {c} : res'[d] = res[d] /\ job'[d] = job[d]
        /\ \A q \in Parts \ {"alloc"} : res'[c][q] = res[c][q] /\ job'[c][q] = job[c][q]
        /\ CanAdd(c, "alloc")
        /\ \/ res'[c]["alloc"] = "present" /\ job'[c]["alloc"] = "none"
           \/ res'[c]["alloc"] = "adding" /\ job'[c]["alloc"] = "active"
    BY <1>1, <2>1, AddBegun
  <2>3. res[c]["port"] = "present" /\ switch[found[c]] = "present"
    BY <2>2 DEF CanAdd
  <2>4. /\ lost' \in [Adapters -> BOOLEAN] /\ lost'[c]
        /\ \A d \in Adapters \ {c} : lost'[d] = lost[d]
    BY <1>1, <2>1, AnswerLost DEF Accepts, Replies
  <2>5. /\ pc' \in [Adapters -> {"addPort", "lookup", "addAlloc", "back"}]
        /\ op' \in [Adapters -> {"none", "add", "vlan", "remove"}]
        /\ ret' \in [Adapters -> [err : BOOLEAN, job : Parts \cup {"none"}]]
        /\ waited' \in [Adapters -> {"no", "ok", "failed"}]
        /\ pc'[c] = "back" /\ op'[c] = "add" /\ waited'[c] = "no"
        /\ ret'[c].err /\ ret'[c].job = ret[c].job
        /\ \A d \in Adapters \ {c} :
             pc'[d] = pc[d] /\ op'[d] = op[d] /\ ret'[d] = ret[d] /\ waited'[d] = waited[d]
    BY <1>1, <1>3, <2>1, CallReturned
  <2>6. TypeOK'
    BY <1>1, <1>2, <2>1, <2>2, <2>4, <2>5 DEF TypeOK, switchVars
  <2>7. Frame(c)
    BY <1>2, <2>1, <2>2, <2>4, <2>5 DEF Frame, Same, switchVars
  <2>8. Host(c)'
    <3>1. /\ res'[c]["port"] = "present" /\ job'[c]["port"] # "active"
          /\ res'[c]["vlan"] = "absent" /\ job'[c]["vlan"] # "active"
      <4>1. job[c]["port"] # "active" /\ job[c]["vlan"] # "active"
        BY <1>1, <1>2, <2>3 DEF Host, Own
      <4>2. "port" \in Parts \ {"alloc"} /\ "vlan" \in Parts \ {"alloc"}
        BY DEF Parts
      <4>. QED
        BY <1>2, <2>2, <2>3, <4>1, <4>2
    <3>. QED
      BY <2>2, <3>1 DEF Host, Parts
  <2>9. Adds(c, "port")' /\ On(c, "port")'
    <3>1. res'[c]["port"] = "present" /\ job'[c]["port"] = job[c]["port"]
      BY <1>1, <2>2, <2>3
    <3>2. On(c, "port")'
      BY <1>2, <2>5, <3>1 DEF On
    <3>. QED
      BY <3>1, <3>2 DEF Adds
  <2>10. Adding(c)' /\ Added(c)' /\ Referenced(c)' /\ WithVlan(c)' /\ Removed(c)' /\ Waited(c)'
    <3>a. res'[c]["vlan"] = "absent"
      BY <1>1, <1>2, <2>2
    <3>b. refs'[c].port /\ ~refs'[c].alloc
      BY <1>2, <2>1
    <3>c. /\ pc'[c] = "back" /\ op'[c] = "add" /\ waited'[c] = "no"
          /\ ret'[c].err /\ lost'[c]
      BY <2>4, <2>5
    <3>1. Adding(c)'
      BY <3>c DEF Adding
    <3>2. Added(c)'
      BY <2>9, <3>a, <3>b, <3>c DEF Added
    <3>3. Referenced(c)' /\ WithVlan(c)'
      BY <3>c DEF Referenced, WithVlan
    <3>4. Removed(c)' /\ Waited(c)'
      BY <3>c DEF Removed, Waited
    <3>. QED
      BY <3>1, <3>2, <3>3, <3>4
  <2>11. Linked(c)'
    BY <1>1, <1>2, <2>3 DEF Linked, switchVars
  <2>. QED
    BY <2>6, <2>7, <2>8, <2>10, <2>11, AdapterStepInv DEF Own
<1>6. CASE NotBegun /\ UNCHANGED <<refs, lost>> /\ Returns(c, "add", TRUE, ret[c].job)
  <2>1. /\ pc' \in [Adapters -> {"addPort", "lookup", "addAlloc", "back"}]
        /\ op' \in [Adapters -> {"none", "add", "vlan", "remove"}]
        /\ ret' \in [Adapters -> [err : BOOLEAN, job : Parts \cup {"none"}]]
        /\ waited' \in [Adapters -> {"no", "ok", "failed"}]
        /\ pc'[c] = "back" /\ op'[c] = "add" /\ waited'[c] = "no"
        /\ ret'[c].err /\ ret'[c].job = ret[c].job
        /\ \A d \in Adapters \ {c} :
             pc'[d] = pc[d] /\ op'[d] = op[d] /\ ret'[d] = ret[d] /\ waited'[d] = waited[d]
    BY <1>1, <1>3, <1>6, CallReturned
  <2>2. TypeOK'
    BY <1>1, <1>2, <1>6, <2>1 DEF TypeOK, switchVars, NotBegun
  <2>3. Frame(c)
    BY <1>2, <1>6, <2>1 DEF Frame, Same, switchVars, NotBegun
  <2>4. Host(c)'
    BY <1>1, <1>2, <1>6, <2>1 DEF Host, Own, NotBegun
  <2>5. Adds(c, "port")' /\ On(c, "port")'
    BY <1>2, <1>6, <2>1 DEF Adds, On, NotBegun
  <2>6. Adding(c)' /\ Added(c)' /\ Referenced(c)' /\ WithVlan(c)' /\ Removed(c)' /\ Waited(c)'
    <3>1. Adding(c)'
      BY <1>1, <1>2, <1>6, <2>1, <2>5 DEF Own, Adding, NotBegun
    <3>2. Added(c)'
      BY <1>1, <1>2, <1>6, <2>1, <2>5 DEF Own, Added, NotBegun
    <3>3. Referenced(c)' /\ WithVlan(c)'
      BY <1>1, <1>2, <1>6, <2>1, <2>5 DEF Own, Referenced, WithVlan, NotBegun
    <3>4. Removed(c)' /\ Waited(c)'
      BY <1>1, <1>2, <1>6, <2>1, <2>5 DEF Own, Removed, Waited, NotBegun
    <3>. QED
      BY <3>1, <3>2, <3>3, <3>4
  <2>7. Linked(c)'
    BY <1>1, <1>2, <1>6 DEF Linked, switchVars, NotBegun
  <2>. QED
    BY <2>2, <2>3, <2>4, <2>6, <2>7, AdapterStepInv DEF Own
<1>. QED
  BY <1>4, <1>5, <1>6 DEF AddAlloc

LEMMA WaitStep == ASSUME Inv, NEW c \in Adapters, Wait(c) PROVE Inv'
<1>1. TypeOK /\ Own(c) /\ Linked(c)
  BY DEF Inv
<1>2. /\ pc[c] = "back"
      /\ UNCHANGED <<want, pc, op, refs, ret, found, lost, res, job, switchVars>>
  BY DEF Wait
<1>3. PICK v \in IF ret[c].job = "none" THEN {"ok"} ELSE Verdicts(job[c][ret[c].job]) :
        waited' = [waited EXCEPT ![c] = IF v = "ok" THEN "ok" ELSE "failed"]
  BY DEF Wait
<1>4. /\ waited' \in [Adapters -> {"no", "ok", "failed"}]
      /\ waited'[c] = (IF v = "ok" THEN "ok" ELSE "failed")
      /\ \A d \in Adapters \ {c} : waited'[d] = waited[d]
  <2>1. waited \in [Adapters -> {"no", "ok", "failed"}]
    BY <1>1 DEF TypeOK
  <2>2. (IF v = "ok" THEN "ok" ELSE "failed") \in {"no", "ok", "failed"}
    OBVIOUS
  <2>. QED
    BY <1>3, <2>1, <2>2, Updated
<1>5. TypeOK'
  BY <1>1, <1>2, <1>4 DEF TypeOK, switchVars
<1>6. Frame(c)
  BY <1>2, <1>4 DEF Frame, Same, switchVars
<1>7. \A p : (Adds(c, p) <=> Adds(c, p)') /\ (On(c, p) <=> On(c, p)')
  BY <1>2 DEF Adds, On
<1>8. Host(c)' /\ Referenced(c)' /\ WithVlan(c)' /\ Removed(c)' /\ Added(c)' /\ Adding(c)'
  BY <1>1, <1>2, <1>7 DEF Own, Host, Referenced, WithVlan, Removed, Added, Adding, Gone
<1>9. Waited(c)'
  BY <1>2, <1>3, <1>4 DEF Waited, Verdicts
<1>10. Linked(c)'
  BY <1>1, <1>2 DEF Linked, switchVars
<1>. QED
  BY <1>5, <1>6, <1>8, <1>9, <1>10, AdapterStepInv DEF Own

LEMMA AddVlanStep == ASSUME Inv, NEW c \in Adapters, AddVlan(c) PROVE Inv'
<1>1. TypeOK /\ Own(c) /\ Linked(c) /\ "port" \in Parts /\ "alloc" \in Parts /\ "vlan" \in Parts
  BY DEF Inv, Parts
<1>2. /\ pc[c] = "back" /\ op[c] = "add" /\ refs[c].alloc
      /\ UNCHANGED <<want, refs, found, switchVars>>
  BY DEF AddVlan
<1>3. CASE \E reply \in Replies, now \in BOOLEAN :
             BeginAdd(c, "vlan", reply, now) /\ Loses(c, reply)
             /\ Returns(c, "vlan", ~Accepts(reply), JobRef(reply, "vlan"))
  <2>1. PICK reply \in Replies, now \in BOOLEAN :
          BeginAdd(c, "vlan", reply, now) /\ Loses(c, reply)
          /\ Returns(c, "vlan", ~Accepts(reply), JobRef(reply, "vlan"))
    BY <1>3
  <2>2. /\ res' \in [Adapters -> [Parts -> States]]
        /\ job' \in [Adapters -> [Parts -> JobStates \cup {"none"}]]
        /\ \A d \in Adapters \ {c} : res'[d] = res[d] /\ job'[d] = job[d]
        /\ \A q \in Parts \ {"vlan"} : res'[c][q] = res[c][q] /\ job'[c][q] = job[c][q]
        /\ CanAdd(c, "vlan")
        /\ \/ res'[c]["vlan"] = "present" /\ job'[c]["vlan"] = "none" /\ reply # "job"
           \/ res'[c]["vlan"] = "adding" /\ job'[c]["vlan"] = "active" /\ reply # "done"
    BY <1>1, <2>1, AddBegun
  <2>3. lost' \in [Adapters -> BOOLEAN] /\ \A d \in Adapters \ {c} : lost'[d] = lost[d]
    BY <1>1, <2>1, AnswerLost
  <2>4. /\ JobRef(reply, "vlan") \in {"vlan", "none"}
        /\ JobRef(reply, "vlan") = "none" <=> reply # "job"
        /\ JobRef(reply, "vlan") \in Parts \cup {"none"}
        /\ (~Accepts(reply)) \in BOOLEAN
    <3>1. (~Accepts(reply)) \in BOOLEAN
      BY DEF Accepts
    <3>. QED
      BY <1>1, <3>1 DEF JobRef
  <2>5. /\ pc' \in [Adapters -> {"addPort", "lookup", "addAlloc", "back"}]
        /\ op' \in [Adapters -> {"none", "add", "vlan", "remove"}]
        /\ ret' \in [Adapters -> [err : BOOLEAN, job : Parts \cup {"none"}]]
        /\ waited' \in [Adapters -> {"no", "ok", "failed"}]
        /\ pc'[c] = "back" /\ op'[c] = "vlan" /\ waited'[c] = "no"
        /\ ret'[c].err = ~Accepts(reply) /\ ret'[c].job = JobRef(reply, "vlan")
        /\ \A d \in Adapters \ {c} :
             pc'[d] = pc[d] /\ op'[d] = op[d] /\ ret'[d] = ret[d] /\ waited'[d] = waited[d]
    BY <1>1, <2>1, <2>4, CallReturned
  <2>6. TypeOK'
    BY <1>1, <1>2, <2>2, <2>3, <2>5 DEF TypeOK, switchVars
  <2>7. Frame(c)
    BY <1>2, <2>2, <2>3, <2>5 DEF Frame, Same, switchVars
  <2>8. /\ res[c]["alloc"] = "present" /\ res[c]["port"] = "present"
        /\ job[c]["port"] # "active" /\ job[c]["alloc"] # "active"
    BY <1>1, <1>2, <2>2 DEF CanAdd, Own, Host
  <2>9. /\ res'[c]["alloc"] = "present" /\ res'[c]["port"] = "present"
        /\ job'[c]["port"] # "active" /\ job'[c]["alloc"] # "active"
    <3>1. "port" \in Parts \ {"vlan"} /\ "alloc" \in Parts \ {"vlan"}
      BY DEF Parts
    <3>. QED
      BY <2>2, <2>8, <3>1
  <2>10. Host(c)'
    BY <2>2, <2>9 DEF Host, Parts
  <2>11. Adds(c, "vlan")' /\ (Accepts(reply) => On(c, "vlan")')
    BY <2>2, <2>4, <2>5 DEF Adds, On, Accepts
  <2>12. Adding(c)' /\ Added(c)' /\ Referenced(c)' /\ WithVlan(c)' /\ Removed(c)' /\ Waited(c)'
    <3>1. Adding(c)'
      BY <1>1, <1>2, <2>5, <2>9, <2>11 DEF Adding
    <3>2. Added(c)'
      BY <1>1, <1>2, <2>5, <2>9, <2>11 DEF Added
    <3>3. Referenced(c)' /\ WithVlan(c)'
      BY <1>1, <1>2, <2>5, <2>9, <2>11 DEF Referenced, WithVlan
    <3>4. Removed(c)' /\ Waited(c)'
      BY <1>1, <1>2, <2>5, <2>9, <2>11 DEF Removed, Waited
    <3>. QED
      BY <3>1, <3>2, <3>3, <3>4
  <2>13. Linked(c)'
    BY <1>1, <1>2, <2>8 DEF Linked, switchVars
  <2>. QED
    BY <2>6, <2>7, <2>10, <2>12, <2>13, AdapterStepInv DEF Own
<1>4. CASE NotBegun /\ UNCHANGED lost /\ Returns(c, "vlan", TRUE, "none")
  <2>1. /\ pc' \in [Adapters -> {"addPort", "lookup", "addAlloc", "back"}]
        /\ op' \in [Adapters -> {"none", "add", "vlan", "remove"}]
        /\ ret' \in [Adapters -> [err : BOOLEAN, job : Parts \cup {"none"}]]
        /\ waited' \in [Adapters -> {"no", "ok", "failed"}]
        /\ pc'[c] = "back" /\ op'[c] = "vlan" /\ waited'[c] = "no"
        /\ ret'[c].err /\ ret'[c].job = "none"
        /\ \A d \in Adapters \ {c} :
             pc'[d] = pc[d] /\ op'[d] = op[d] /\ ret'[d] = ret[d] /\ waited'[d] = waited[d]
    BY <1>1, <1>4, CallReturned
  <2>2. TypeOK'
    BY <1>1, <1>2, <1>4, <2>1 DEF TypeOK, switchVars, NotBegun
  <2>3. Frame(c)
    BY <1>2, <1>4, <2>1 DEF Frame, Same, switchVars, NotBegun
  <2>4. Host(c)'
    BY <1>1, <1>2, <1>4, <2>1 DEF Host, Own, NotBegun
  <2>5. Adding(c)' /\ Added(c)' /\ Referenced(c)' /\ WithVlan(c)' /\ Removed(c)' /\ Waited(c)'
    <3>1. Adding(c)'
      BY <2>1 DEF Adding
    <3>2. Added(c)'
      BY <2>1 DEF Added
    <3>3. Referenced(c)' /\ WithVlan(c)'
      BY <2>1 DEF Referenced, WithVlan
    <3>4. Removed(c)' /\ Waited(c)'
      BY <2>1 DEF Removed, Waited
    <3>. QED
      BY <3>1, <3>2, <3>3, <3>4
  <2>6. Linked(c)'
    BY <1>1, <1>2, <1>4 DEF Linked, switchVars, NotBegun
  <2>. QED
    BY <2>2, <2>3, <2>4, <2>5, <2>6, AdapterStepInv DEF Own
<1>. QED
  BY <1>3, <1>4 DEF AddVlan

LEMMA RemoveStep == ASSUME Inv, NEW c \in Adapters, RemoveAdapter(c) PROVE Inv'
<1>1. TypeOK /\ Own(c) /\ Linked(c) /\ "port" \in Parts /\ "alloc" \in Parts /\ "vlan" \in Parts
  BY DEF Inv, Parts
<1>2. pc[c] = "back" /\ refs[c].port /\ UNCHANGED <<want, refs, found, switchVars>>
  BY DEF RemoveAdapter
<1>3. CASE \E reply \in Replies, now \in BOOLEAN :
             BeginRemove(c, reply, now) /\ Loses(c, reply)
             /\ Returns(c, "remove", ~Accepts(reply), JobRef(reply, "port"))
  <2>1. PICK reply \in Replies, now \in BOOLEAN :
          BeginRemove(c, reply, now) /\ Loses(c, reply)
          /\ Returns(c, "remove", ~Accepts(reply), JobRef(reply, "port"))
    BY <1>3
  <2>2. /\ res' \in [Adapters -> [Parts -> States]]
        /\ job' \in [Adapters -> [Parts -> JobStates \cup {"none"}]]
        /\ \A d \in Adapters \ {c} : res'[d] = res[d] /\ job'[d] = job[d]
        /\ CanRemove(c)
        /\ job'[c]["alloc"] = job[c]["alloc"] /\ job'[c]["vlan"] = job[c]["vlan"]
        /\ \/ res'[c] = Gone /\ job'[c]["port"] = "none" /\ reply # "job"
           \/ /\ res'[c]["port"] = "removing" /\ job'[c]["port"] = "active"
              /\ reply # "done"
              /\ res'[c]["alloc"] = res[c]["alloc"] /\ res'[c]["vlan"] = res[c]["vlan"]
    BY <1>1, <2>1, RemoveBegun
  <2>3. lost' \in [Adapters -> BOOLEAN] /\ \A d \in Adapters \ {c} : lost'[d] = lost[d]
    BY <1>1, <2>1, AnswerLost
  <2>4. /\ JobRef(reply, "port") \in {"port", "none"}
        /\ JobRef(reply, "port") = "none" <=> reply # "job"
        /\ JobRef(reply, "port") \in Parts \cup {"none"}
        /\ (~Accepts(reply)) \in BOOLEAN
    <3>1. (~Accepts(reply)) \in BOOLEAN
      BY DEF Accepts
    <3>. QED
      BY <1>1, <3>1 DEF JobRef
  <2>5. /\ pc' \in [Adapters -> {"addPort", "lookup", "addAlloc", "back"}]
        /\ op' \in [Adapters -> {"none", "add", "vlan", "remove"}]
        /\ ret' \in [Adapters -> [err : BOOLEAN, job : Parts \cup {"none"}]]
        /\ waited' \in [Adapters -> {"no", "ok", "failed"}]
        /\ pc'[c] = "back" /\ op'[c] = "remove" /\ waited'[c] = "no"
        /\ ret'[c].err = ~Accepts(reply) /\ ret'[c].job = JobRef(reply, "port")
        /\ \A d \in Adapters \ {c} :
             pc'[d] = pc[d] /\ op'[d] = op[d] /\ ret'[d] = ret[d] /\ waited'[d] = waited[d]
    BY <1>1, <2>1, <2>4, CallReturned
  <2>6. TypeOK'
    BY <1>1, <1>2, <2>2, <2>3, <2>5 DEF TypeOK, switchVars
  <2>7. Frame(c)
    BY <1>2, <2>2, <2>3, <2>5 DEF Frame, Same, switchVars
  <2>8. /\ res[c]["alloc"] \in {"absent", "present"} /\ res[c]["vlan"] \in {"absent", "present"}
        /\ res[c]["vlan"] # "absent" => res[c]["alloc"] = "present"
        /\ job[c]["alloc"] # "active" /\ job[c]["vlan"] # "active"
    BY <1>1, <2>2 DEF CanRemove, Own, Host
  <2>9. Host(c)'
    <3>1. CASE res'[c] = Gone /\ job'[c]["port"] = "none"
      BY <2>2, <2>8, <3>1 DEF Host, Parts, Gone
    <3>2. CASE /\ res'[c]["port"] = "removing" /\ job'[c]["port"] = "active"
               /\ res'[c]["alloc"] = res[c]["alloc"] /\ res'[c]["vlan"] = res[c]["vlan"]
      BY <2>2, <2>5, <2>8, <3>2 DEF Host, Parts
    <3>. QED
      BY <2>2, <3>1, <3>2
  <2>10. Removed(c)'
    BY <2>2, <2>4, <2>5 DEF Removed, On, Accepts, Gone
  <2>11. Adding(c)' /\ Added(c)' /\ Referenced(c)' /\ WithVlan(c)' /\ Waited(c)'
    BY <2>5 DEF Adding, Added, Referenced, WithVlan, Waited
  <2>12. Linked(c)'
    BY <1>1, <1>2, <2>2 DEF Linked, switchVars, Gone
  <2>. QED
    BY <2>6, <2>7, <2>9, <2>10, <2>11, <2>12, AdapterStepInv DEF Own
<1>4. CASE NotBegun /\ UNCHANGED lost /\ Returns(c, "remove", TRUE, "none")
  <2>1. /\ pc' \in [Adapters -> {"addPort", "lookup", "addAlloc", "back"}]
        /\ op' \in [Adapters -> {"none", "add", "vlan", "remove"}]
        /\ ret' \in [Adapters -> [err : BOOLEAN, job : Parts \cup {"none"}]]
        /\ waited' \in [Adapters -> {"no", "ok", "failed"}]
        /\ pc'[c] = "back" /\ op'[c] = "remove" /\ waited'[c] = "no"
        /\ ret'[c].err /\ ret'[c].job = "none"
        /\ \A d \in Adapters \ {c} :
             pc'[d] = pc[d] /\ op'[d] = op[d] /\ ret'[d] = ret[d] /\ waited'[d] = waited[d]
    BY <1>1, <1>4, CallReturned
  <2>2. TypeOK'
    BY <1>1, <1>2, <1>4, <2>1 DEF TypeOK, switchVars, NotBegun
  <2>3. Frame(c)
    BY <1>2, <1>4, <2>1 DEF Frame, Same, switchVars, NotBegun
  <2>4. Host(c)'
    BY <1>1, <1>2, <1>4, <2>1 DEF Host, Own, NotBegun
  <2>5. Adding(c)' /\ Added(c)' /\ Referenced(c)' /\ WithVlan(c)' /\ Removed(c)' /\ Waited(c)'
    <3>1. Adding(c)'
      BY <2>1 DEF Adding
    <3>2. Added(c)'
      BY <2>1 DEF Added
    <3>3. Referenced(c)' /\ WithVlan(c)'
      BY <2>1 DEF Referenced, WithVlan
    <3>4. Removed(c)' /\ Waited(c)'
      BY <2>1 DEF Removed, Waited
    <3>. QED
      BY <3>1, <3>2, <3>3, <3>4
  <2>6. Linked(c)'
    BY <1>1, <1>2, <1>4 DEF Linked, switchVars, NotBegun
  <2>. QED
    BY <2>2, <2>3, <2>4, <2>5, <2>6, AdapterStepInv DEF Own
<1>. QED
  BY <1>3, <1>4 DEF RemoveAdapter

\* How a job of an adapter ends.
LEMMA JobEnded ==
  ASSUME TypeOK, NEW c \in Adapters, NEW p \in Parts, JobEnds(c, p)
  PROVE  /\ res' \in [Adapters -> [Parts -> States]]
         /\ job' \in [Adapters -> [Parts -> JobStates \cup {"none"}]]
         /\ \A d \in Adapters \ {c} : res'[d] = res[d] /\ job'[d] = job[d]
         /\ \A q \in Parts \ {p} : job'[c][q] = job[c][q]
         /\ job[c][p] = "active" /\ job'[c][p] \in {"completed", "failed"}
         /\ \/ /\ res[c][p] = "adding" /\ \A q \in Parts \ {p} : res'[c][q] = res[c][q]
               /\ res'[c][p] = IF job'[c][p] = "completed" THEN "present" ELSE "absent"
            \/ res[c][p] # "adding" /\ job'[c][p] = "completed" /\ res'[c] = Gone
            \/ /\ res[c][p] # "adding" /\ job'[c][p] = "failed" /\ res'[c][p] = "present"
               /\ \A q \in Parts \ {p} : res'[c][q] = res[c][q]
<1>1. /\ res \in [Adapters -> [Parts -> States]] /\ Gone \in [Parts -> States]
      /\ job \in [Adapters -> [Parts -> JobStates \cup {"none"}]]
  BY DEF TypeOK, Gone, States
<1>2. PICK state \in {"completed", "failed"} :
        /\ job' = [job EXCEPT ![c] = [@ EXCEPT ![p] = state]]
        /\ res' = [res EXCEPT ![c] =
                     IF res[c][p] = "adding"
                       THEN [@ EXCEPT ![p] = IF state = "completed" THEN "present" ELSE "absent"]
                       ELSE IF state = "completed" THEN Gone
                       ELSE [@ EXCEPT ![p] = "present"]]
  BY DEF JobEnds
<1>3. /\ job' \in [Adapters -> [Parts -> JobStates \cup {"none"}]]
      /\ job'[c][p] = state
      /\ \A q \in Parts \ {p} : job'[c][q] = job[c][q]
      /\ \A d \in Adapters \ {c} : job'[d] = job[d]
  <2>1. [job[c] EXCEPT ![p] = state] \in [Parts -> JobStates \cup {"none"}]
    BY <1>1 DEF JobStates
  <2>. QED
    BY <1>1, <1>2, <2>1
<1>4. ASSUME NEW r \in States, res' = [res EXCEPT ![c] = [@ EXCEPT ![p] = r]]
      PROVE  /\ res' \in [Adapters -> [Parts -> States]] /\ res'[c][p] = r
             /\ \A q \in Parts \ {p} : res'[c][q] = res[c][q]
             /\ \A d \in Adapters \ {c} : res'[d] = res[d]
  <2>1. [res[c] EXCEPT ![p] = r] \in [Parts -> States]
    BY <1>1
  <2>. QED
    BY <1>1, <1>4, <2>1
<1>5. job[c][p] = "active"
  BY DEF JobEnds
<1>6. CASE res[c][p] = "adding"
  <2>1. res' = [res EXCEPT ![c] =
                  [@ EXCEPT ![p] = IF state = "completed" THEN "present" ELSE "absent"]]
    BY <1>2, <1>6
  <2>. QED
    BY <1>3, <1>4, <1>5, <1>6, <2>1 DEF States
<1>7. CASE res[c][p] # "adding" /\ state = "completed"
  <2>1. res' = [res EXCEPT ![c] = Gone]
    BY <1>2, <1>7
  <2>. QED
    BY <1>1, <1>3, <1>5, <1>7, <2>1
<1>8. CASE res[c][p] # "adding" /\ state = "failed"
  <2>1. res' = [res EXCEPT ![c] = [@ EXCEPT ![p] = "present"]]
    BY <1>2, <1>8
  <2>. QED
    BY <1>3, <1>4, <1>5, <1>8, <2>1 DEF States
<1>. QED
  BY <1>6, <1>7, <1>8

LEMMA JobEndsStep == ASSUME Inv, NEW c \in Adapters, NEW p \in Parts, JobEnds(c, p) PROVE Inv'
<1>1. TypeOK /\ Own(c) /\ Linked(c) /\ "port" \in Parts /\ "alloc" \in Parts /\ "vlan" \in Parts
  BY DEF Inv, Parts
<1>2. UNCHANGED <<want, pc, op, refs, ret, waited, found, lost, switchVars>>
  BY DEF JobEnds
<1>3. /\ res' \in [Adapters -> [Parts -> States]]
      /\ job' \in [Adapters -> [Parts -> JobStates \cup {"none"}]]
      /\ \A d \in Adapters \ {c} : res'[d] = res[d] /\ job'[d] = job[d]
      /\ \A q \in Parts \ {p} : job'[c][q] = job[c][q]
      /\ job[c][p] = "active" /\ job'[c][p] \in {"completed", "failed"}
      /\ \/ /\ res[c][p] = "adding" /\ \A q \in Parts \ {p} : res'[c][q] = res[c][q]
            /\ res'[c][p] = IF job'[c][p] = "completed" THEN "present" ELSE "absent"
         \/ res[c][p] # "adding" /\ job'[c][p] = "completed" /\ res'[c] = Gone
         \/ /\ res[c][p] # "adding" /\ job'[c][p] = "failed" /\ res'[c][p] = "present"
            /\ \A q \in Parts \ {p} : res'[c][q] = res[c][q]
  BY <1>1, JobEnded
<1>4. TypeOK'
  BY <1>1, <1>2, <1>3 DEF TypeOK, switchVars
<1>5. Frame(c)
  BY <1>2, <1>3 DEF Frame, Same, switchVars
<1>6. /\ Host(c) /\ Adding(c) /\ Added(c) /\ Referenced(c) /\ WithVlan(c) /\ Removed(c)
      /\ Waited(c)
  BY <1>1 DEF Own
<1>7. \A q : On(c, q) /\ q \in Parts => On(c, q)'
  BY <1>2, <1>3 DEF On
<1>8. Waited(c)'
  <2>1. SUFFICES ASSUME waited[c] = "ok", ret[c].job # "none"
                 PROVE  job'[c][ret[c].job] = "completed"
    BY <1>2 DEF Waited
  <2>2. ret[c].job \in Parts
    <3>1. ret[c] \in [err : BOOLEAN, job : Parts \cup {"none"}]
      BY <1>1 DEF TypeOK
    <3>2. ret[c].job \in Parts \cup {"none"}
      BY <3>1
    <3>. QED
      BY <2>1, <3>2
  <2>3. job[c][ret[c].job] = "completed"
    BY <1>6, <2>1 DEF Waited
  <2>. QED
    BY <1>3, <2>2, <2>3
<1>9. CASE /\ res[c][p] = "adding" /\ \A q \in Parts \ {p} : res'[c][q] = res[c][q]
           /\ res'[c][p] = IF job'[c][p] = "completed" THEN "present" ELSE "absent"
  <2>1. /\ p = "port" => res[c]["alloc"] = "absent" /\ res[c]["vlan"] = "absent"
        /\ p = "alloc" => res[c]["port"] = "present" /\ res[c]["vlan"] = "absent"
        /\ p = "vlan" => res[c]["port"] = "present" /\ res[c]["alloc"] = "present"
    BY <1>1, <1>6, <1>9 DEF Host
  <2>2. Host(c)'
    <3>1. CASE p = "port"
      BY <1>2, <1>3, <1>6, <1>9, <2>1, <3>1 DEF Host, Parts
    <3>2. CASE p = "alloc"
      BY <1>2, <1>3, <1>6, <1>9, <2>1, <3>2 DEF Host, Parts
    <3>3. CASE p = "vlan"
      BY <1>2, <1>3, <1>6, <1>9, <2>1, <3>3 DEF Host, Parts
    <3>. QED
      BY <3>1, <3>2, <3>3 DEF Parts
  <2>3. \A q \in Parts : Adds(c, q) => Adds(c, q)'
    BY <1>3, <1>9 DEF Adds
  <2>4. pc[c] # "addPort"
    BY <1>6, <1>9 DEF Adding, Gone
  <2>5. Adding(c)'
    BY <1>1, <1>2, <1>6, <1>7, <1>9, <2>3, <2>4 DEF Adding
  <2>6. Added(c)'
    BY <1>1, <1>2, <1>6, <1>7, <1>9, <2>3 DEF Added
  <2>7. Referenced(c)' /\ WithVlan(c)'
    BY <1>1, <1>2, <1>6, <1>7, <1>9, <2>3 DEF Referenced, WithVlan
  <2>8. Removed(c)'
    <3>1. SUFFICES ASSUME op[c] = "remove", ~ret[c].err PROVE Removed(c)'
      BY <1>2 DEF Removed
    <3>2. p # "port"
      BY <1>3, <1>6, <1>9, <3>1 DEF Removed
    <3>3. job[c]["port"] \notin {"none", "completed", "active"}
      BY <1>1, <1>6, <1>9, <2>1, <3>1, <3>2 DEF Removed, Gone, Parts
    <3>4. job'[c]["port"] = job[c]["port"]
      BY <1>1, <1>3, <3>2
    <3>. QED
      BY <1>1, <1>6, <1>7, <3>1, <3>3, <3>4 DEF Removed
  <2>9. Linked(c)'
    BY <1>1, <1>2, <1>9 DEF Linked, switchVars
  <2>. QED
    BY <1>4, <1>5, <1>8, <2>2, <2>5, <2>6, <2>7, <2>8, <2>9, AdapterStepInv DEF Own
<1>10. CASE res[c][p] # "adding"
  <2>1. /\ res[c][p] = "removing" /\ p = "port" /\ op[c] = "remove" /\ pc[c] = "back"
        /\ res[c]["alloc"] \in {"absent", "present"} /\ res[c]["vlan"] \in {"absent", "present"}
        /\ job[c]["alloc"] # "active" /\ job[c]["vlan"] # "active"
    BY <1>1, <1>3, <1>6, <1>10 DEF Host, Adding
  <2>2. \/ job'[c]["port"] = "completed" /\ res'[c] = Gone
        \/ /\ job'[c]["port"] = "failed" /\ res'[c]["port"] = "present"
           /\ res'[c]["alloc"] = res[c]["alloc"] /\ res'[c]["vlan"] = res[c]["vlan"]
    BY <1>1, <1>3, <1>10, <2>1
  <2>3. job'[c]["alloc"] # "active" /\ job'[c]["vlan"] # "active"
    BY <1>1, <1>3, <2>1
  <2>4. Host(c)'
    BY <1>6, <2>1, <2>2, <2>3 DEF Host, Parts, Gone
  <2>5. Adding(c)' /\ Added(c)' /\ Referenced(c)' /\ WithVlan(c)'
    BY <1>2, <2>1 DEF Adding, Added, Referenced, WithVlan
  <2>6. Removed(c)'
    BY <1>1, <1>2, <1>6, <1>7, <2>2 DEF Removed
  <2>7. Linked(c)'
    BY <1>1, <1>2, <2>2 DEF Linked, switchVars, Gone
  <2>. QED
    BY <1>4, <1>5, <1>8, <2>4, <2>5, <2>6, <2>7, AdapterStepInv DEF Own
<1>. QED
  BY <1>3, <1>9, <1>10

----------------------------------------------------------------------------
\* What any step may do to a switch: it keeps its name once it has one, what
\* was made is not unmade, and what is in use is not touched.
Evolves(s) ==
  /\ switch[s] # "none" => switch'[s] # "none" /\ name'[s] = name[s]
  /\ switch[s] \in Made => switch'[s] \in Made
  /\ switch[s] = "gone" => switch'[s] = "gone"
  /\ switch[s] = "removing" =>
       switch'[s] \in {"removing", "gone"} \/ (switch'[s] = "present" /\ swjob'[s] = "failed")
  /\ switch[s] = "present" /\ swjob[s] = "failed" =>
       switch'[s] \in {"removing", "gone"} \/ (switch'[s] = "present" /\ swjob'[s] = "failed")
  /\ switch[s] = "present" /\ InUse(s) => switch'[s] = "present"

SwitchTypes ==
  /\ switch' \in [GUIDs -> {"none", "adding", "present", "removing", "gone", "unmade"}]
  /\ name' \in [GUIDs -> Names \cup {""}]
  /\ swjob' \in [GUIDs -> JobStates \cup {"none"}]

Tasks == [do : {"idle", "destroy", "wait", "ok"}, what : {"none", "create", "destroy"},
          id : GUIDs \cup {0}, name : Names \cup {""}, job : BOOLEAN]

LEMMA AdminStepInv ==
  ASSUME Inv, UNCHANGED adapterVars, SwitchTypes, task' \in [Admins -> Tasks],
         \A s \in GUIDs : Sound(s)' /\ Evolves(s),
         \A a \in Admins : task'[a] = task[a] \/ Tasked(a)'
  PROVE  Inv'
<1>1. TypeOK /\ TypeOK'
  BY DEF Inv, TypeOK, adapterVars, SwitchTypes, Tasks
<1>2. ASSUME NEW c \in Adapters PROVE Own(c)'
  <2>1. Own(c) /\ Same(c)
    BY DEF Inv, Same, adapterVars
  <2>. QED
    BY <2>1, OwnSame
<1>3. ASSUME NEW c \in Adapters PROVE Linked(c)'
  <2>1. Linked(c) /\ found'[c] = found[c] /\ res'[c] = res[c] /\ want'[c] = want[c]
    BY DEF Inv, adapterVars
  <2>2. CASE found[c] = 0
    BY <2>1, <2>2 DEF Linked
  <2>3. CASE found[c] # 0
    <3>1. found[c] \in GUIDs
      <4>1. found \in [Adapters -> GUIDs \cup {0}]
        BY <1>1 DEF TypeOK
      <4>2. found[c] \in GUIDs \cup {0}
        BY <4>1
      <4>. QED
        BY <2>3, <4>2
    <3>2. Evolves(found[c])
      BY <3>1
    <3>3. res[c]["alloc"] # "absent" => InUse(found[c])
      BY DEF InUse
    <3>. QED
      BY <2>1, <2>3, <3>2, <3>3 DEF Linked, Evolves
  <2>. QED
    BY <2>2, <2>3
<1>4. ASSUME NEW a \in Admins PROVE Tasked(a)'
  <2>1. CASE Tasked(a)'
    BY <2>1
  <2>2. CASE task'[a] = task[a] /\ task[a].do # "idle"
    <3>1. Tasked(a) /\ task[a].id # 0
      BY <2>2 DEF Inv, Tasked
    <3>2. task[a].id \in GUIDs
      <4>1. task[a] \in Tasks
        <5>1. task \in [Admins -> Tasks]
          BY <1>1 DEF TypeOK, Tasks
        <5>. QED
          BY <5>1
      <4>2. task[a].id \in GUIDs \cup {0}
        BY <4>1 DEF Tasks
      <4>. QED
        BY <3>1, <4>2
    <3>3. Evolves(task[a].id)
      BY <3>2
    <3>. QED
      BY <2>2, <3>1, <3>3 DEF Tasked, Evolves
  <2>3. CASE task'[a] = task[a] /\ task[a].do = "idle"
    BY <2>3 DEF Tasked
  <2>. QED
    BY <2>1, <2>2, <2>3
<1>. QED
  BY <1>1, <1>2, <1>3, <1>4 DEF Inv

\* What the host does when it begins on a switch.
LEMMA SwitchBegun ==
  ASSUME TypeOK, NEW s \in GUIDs, NEW from,
         NEW via \in {"adding", "removing"}, NEW to \in {"present", "gone"},
         NEW reply, NEW now, BeginSwitch(s, from, via, to, reply, now)
  PROVE  /\ switch' \in [GUIDs -> {"none", "adding", "present", "removing", "gone", "unmade"}]
         /\ swjob' \in [GUIDs -> JobStates \cup {"none"}]
         /\ switch[s] = from
         /\ \A t \in GUIDs \ {s} : switch'[t] = switch[t] /\ swjob'[t] = swjob[t]
         /\ \/ switch'[s] = to /\ swjob'[s] = "none" /\ reply # "job"
            \/ switch'[s] = via /\ swjob'[s] = "active" /\ reply # "done"
<1>1. /\ switch \in [GUIDs -> {"none", "adding", "present", "removing", "gone", "unmade"}]
      /\ swjob \in [GUIDs -> JobStates \cup {"none"}]
  BY DEF TypeOK
<1>2. PICK v \in {to, via}, j \in {"none", "active"} :
        /\ switch' = [switch EXCEPT ![s] = v] /\ swjob' = [swjob EXCEPT ![s] = j]
        /\ \/ v = to /\ j = "none" /\ reply # "job"
           \/ v = via /\ j = "active" /\ reply # "done"
  BY DEF BeginSwitch, Begins
<1>3. v \in {"none", "adding", "present", "removing", "gone", "unmade"}
  OBVIOUS
<1>4. j \in JobStates \cup {"none"}
  BY DEF JobStates
<1>5. /\ switch' \in [GUIDs -> {"none", "adding", "present", "removing", "gone", "unmade"}]
      /\ switch'[s] = v /\ \A t \in GUIDs \ {s} : switch'[t] = switch[t]
  BY <1>1, <1>2, <1>3, Updated
<1>6. /\ swjob' \in [GUIDs -> JobStates \cup {"none"}]
      /\ swjob'[s] = j /\ \A t \in GUIDs \ {s} : swjob'[t] = swjob[t]
  BY <1>1, <1>2, <1>4, Updated
<1>7. switch[s] = from
  BY DEF BeginSwitch
<1>. QED
  BY <1>2, <1>5, <1>6, <1>7

\* What an administrator remembers of a request.
LEMMA TaskBegun ==
  ASSUME TypeOK, NEW a \in Admins, NEW what \in {"create", "destroy"}, NEW s \in GUIDs,
         NEW n \in Names \cup {""}, NEW reply, Begun(a, what, s, n, reply)
  PROVE  /\ task' \in [Admins -> Tasks] /\ \A b \in Admins \ {a} : task'[b] = task[b]
         /\ \/ task'[a].do = "idle"
            \/ /\ task'[a].do = "wait" /\ task'[a].what = what
               /\ task'[a].id = s /\ task'[a].name = n
               /\ task'[a].job => reply = "job"
               /\ ~task'[a].job => reply = "done"
<1>1. task \in [Admins -> Tasks]
  BY DEF TypeOK, Tasks
<1>2. CASE Accepts(reply)
  <2> DEFINE t == [do |-> "wait", what |-> what, id |-> s, name |-> n, job |-> (reply = "job")]
  <2>1. task' = [task EXCEPT ![a] = t]
    BY <1>2 DEF Begun, Task
  <2>2. t \in Tasks
    <3>1. (reply = "job") \in BOOLEAN
      OBVIOUS
    <3>. QED
      BY <3>1 DEF Tasks
  <2>3. /\ t.do = "wait" /\ t.what = what /\ t.id = s /\ t.name = n
        /\ t.job <=> reply = "job"
    OBVIOUS
  <2>. HIDE DEF t
  <2>4. task' \in [Admins -> Tasks] /\ task'[a] = t /\ \A b \in Admins \ {a} : task'[b] = task[b]
    BY <1>1, <2>1, <2>2
  <2>. QED
    BY <1>2, <2>3, <2>4 DEF Accepts
<1>3. CASE ~Accepts(reply)
  <2>1. task' = [task EXCEPT ![a] = Idle] /\ Idle \in Tasks /\ Idle.do = "idle"
    BY <1>3 DEF Begun, Fails, Tasks, Idle
  <2>. QED
    BY <1>1, <2>1
<1>. QED
  BY <1>2, <1>3

\* A switch that is left alone does what any step may do to it.
LEMMA Kept ==
  ASSUME Inv, NEW s \in GUIDs,
         switch'[s] = switch[s], name'[s] = name[s], swjob'[s] = swjob[s]
  PROVE  Sound(s)' /\ Evolves(s)
<1>1. Sound(s)
  BY DEF Inv
<1>. QED
  BY <1>1 DEF Sound, Evolves, Made

LEMMA SwitchJobEndsStep == ASSUME Inv, NEW s \in GUIDs, SwitchJobEnds(s) PROVE Inv'
<1>1. PICK state \in {"completed", "failed"} :
        /\ swjob' = [swjob EXCEPT ![s] = state]
        /\ switch' = [switch EXCEPT ![s] =
                        IF @ = "adding"
                          THEN IF state = "completed" THEN "present" ELSE "unmade"
                          ELSE IF state = "completed" THEN "gone" ELSE "present"]
  BY DEF SwitchJobEnds
<1>2. UNCHANGED <<adapterVars, name, task>> /\ swjob[s] = "active"
  BY DEF SwitchJobEnds
<1>3. TypeOK /\ Sound(s)
  BY DEF Inv
<1>4. switch[s] \in {"adding", "removing"}
  BY <1>2, <1>3 DEF Sound
<1> DEFINE v == IF switch[s] = "adding"
                  THEN IF state = "completed" THEN "present" ELSE "unmade"
                  ELSE IF state = "completed" THEN "gone" ELSE "present"
<1>a. v \in {"none", "adding", "present", "removing", "gone", "unmade"}
  OBVIOUS
<1>b. /\ switch[s] = "adding" /\ state = "completed" => v = "present"
      /\ switch[s] = "adding" /\ state = "failed" => v = "unmade"
      /\ switch[s] = "removing" /\ state = "completed" => v = "gone"
      /\ switch[s] = "removing" /\ state = "failed" => v = "present"
  OBVIOUS
<1>c. switch' = [switch EXCEPT ![s] = v]
  BY <1>1
<1> HIDE DEF v
<1>d. /\ switch \in [GUIDs -> {"none", "adding", "present", "removing", "gone", "unmade"}]
      /\ name \in [GUIDs -> Names \cup {""}]
      /\ swjob \in [GUIDs -> JobStates \cup {"none"}]
      /\ state \in JobStates \cup {"none"}
  BY <1>3 DEF TypeOK, JobStates
<1>e. /\ switch' \in [GUIDs -> {"none", "adding", "present", "removing", "gone", "unmade"}]
      /\ switch'[s] = v /\ \A t \in GUIDs \ {s} : switch'[t] = switch[t]
  BY <1>a, <1>c, <1>d, Updated
<1>f. /\ swjob' \in [GUIDs -> JobStates \cup {"none"}]
      /\ swjob'[s] = state /\ \A t \in GUIDs \ {s} : swjob'[t] = swjob[t]
  BY <1>1, <1>d, Updated
<1>5. SwitchTypes
  BY <1>2, <1>d, <1>e, <1>f DEF SwitchTypes
<1>6. \A t \in GUIDs \ {s} : switch'[t] = switch[t] /\ name'[t] = name[t] /\ swjob'[t] = swjob[t]
  BY <1>2, <1>e, <1>f
<1>7. /\ swjob'[s] = state /\ name'[s] = name[s]
      /\ switch[s] = "adding" /\ state = "completed" => switch'[s] = "present"
      /\ switch[s] = "adding" /\ state = "failed" => switch'[s] = "unmade"
      /\ switch[s] = "removing" /\ state = "completed" => switch'[s] = "gone"
      /\ switch[s] = "removing" /\ state = "failed" => switch'[s] = "present"
  BY <1>2, <1>b, <1>e, <1>f
<1>8. Sound(s)' /\ Evolves(s)
  BY <1>1, <1>4, <1>7 DEF Sound, Evolves, Made
<1>9. \A t \in GUIDs : Sound(t)' /\ Evolves(t)
  BY <1>6, <1>8, Kept
<1>10. task' \in [Admins -> Tasks] /\ \A a \in Admins : task'[a] = task[a]
  BY <1>2, <1>3 DEF TypeOK, Tasks
<1>. QED
  BY <1>2, <1>5, <1>9, <1>10, AdminStepInv

LEMMA CreateSwitchStep == ASSUME Inv, NEW a \in Admins, CreateSwitch(a) PROVE Inv'
<1>1. PICK s \in GUIDs, n \in Names, reply \in Replies, now \in BOOLEAN :
        /\ BeginSwitch(s, "none", "adding", "present", reply, now)
        /\ name' = [name EXCEPT ![s] = n]
        /\ Begun(a, "create", s, n, reply)
  BY DEF CreateSwitch
<1>2. UNCHANGED adapterVars /\ TypeOK
  BY DEF CreateSwitch, Inv
<1>3. /\ switch' \in [GUIDs -> {"none", "adding", "present", "removing", "gone", "unmade"}]
      /\ swjob' \in [GUIDs -> JobStates \cup {"none"}]
      /\ switch[s] = "none"
      /\ \A t \in GUIDs \ {s} : switch'[t] = switch[t] /\ swjob'[t] = swjob[t]
      /\ \/ switch'[s] = "present" /\ swjob'[s] = "none" /\ reply # "job"
         \/ switch'[s] = "adding" /\ swjob'[s] = "active" /\ reply # "done"
  BY <1>1, <1>2, SwitchBegun
<1>4. /\ name' \in [GUIDs -> Names \cup {""}] /\ name'[s] = n
      /\ \A t \in GUIDs \ {s} : name'[t] = name[t]
  <2>1. name \in [GUIDs -> Names \cup {""}] /\ n \in Names \cup {""}
    BY <1>2 DEF TypeOK
  <2>. QED
    BY <1>1, <2>1, Updated
<1>5. n \in Names \cup {""}
  OBVIOUS
<1>6. /\ task' \in [Admins -> Tasks] /\ \A b \in Admins \ {a} : task'[b] = task[b]
      /\ \/ task'[a].do = "idle"
         \/ /\ task'[a].do = "wait" /\ task'[a].what = "create"
            /\ task'[a].id = s /\ task'[a].name = n
            /\ task'[a].job => reply = "job"
            /\ ~task'[a].job => reply = "done"
  BY <1>1, <1>2, <1>5, TaskBegun
<1>7. \A t \in GUIDs : Sound(t)' /\ Evolves(t)
  <2>1. Sound(s)' /\ Evolves(s)
    BY <1>3 DEF Sound, Evolves, Made
  <2>. QED
    BY <1>3, <1>4, <2>1, Kept
<1>8. Tasked(a)'
  <2>1. s # 0
    BY NetworkAssumption DEF GUIDs
  <2>. QED
    BY <1>3, <1>4, <1>6, <2>1 DEF Tasked, Made
<1>9. SwitchTypes
  BY <1>3, <1>4 DEF SwitchTypes
<1>. QED
  BY <1>2, <1>6, <1>7, <1>8, <1>9, AdminStepInv

LEMMA LookupToDestroyStep == ASSUME Inv, NEW a \in Admins, LookupToDestroy(a) PROVE Inv'
<1>1. PICK n \in Names : \E s \in Named(n) : Task(a, "destroy", "destroy", s, n, FALSE)
  BY DEF LookupToDestroy
<1>2. PICK s \in Named(n) : Task(a, "destroy", "destroy", s, n, FALSE)
  BY <1>1
<1>3. UNCHANGED <<adapterVars, switch, name, swjob>> /\ TypeOK
  BY DEF LookupToDestroy, Inv
<1>4. s \in GUIDs /\ switch[s] # "none" /\ name[s] = n
  BY <1>2 DEF Named, Listed
<1> DEFINE t == [do |-> "destroy", what |-> "destroy", id |-> s, name |-> n, job |-> FALSE]
<1>5. /\ task' \in [Admins -> Tasks] /\ task'[a] = t
      /\ \A b \in Admins \ {a} : task'[b] = task[b]
  <2>1. t \in Tasks
    BY <1>4 DEF Tasks
  <2>2. task' = [task EXCEPT ![a] = t]
    BY <1>2 DEF Task
  <2>3. task \in [Admins -> Tasks]
    BY <1>3 DEF TypeOK, Tasks
  <2>. HIDE DEF t
  <2>. QED
    BY <2>1, <2>2, <2>3, Updated
<1>6. task'[a] = [do |-> "destroy", what |-> "destroy", id |-> s, name |-> n, job |-> FALSE]
  BY <1>5
<1>7. Tasked(a)'
  <2>1. s # 0
    BY <1>4, NetworkAssumption DEF GUIDs
  <2>. QED
    BY <1>3, <1>4, <1>6, <2>1 DEF Tasked
<1>8. SwitchTypes
  BY <1>3 DEF SwitchTypes, TypeOK
<1>9. \A u \in GUIDs : Sound(u)' /\ Evolves(u)
  BY <1>3, Kept
<1>. QED
  BY <1>3, <1>5, <1>7, <1>8, <1>9, AdminStepInv

LEMMA DestroySwitchStep == ASSUME Inv, NEW a \in Admins, DestroySwitch(a) PROVE Inv'
<1>0. PICK s, n : s = task[a].id /\ n = task[a].name
  OBVIOUS
<1>1. UNCHANGED <<adapterVars, name>> /\ TypeOK /\ Tasked(a) /\ task[a].do = "destroy"
  BY DEF DestroySwitch, Inv
<1>2. s \in GUIDs /\ s # 0 /\ n \in Names \cup {""}
  <2>1. task[a] \in Tasks
    BY <1>1 DEF TypeOK, Tasks
  <2>2. s \in GUIDs \cup {0} /\ n \in Names \cup {""}
    BY <1>0, <2>1 DEF Tasks
  <2>. QED
    BY <1>0, <1>1, <2>2 DEF Tasked
<1>3. name[s] = n /\ switch[s] # "none"
  BY <1>0, <1>1 DEF Tasked
<1>4. \/ \E reply \in Replies, now \in BOOLEAN :
           /\ ~InUse(s)
           /\ BeginSwitch(s, "present", "removing", "gone", reply, now)
           /\ Begun(a, "destroy", s, n, reply)
      \/ Fails(a) /\ UNCHANGED <<switch, swjob>>
  BY <1>0 DEF DestroySwitch
<1>5. CASE Fails(a) /\ UNCHANGED <<switch, swjob>>
  <2>1. Idle \in Tasks /\ Idle.do = "idle"
    BY DEF Tasks, Idle
  <2>2. task' = [task EXCEPT ![a] = Idle]
    BY <1>5 DEF Fails
  <2>3. /\ task' \in [Admins -> Tasks] /\ task'[a].do = "idle"
        /\ \A b \in Admins \ {a} : task'[b] = task[b]
    <3>1. task \in [Admins -> Tasks]
      BY <1>1 DEF TypeOK, Tasks
    <3>. QED
      BY <2>1, <2>2, <3>1
  <2>4. Tasked(a)'
    BY <2>3 DEF Tasked
  <2>5. SwitchTypes
    BY <1>1, <1>5 DEF SwitchTypes, TypeOK
  <2>6. \A t \in GUIDs : Sound(t)' /\ Evolves(t)
    BY <1>1, <1>5, Kept
  <2>. QED
    BY <1>1, <2>3, <2>4, <2>5, <2>6, AdminStepInv
<1>6. CASE \E reply \in Replies, now \in BOOLEAN :
             /\ ~InUse(s)
             /\ BeginSwitch(s, "present", "removing", "gone", reply, now)
             /\ Begun(a, "destroy", s, n, reply)
  <2>1. PICK reply \in Replies, now \in BOOLEAN :
          /\ ~InUse(s)
          /\ BeginSwitch(s, "present", "removing", "gone", reply, now)
          /\ Begun(a, "destroy", s, n, reply)
    BY <1>6
  <2>2. /\ switch' \in [GUIDs -> {"none", "adding", "present", "removing", "gone", "unmade"}]
        /\ swjob' \in [GUIDs -> JobStates \cup {"none"}]
        /\ switch[s] = "present"
        /\ \A t \in GUIDs \ {s} : switch'[t] = switch[t] /\ swjob'[t] = swjob[t]
        /\ \/ switch'[s] = "gone" /\ swjob'[s] = "none" /\ reply # "job"
           \/ switch'[s] = "removing" /\ swjob'[s] = "active" /\ reply # "done"
    <3>1. TypeOK /\ s \in GUIDs /\ BeginSwitch(s, "present", "removing", "gone", reply, now)
      BY <1>1, <1>2, <2>1
    <3>. QED
      BY <3>1, SwitchBegun
  <2>3. /\ task' \in [Admins -> Tasks] /\ \A b \in Admins \ {a} : task'[b] = task[b]
        /\ \/ task'[a].do = "idle"
           \/ /\ task'[a].do = "wait" /\ task'[a].what = "destroy"
              /\ task'[a].id = s /\ task'[a].name = n
              /\ task'[a].job => reply = "job"
              /\ ~task'[a].job => reply = "done"
    <3>1. TypeOK /\ s \in GUIDs /\ n \in Names \cup {""} /\ Begun(a, "destroy", s, n, reply)
      BY <1>1, <1>2, <2>1
    <3>. QED
      BY <3>1, TaskBegun
  <2>4. \A t \in GUIDs : Sound(t)' /\ Evolves(t)
    <3>1. name' = name
      BY <1>1
    <3>2. Sound(s)' /\ Evolves(s)
      BY <2>1, <2>2, <3>1 DEF Sound, Evolves, Made
    <3>. QED
      BY <2>2, <3>1, <3>2, Kept
  <2>5. Tasked(a)'
    BY <1>1, <1>2, <1>3, <2>2, <2>3 DEF Tasked
  <2>6. SwitchTypes
    BY <1>1, <2>2 DEF SwitchTypes, TypeOK
  <2>. QED
    BY <1>1, <2>3, <2>4, <2>5, <2>6, AdminStepInv
<1>. QED
  BY <1>4, <1>5, <1>6

LEMMA WaitSwitchStep == ASSUME Inv, NEW a \in Admins, WaitSwitch(a) PROVE Inv'
<1> DEFINE s == task[a].id
<1>1. /\ UNCHANGED <<adapterVars, switch, name, swjob>> /\ task[a].do = "wait"
      /\ TypeOK /\ Tasked(a)
  BY DEF WaitSwitch, Inv
<1>2. task \in [Admins -> Tasks] /\ task[a] \in Tasks
  BY <1>1 DEF TypeOK, Tasks
<1>3. SwitchTypes
  BY <1>1 DEF SwitchTypes, TypeOK
<1>4. \A t \in GUIDs : Sound(t)' /\ Evolves(t)
  BY <1>1, Kept
<1>5. PICK v \in IF task[a].job THEN Verdicts(swjob[s]) ELSE {"ok"} :
        IF v = "ok" THEN task' = [task EXCEPT ![a].do = "ok", ![a].job = FALSE] ELSE Fails(a)
  BY DEF WaitSwitch
<1>6. CASE v # "ok"
  <2>1. task' = [task EXCEPT ![a] = Idle] /\ Idle \in Tasks /\ Idle.do = "idle"
    BY <1>5, <1>6 DEF Fails, Tasks, Idle
  <2>2. /\ task' \in [Admins -> Tasks] /\ task'[a].do = "idle"
        /\ \A b \in Admins \ {a} : task'[b] = task[b]
    BY <1>2, <2>1
  <2>3. Tasked(a)'
    BY <2>2 DEF Tasked
  <2>. QED
    BY <1>1, <1>3, <1>4, <2>2, <2>3, AdminStepInv
<1>7. CASE v = "ok"
  <2> DEFINE t == [task[a] EXCEPT !.do = "ok", !.job = FALSE]
  <2>1. task' = [task EXCEPT ![a] = t]
    BY <1>2, <1>5, <1>7
  <2>2. /\ t \in Tasks /\ t.do = "ok" /\ t.what = task[a].what /\ t.id = s
        /\ t.name = task[a].name /\ ~t.job
    BY <1>2 DEF Tasks
  <2>. HIDE DEF t
  <2>3. task' \in [Admins -> Tasks] /\ task'[a] = t /\ \A b \in Admins \ {a} : task'[b] = task[b]
    BY <1>2, <2>1, <2>2
  <2>4. task[a].job => swjob[s] = "completed"
    BY <1>5, <1>7 DEF Verdicts
  <2>5. s \in GUIDs
    <3>1. s \in GUIDs \cup {0} /\ s # 0
      BY <1>1, <1>2 DEF Tasks, Tasked
    <3>. QED
      BY <3>1
  <2>6. Sound(s) /\ switch[s] \in {"none", "adding", "present", "removing", "gone", "unmade"}
    BY <1>1, <2>5 DEF Inv, TypeOK
  <2>7. Tasked(a)'
    BY <1>1, <2>2, <2>3, <2>4, <2>6 DEF Tasked, Sound, Made
  <2>. QED
    BY <1>1, <1>3, <1>4, <2>3, <2>7, AdminStepInv
<1>. QED
  BY <1>6, <1>7

----------------------------------------------------------------------------
LEMMA StepInv == Inv /\ [Next]_vars => Inv'
<1> SUFFICES ASSUME Inv, [Next]_vars PROVE Inv'
  OBVIOUS
<1>1. ASSUME NEW c \in Adapters, AdapterStep(c) PROVE Inv'
  BY <1>1, AddPortStep, LookupStep, AddAllocStep, WaitStep, AddVlanStep, RemoveStep,
     JobEndsStep DEF AdapterStep
<1>2. ASSUME NEW a \in Admins, AdminStep(a) PROVE Inv'
  BY <1>2, CreateSwitchStep, LookupToDestroyStep, DestroySwitchStep, WaitSwitchStep
     DEF AdminStep
<1>3. ASSUME NEW s \in GUIDs, SwitchJobEnds(s) PROVE Inv'
  BY <1>3, SwitchJobEndsStep
<1>4. CASE UNCHANGED vars
  <2>1. UNCHANGED adapterVars /\ UNCHANGED switchVars
    BY <1>4 DEF vars
  <2>2. TypeOK /\ SwitchTypes /\ task' \in [Admins -> Tasks]
    BY <2>1 DEF Inv, TypeOK, SwitchTypes, Tasks, switchVars
  <2>3. \A s \in GUIDs : Sound(s)' /\ Evolves(s)
    BY <2>1, Kept DEF switchVars
  <2>. QED
    BY <2>1, <2>2, <2>3, AdminStepInv DEF switchVars
<1>. QED
  BY <1>1, <1>2, <1>3, <1>4 DEF Next

LEMMA Invariance == Spec => []Inv
<1>. QED
  BY InitInv, StepInv, PTL DEF Spec

\* Every variable keeps its type (hyperv/network.go, hyperv/switch.go).
THEOREM TypeCorrect == Spec => []TypeOK
<1>1. Inv => TypeOK
  BY DEF Inv
<1>. QED
  BY <1>1, Invariance, PTL

\* An adapter that was added without an error, and whose one JobRef was waited
\* for, is there and connected to a switch of the name asked for, whatever
\* other goroutines do to the switches in between (network.go:179-236).
THEOREM AlwaysConnected == Spec => []Connected
<1>1. Inv => Connected
  <2> SUFFICES ASSUME Inv, NEW c \in Adapters,
                      op[c] = "add", ~ret[c].err, waited[c] = "ok"
               PROVE  /\ res[c]["port"] = "present"
                      /\ want[c] # "" =>
                           /\ res[c]["alloc"] = "present" /\ refs[c].alloc
                           /\ switch[found[c]] = "present" /\ name[found[c]] = want[c]
    BY DEF Connected
  <2>1. Own(c) /\ Linked(c)
    BY DEF Inv
  <2>2. refs[c].port /\ (want[c] # "" => refs[c].alloc)
    BY <2>1 DEF Own, Added
  <2>3. CASE refs[c].alloc
    <3>1. want[c] # "" /\ res[c]["port"] = "present" /\ Adds(c, "alloc") /\ On(c, "alloc")
      BY <2>1, <2>3 DEF Own, Added
    <3>2. res[c]["alloc"] = "present"
      BY <2>1, <3>1 DEF Own, Waited, Adds, On
    <3>. QED
      BY <2>1, <2>3, <3>1, <3>2 DEF Linked
  <2>4. CASE ~refs[c].alloc
    <3>1. Adds(c, "port") /\ On(c, "port")
      BY <2>1, <2>2, <2>4 DEF Own, Added
    <3>. QED
      BY <2>1, <2>2, <2>4, <3>1 DEF Own, Waited, Adds, On
  <2>. QED
    BY <2>3, <2>4
<1>. QED
  BY <1>1, Invariance, PTL

\* Unless an answer was lost, whoever called AddNetworkAdapter holds the
\* PortRef of what there is, also with an error, and a job that ended well
\* leaves nothing in the way of RemoveNetworkAdapter (network.go:147-229).
THEOREM AlwaysUndoable == Spec => []Undoable
<1>1. Inv => Undoable
  <2> SUFFICES ASSUME Inv, NEW c \in Adapters, pc[c] = "back", op[c] = "add", ~lost[c]
               PROVE  /\ res[c]["port"] # "absent" => refs[c].port
                      /\ waited[c] = "ok" /\ refs[c].port => CanRemove(c)
    BY DEF Undoable
  <2>1. Own(c)
    BY DEF Inv
  <2>2. /\ res[c]["port"] # "absent" => refs[c].port
        /\ res[c]["alloc"] # "absent" => refs[c].alloc
        /\ res[c]["vlan"] = "absent"
    BY <2>1 DEF Own, Referenced, Added
  <2>3. ASSUME waited[c] = "ok", refs[c].port PROVE CanRemove(c)
    <3>1. CASE refs[c].alloc
      <4>1. res[c]["port"] = "present" /\ Adds(c, "alloc") /\ On(c, "alloc")
        BY <2>1, <3>1 DEF Own, Added
      <4>2. res[c]["alloc"] = "present"
        BY <2>1, <2>3, <4>1 DEF Own, Waited, Adds, On
      <4>. QED
        BY <2>2, <4>1, <4>2 DEF CanRemove, Parts
    <3>2. CASE ~refs[c].alloc
      <4>1. Adds(c, "port") /\ On(c, "port")
        BY <2>1, <2>3, <3>2 DEF Own, Added
      <4>2. res[c]["port"] = "present"
        BY <2>1, <2>3, <4>1 DEF Own, Waited, Adds, On
      <4>. QED
        BY <2>2, <3>2, <4>2 DEF CanRemove, Parts
    <3>. QED
      BY <3>1, <3>2
  <2>. QED
    BY <2>2, <2>3
<1>. QED
  BY <1>1, Invariance, PTL

\* VLAN settings that were added without an error, and waited for, are on the
\* connection; a removal that was is a removal of port, connection and
\* settings (network.go:243-244, 281-318).
THEOREM AdapterVerdictsHold == Spec => []VerdictsOnAdapters
<1>1. Inv => VerdictsOnAdapters
  <2> SUFFICES ASSUME Inv, NEW c \in Adapters, ~ret[c].err, waited[c] = "ok"
               PROVE  /\ op[c] = "vlan" => \A part \in Parts : res[c][part] = "present"
                      /\ op[c] = "remove" => res[c] = Gone
    BY DEF VerdictsOnAdapters
  <2>1. Own(c)
    BY DEF Inv
  <2>2. ASSUME op[c] = "vlan" PROVE \A part \in Parts : res[c][part] = "present"
    <3>1. res[c]["alloc"] = "present" /\ Adds(c, "vlan") /\ On(c, "vlan")
      BY <2>1, <2>2 DEF Own, WithVlan
    <3>2. res[c]["vlan"] = "present"
      BY <2>1, <3>1 DEF Own, Waited, Adds, On
    <3>3. res[c]["port"] = "present"
      BY <2>1, <2>2, <3>1 DEF Own, Host, Parts
    <3>. QED
      BY <3>1, <3>2, <3>3 DEF Parts
  <2>3. ASSUME op[c] = "remove" PROVE res[c] = Gone
    <3>1. (job[c]["port"] \in {"none", "completed"} => res[c] = Gone) /\ On(c, "port")
      BY <2>1, <2>3 DEF Own, Removed
    <3>. QED
      BY <2>1, <3>1 DEF Own, Waited, On
  <2>. QED
    BY <2>2, <2>3
<1>. QED
  BY <1>1, Invariance, PTL

\* A switch that was created without an error, and waited for, was made with
\* its name; one that was destroyed is gone, even when another bears the name
\* again by then (switch.go:145-158, 312-333).
THEOREM SwitchVerdictsHold == Spec => []VerdictsOnSwitches
<1>1. Inv => VerdictsOnSwitches
  BY DEF Inv, Tasked, Made, VerdictsOnSwitches
<1>. QED
  BY <1>1, Invariance, PTL

\* What the caller is told of an adapter is true, for any number of adapters
\* and of goroutines that create and destroy switches (network.go:179-318).
THEOREM AdaptersAlwaysAsTold == Spec => []AdaptersAsTold
BY AlwaysConnected, AdapterVerdictsHold, PTL DEF AdaptersAsTold
=============================================================================
