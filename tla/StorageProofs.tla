---------------------------- MODULE StorageProofs ----------------------------
(***************************************************************************)
(* Theorems about Storage, for any goroutines and locations.               *)
(*                                                                         *)
(* Local(c) is the inductive invariant of goroutine c.  It says what the   *)
(* goroutine may conclude about the host from where it stands: an answer   *)
(* tells which way the resource is going, and the end of the job whether   *)
(* it has got there.                                                       *)
(***************************************************************************)
EXTENDS Storage, TLAPS

\* The last request for a part was to add it: where its job stands tells the
\* state of the part.
Adds(c, part) ==
  /\ job[c][part] \in {"none", "completed"} => res[c][part] = "present"
  /\ job[c][part] = "active" => res[c][part] = "adding"

Removes(c, part) ==
  /\ job[c][part] \in {"none", "completed"} => res[c][part] = "absent"
  /\ job[c][part] = "active" => res[c][part] = "removing"

\* While the attach is going on, and when it has succeeded.
Attaching(c) ==
  /\ pc[c] \in {"idle", "addDrive"} =>
       ret[c] = Nothing /\ res[c]["drive"] = "absent" /\ res[c]["child"] = "absent"
  /\ pc[c] \in {"waitDrive", "addStorage", "waitStorage"} =>
       ret[c].err /\ ret[c].drive
  /\ pc[c] \in {"waitDrive", "addStorage"} =>
       ~ret[c].storage /\ res[c]["child"] = "absent"
  /\ pc[c] = "waitDrive" => Adds(c, "drive")
  /\ pc[c] = "addStorage" => res[c]["drive"] = "present" /\ media[c]
  /\ pc[c] = "waitStorage" =>
       res[c]["drive"] = "present" /\ media[c] /\ ret[c].storage /\ Adds(c, "child")
  /\ pc[c] = "back" /\ ~ret[c].err /\ detached[c] = "no" =>
       /\ res[c]["drive"] = "present"
       /\ res[c]["child"] = IF media[c] THEN "present" ELSE "absent"
       /\ ret[c].storage = media[c]

\* While a detach is going on, and when it has succeeded.
Detaching(c) ==
  /\ pc[c] = "removeStorage" => using[c]
  /\ pc[c] = "waitRemoveStorage" => using[c] /\ Removes(c, "child")
  /\ pc[c] = "removeDrive" /\ using[c] => res[c]["child"] = "absent"
  /\ pc[c] = "waitRemoveDrive" => res[c]["child"] = "absent" /\ Removes(c, "drive")
  /\ detached[c] = "ok" =>
       pc[c] = "back" /\ res[c]["drive"] = "absent" /\ res[c]["child"] = "absent"

\* What is on the host is named by the references, unless an answer was lost.
Named(c) ==
  ~lost[c] => /\ res[c]["drive"] # "absent" => ret[c].drive
              /\ res[c]["child"] # "absent" => ret[c].storage

Local(c) == Attaching(c) /\ Detaching(c) /\ Named(c)

\* A resource that is under way has a running job.
Running ==
  \A c \in Clients, p \in Parts :
    res[c][p] \in {"adding", "removing"} => job[c][p] = "active"

Inv == TypeOK /\ Running /\ \A c \in Clients : Local(c)

----------------------------------------------------------------------------
LEMMA InitInv == Init => Inv
<1> SUFFICES ASSUME Init PROVE Inv
  OBVIOUS
<1>1. TypeOK
  BY DEF Init, TypeOK, PCs, Nothing, States
<1>2. ASSUME NEW c \in Clients PROVE Local(c)
  BY DEF Init, Local, Attaching, Detaching, Named, Nothing, Parts
<1>3. Running
  BY DEF Init, Running
<1>. QED
  BY <1>1, <1>2, <1>3 DEF Inv

\* The steps of a goroutine and of its jobs leave the others alone.
Frame(c) ==
  \A d \in Clients \ {c} :
    /\ pc'[d] = pc[d] /\ ret'[d] = ret[d] /\ using'[d] = using[d]
    /\ detached'[d] = detached[d] /\ res'[d] = res[d] /\ job'[d] = job[d]
    /\ lost'[d] = lost[d]

\* A change on the host is one of one part of one disk.
LEMMA Changed ==
  ASSUME TypeOK, NEW c \in Clients, NEW part \in Parts, NEW state \in States,
         NEW j \in JobStates \cup {"none"}, Change(c, part, state, j)
  PROVE  /\ res' \in [Clients -> [Parts -> States]]
         /\ job' \in [Clients -> [Parts -> JobStates \cup {"none"}]]
         /\ \A d \in Clients \ {c} : res'[d] = res[d] /\ job'[d] = job[d]
         /\ \A p \in Parts \ {part} : res'[c][p] = res[c][p] /\ job'[c][p] = job[c][p]
         /\ res'[c][part] = state /\ job'[c][part] = j
<1>1. /\ res \in [Clients -> [Parts -> States]]
      /\ job \in [Clients -> [Parts -> JobStates \cup {"none"}]]
  BY DEF TypeOK
<1>2. /\ res' = [res EXCEPT ![c] = [@ EXCEPT ![part] = state]]
      /\ job' = [job EXCEPT ![c] = [@ EXCEPT ![part] = j]]
  BY DEF Change
<1>3. /\ [res[c] EXCEPT ![part] = state] \in [Parts -> States]
      /\ [job[c] EXCEPT ![part] = j] \in [Parts -> JobStates \cup {"none"}]
  BY <1>1
<1>. QED
  BY <1>1, <1>2, <1>3

\* What the host does when it begins on a request.
LEMMA Begun ==
  ASSUME TypeOK, NEW c \in Clients, NEW part \in Parts,
         NEW action \in {"add", "remove"}, Begin(c, part, action)
  PROVE  /\ res' \in [Clients -> [Parts -> States]]
         /\ job' \in [Clients -> [Parts -> JobStates \cup {"none"}]]
         /\ \A d \in Clients \ {c} : res'[d] = res[d] /\ job'[d] = job[d]
         /\ \A p \in Parts \ {part} : res'[c][p] = res[c][p] /\ job'[c][p] = job[c][p]
         /\ action = "add" =>
              /\ CanAdd(c, part)
              /\ \/ res'[c][part] = "present" /\ job'[c][part] = "none"
                 \/ res'[c][part] = "adding" /\ job'[c][part] = "active"
         /\ action = "remove" =>
              /\ CanRemove(c, part)
              /\ \/ res'[c][part] = "absent" /\ job'[c][part] = "none"
                 \/ res'[c][part] = "removing" /\ job'[c][part] = "active"
<1>1. CASE action = "add"
  <2>1. /\ CanAdd(c, part)
        /\ Change(c, part, "present", "none") \/ Change(c, part, "adding", "active")
    BY <1>1 DEF Begin
  <2>. QED
    BY <1>1, <2>1, Changed DEF States, JobStates
<1>2. CASE action = "remove"
  <2>1. /\ CanRemove(c, part)
        /\ Change(c, part, "absent", "none") \/ Change(c, part, "removing", "active")
    BY <1>2 DEF Begin
  <2>. QED
    BY <1>2, <2>1, Changed DEF States, JobStates
<1>. QED
  BY <1>1, <1>2

\* A request that the client takes for failed: the host has begun or not.
LEMMA NotAcceptedCases ==
  ASSUME TypeOK, NEW c \in Clients, NEW part \in Parts,
         NEW action \in {"add", "remove"}, NotAccepted(c, part, action)
  PROVE  /\ lost' \in [Clients -> BOOLEAN]
         /\ \A d \in Clients \ {c} : lost'[d] = lost[d]
         /\ \/ res' = res /\ job' = job /\ lost' = lost
            \/ Begin(c, part, action) /\ lost'[c]
BY DEF TypeOK, NotAccepted, AnswerLost, Refused

\* A step of a job.
LEMMA JobEnded ==
  ASSUME TypeOK, NEW c \in Clients, NEW part \in Parts, JobEnds(c, part)
  PROVE  /\ res' \in [Clients -> [Parts -> States]]
         /\ job' \in [Clients -> [Parts -> JobStates \cup {"none"}]]
         /\ \A d \in Clients \ {c} : res'[d] = res[d] /\ job'[d] = job[d]
         /\ \A p \in Parts \ {part} : res'[c][p] = res[c][p] /\ job'[c][p] = job[c][p]
         /\ \/ res[c][part] = "adding" /\ res'[c][part] = "present" /\ job'[c][part] = "completed"
            \/ res[c][part] = "adding" /\ res'[c][part] = "absent" /\ job'[c][part] = "failed"
            \/ res[c][part] = "removing" /\ res'[c][part] = "absent" /\ job'[c][part] = "completed"
            \/ res[c][part] = "removing" /\ res'[c][part] = "present" /\ job'[c][part] = "failed"
<1>1. CASE res[c][part] = "adding" /\ Change(c, part, "present", "completed")
  BY <1>1, Changed DEF States, JobStates
<1>2. CASE res[c][part] = "adding" /\ Change(c, part, "absent", "failed")
  BY <1>2, Changed DEF States, JobStates
<1>3. CASE res[c][part] = "removing" /\ Change(c, part, "absent", "completed")
  BY <1>3, Changed DEF States, JobStates
<1>4. CASE res[c][part] = "removing" /\ Change(c, part, "present", "failed")
  BY <1>4, Changed DEF States, JobStates
<1>. QED
  BY <1>1, <1>2, <1>3, <1>4 DEF JobEnds

\* The verdict "ok" is given only when there is no job or it has completed.
LEMMA OkIsTrue ==
  ASSUME NEW c, NEW part, NEW v \in WaitVerdicts(c, part)
  PROVE  /\ v \in {"ok", "failed", "unknown"}
         /\ v = "ok" => job[c][part] \in {"none", "completed"}
BY DEF WaitVerdicts, Verdicts

----------------------------------------------------------------------------
\* What every step of goroutine c, or of its jobs, has to establish.
Kept(c) == TypeOK' /\ Frame(c) /\ Local(c)'

LEMMA AttachKept == ASSUME Inv, NEW c \in Clients, Attach(c) PROVE Kept(c)
<1>1. TypeOK' /\ Frame(c)
  BY DEF Inv, TypeOK, PCs, Attach, Move, Frame
<1>2. Local(c)'
  BY DEF Inv, TypeOK, Attach, Move, Local, Attaching, Detaching, Named, Adds, Removes,
         Nothing
<1>. QED
  BY <1>1, <1>2 DEF Kept

LEMMA AddDriveKept == ASSUME Inv, NEW c \in Clients, AddDrive(c) PROVE Kept(c)
<1>0. TypeOK /\ Local(c) /\ "drive" \in Parts /\ pc[c] = "addDrive"
  BY DEF Inv, Parts, AddDrive, Move
<1>1. /\ loc' = loc /\ media' = media /\ using' = using /\ detached' = detached
  BY DEF AddDrive
<1>2. ASSUME Move(c, "addDrive", "waitDrive"), Answered(c, "drive", "add"),
             ret' = [ret EXCEPT ![c].drive = TRUE]
      PROVE  Kept(c)
  <2>1. /\ res' \in [Clients -> [Parts -> States]]
        /\ job' \in [Clients -> [Parts -> JobStates \cup {"none"}]]
        /\ \A d \in Clients \ {c} : res'[d] = res[d] /\ job'[d] = job[d]
        /\ res'[c]["child"] = res[c]["child"]
        /\ \/ res'[c]["drive"] = "present" /\ job'[c]["drive"] = "none"
           \/ res'[c]["drive"] = "adding" /\ job'[c]["drive"] = "active"
    BY <1>0, <1>2, Begun DEF Answered, Parts
  <2>2. TypeOK' /\ Frame(c)
    <3>1. /\ pc' \in [Clients -> PCs] /\ \A d \in Clients \ {c} : pc'[d] = pc[d]
      BY <1>0, <1>2 DEF TypeOK, PCs, Move
    <3>2. /\ ret' \in [Clients -> [err : BOOLEAN, drive : BOOLEAN, storage : BOOLEAN]]
          /\ \A d \in Clients \ {c} : ret'[d] = ret[d]
      BY <1>0, <1>2 DEF TypeOK
    <3>3. lost' = lost
      BY <1>2 DEF Answered
    <3>. QED
      BY <1>0, <1>1, <2>1, <3>1, <3>2, <3>3 DEF TypeOK, Frame
  <2>3. Local(c)'
    BY <1>0, <1>1, <1>2, <2>1
       DEF TypeOK, Move, Answered, Local, Attaching, Detaching, Named, Adds, Nothing
  <2>. QED
    BY <2>2, <2>3 DEF Kept
<1>3. ASSUME Move(c, "addDrive", "back"), NotAccepted(c, "drive", "add"), UNCHANGED ret
      PROVE  Kept(c)
  <2>1. /\ res' \in [Clients -> [Parts -> States]]
        /\ job' \in [Clients -> [Parts -> JobStates \cup {"none"}]]
        /\ lost' \in [Clients -> BOOLEAN]
        /\ \A d \in Clients \ {c} :
             res'[d] = res[d] /\ job'[d] = job[d] /\ lost'[d] = lost[d]
        /\ \/ res' = res /\ lost' = lost
           \/ lost'[c]
    BY <1>0, <1>3, Begun, NotAcceptedCases DEF TypeOK
  <2>2. TypeOK' /\ Frame(c)
    BY <1>0, <1>1, <1>3, <2>1 DEF TypeOK, PCs, Move, Frame
  <2>3. /\ pc'[c] = "back" /\ detached'[c] # "ok"
        /\ ret'[c].err
        /\ ~lost'[c] => res'[c]["drive"] = "absent" /\ res'[c]["child"] = "absent"
    <3>1. /\ detached[c] # "ok" /\ ret[c] = Nothing
          /\ res[c]["drive"] = "absent" /\ res[c]["child"] = "absent"
      BY <1>0 DEF Local, Attaching, Detaching
    <3>2. ret[c].err
      BY <3>1 DEF Nothing
    <3>3. pc'[c] = "back"
      BY <1>0, <1>3 DEF TypeOK, Move
    <3>. QED
      BY <1>1, <1>3, <2>1, <3>1, <3>2, <3>3
  <2>4. Local(c)'
    BY <2>3 DEF Local, Attaching, Detaching, Named
  <2>. QED
    BY <2>2, <2>4 DEF Kept
<1>. QED
  BY <1>2, <1>3 DEF AddDrive

LEMMA WaitDriveKept == ASSUME Inv, NEW c \in Clients, WaitDrive(c) PROVE Kept(c)
<1>0. TypeOK /\ Local(c) /\ pc[c] = "waitDrive"
  BY DEF Inv, WaitDrive
<1>1. UNCHANGED <<loc, media, using, detached, res, job, lost>>
  BY DEF WaitDrive
<1>2. PICK v \in WaitVerdicts(c, "drive") :
        \/ v = "ok" /\ AfterDrive(c)
        \/ v # "ok" /\ pc' = [pc EXCEPT ![c] = "back"] /\ UNCHANGED ret
  BY DEF WaitDrive
<1>6. \/ pc' = [pc EXCEPT ![c] = "addStorage"] /\ ret' = ret
      \/ pc' = [pc EXCEPT ![c] = "back"] /\ ret' = [ret EXCEPT ![c].err = FALSE]
      \/ pc' = [pc EXCEPT ![c] = "back"] /\ ret' = ret
  BY <1>2 DEF AfterDrive
<1>7. /\ pc' \in [Clients -> PCs]
      /\ ret' \in [Clients -> [err : BOOLEAN, drive : BOOLEAN, storage : BOOLEAN]]
      /\ \A d \in Clients \ {c} : pc'[d] = pc[d] /\ ret'[d] = ret[d]
  <2>1. ASSUME ret' = [ret EXCEPT ![c].err = FALSE]
        PROVE  /\ ret' \in [Clients -> [err : BOOLEAN, drive : BOOLEAN, storage : BOOLEAN]]
               /\ \A d \in Clients \ {c} : ret'[d] = ret[d]
    BY <1>0, <2>1 DEF TypeOK
  <2>2. /\ pc' \in [Clients -> PCs]
        /\ \A d \in Clients \ {c} : pc'[d] = pc[d]
    BY <1>0, <1>6 DEF TypeOK, PCs
  <2>. QED
    BY <1>0, <1>6, <2>1, <2>2 DEF TypeOK
<1>3. TypeOK' /\ Frame(c)
  BY <1>0, <1>1, <1>7 DEF TypeOK, Frame
<1>4. CASE v = "ok"
  <2>1. res[c]["drive"] = "present"
    BY <1>0, <1>4, OkIsTrue DEF Local, Attaching, Adds
  <2>. QED
    BY <1>0, <1>1, <1>2, <1>3, <1>4, <2>1
       DEF TypeOK, AfterDrive, Local, Attaching, Detaching, Named, Kept
<1>5. CASE v # "ok"
  BY <1>0, <1>1, <1>2, <1>3, <1>5
     DEF TypeOK, Local, Attaching, Detaching, Named, Kept
<1>. QED
  BY <1>4, <1>5

LEMMA AddStorageKept == ASSUME Inv, NEW c \in Clients, AddStorage(c) PROVE Kept(c)
<1>0. TypeOK /\ Local(c) /\ "child" \in Parts /\ pc[c] = "addStorage"
  BY DEF Inv, Parts, AddStorage, Move
<1>1. /\ loc' = loc /\ media' = media /\ using' = using /\ detached' = detached
  BY DEF AddStorage
<1>2. ASSUME Move(c, "addStorage", "waitStorage"), Answered(c, "child", "add"),
             ret' = [ret EXCEPT ![c].storage = TRUE]
      PROVE  Kept(c)
  <2>1. /\ res' \in [Clients -> [Parts -> States]]
        /\ job' \in [Clients -> [Parts -> JobStates \cup {"none"}]]
        /\ \A d \in Clients \ {c} : res'[d] = res[d] /\ job'[d] = job[d]
        /\ res'[c]["drive"] = res[c]["drive"]
        /\ \/ res'[c]["child"] = "present" /\ job'[c]["child"] = "none"
           \/ res'[c]["child"] = "adding" /\ job'[c]["child"] = "active"
    BY <1>0, <1>2, Begun DEF Answered, Parts
  <2>2. TypeOK' /\ Frame(c)
    <3>1. /\ pc' \in [Clients -> PCs] /\ \A d \in Clients \ {c} : pc'[d] = pc[d]
      BY <1>0, <1>2 DEF TypeOK, PCs, Move
    <3>2. /\ ret' \in [Clients -> [err : BOOLEAN, drive : BOOLEAN, storage : BOOLEAN]]
          /\ \A d \in Clients \ {c} : ret'[d] = ret[d]
      BY <1>0, <1>2 DEF TypeOK
    <3>3. lost' = lost
      BY <1>2 DEF Answered
    <3>. QED
      BY <1>0, <1>1, <2>1, <3>1, <3>2, <3>3 DEF TypeOK, Frame
  <2>3. Local(c)'
    BY <1>0, <1>1, <1>2, <2>1
       DEF TypeOK, Move, Answered, Local, Attaching, Detaching, Named, Adds
  <2>. QED
    BY <2>2, <2>3 DEF Kept
<1>3. ASSUME Move(c, "addStorage", "back"), NotAccepted(c, "child", "add"), UNCHANGED ret
      PROVE  Kept(c)
  <2>1. /\ res' \in [Clients -> [Parts -> States]]
        /\ job' \in [Clients -> [Parts -> JobStates \cup {"none"}]]
        /\ lost' \in [Clients -> BOOLEAN]
        /\ \A d \in Clients \ {c} :
             res'[d] = res[d] /\ job'[d] = job[d] /\ lost'[d] = lost[d]
        /\ \/ res' = res /\ lost' = lost
           \/ lost'[c]
    BY <1>0, <1>3, Begun, NotAcceptedCases DEF TypeOK
  <2>2. TypeOK' /\ Frame(c)
    BY <1>0, <1>1, <1>3, <2>1 DEF TypeOK, PCs, Move, Frame
  <2>3. Local(c)'
    BY <1>0, <1>1, <1>3, <2>1
       DEF TypeOK, Move, Local, Attaching, Detaching, Named
  <2>. QED
    BY <2>2, <2>3 DEF Kept
<1>. QED
  BY <1>2, <1>3 DEF AddStorage

LEMMA WaitStorageKept == ASSUME Inv, NEW c \in Clients, WaitStorage(c) PROVE Kept(c)
<1>0. TypeOK /\ Local(c) /\ pc[c] = "waitStorage" /\ pc' = [pc EXCEPT ![c] = "back"]
  BY DEF Inv, WaitStorage, Move
<1>1. UNCHANGED <<loc, media, using, detached, res, job, lost>>
  BY DEF WaitStorage
<1>2. PICK v \in WaitVerdicts(c, "child") : ret' = [ret EXCEPT ![c].err = (v # "ok")]
  BY DEF WaitStorage
<1>3. TypeOK' /\ Frame(c)
  <2>1. /\ pc' \in [Clients -> PCs] /\ \A d \in Clients \ {c} : pc'[d] = pc[d]
    BY <1>0 DEF TypeOK, PCs
  <2>2. /\ ret' \in [Clients -> [err : BOOLEAN, drive : BOOLEAN, storage : BOOLEAN]]
        /\ \A d \in Clients \ {c} : ret'[d] = ret[d]
    <3> DEFINE e == v # "ok"
    <3>1. ret' = [ret EXCEPT ![c].err = e] /\ e \in BOOLEAN
      BY <1>2
    <3> HIDE DEF e
    <3>2. ret \in [Clients -> [err : BOOLEAN, drive : BOOLEAN, storage : BOOLEAN]]
      BY <1>0 DEF TypeOK
    <3>. QED
      BY <3>1, <3>2
  <2>. QED
    BY <1>0, <1>1, <2>1, <2>2 DEF TypeOK, Frame
<1>4. v = "ok" => res[c]["child"] = "present"
  BY <1>0, OkIsTrue DEF Local, Attaching, Adds
<1>5. /\ ret'[c].err = (v # "ok") /\ ret'[c].drive = ret[c].drive
      /\ ret'[c].storage = ret[c].storage
  BY <1>0, <1>2 DEF TypeOK
<1>6. pc'[c] = "back"
  BY <1>0 DEF TypeOK
<1>7. Local(c)'
  BY <1>0, <1>1, <1>4, <1>5, <1>6 DEF Local, Attaching, Detaching, Named
<1>. QED
  BY <1>3, <1>7 DEF Kept

----------------------------------------------------------------------------
LEMMA DetachKept == ASSUME Inv, NEW c \in Clients, Detach(c) PROVE Kept(c)
<1>0. TypeOK /\ Local(c) /\ pc[c] = "back" /\ detached[c] # "ok"
  BY DEF Inv, Detach, Move
<1>1. UNCHANGED <<loc, media, ret, res, job, lost>>
  BY DEF Detach
<1>2. PICK s \in {ret[c].storage, FALSE} :
        /\ pc' = [pc EXCEPT ![c] = IF s THEN "removeStorage" ELSE "removeDrive"]
        /\ using' = [using EXCEPT ![c] = s]
  BY DEF Detach, Move
<1>3. detached' = [detached EXCEPT ![c] = "no"]
  BY DEF Detach
<1>4. s \in BOOLEAN
  BY <1>0, <1>2 DEF TypeOK
<1>5. TypeOK' /\ Frame(c)
  BY <1>0, <1>1, <1>2, <1>3, <1>4 DEF TypeOK, PCs, Frame
<1>6. /\ \/ pc'[c] = "removeStorage" /\ using'[c]
         \/ pc'[c] = "removeDrive" /\ ~using'[c]
      /\ detached'[c] = "no"
  BY <1>0, <1>2, <1>3, <1>4 DEF TypeOK
<1>7. Local(c)'
  BY <1>0, <1>1, <1>6 DEF Local, Attaching, Detaching, Named
<1>. QED
  BY <1>5, <1>7 DEF Kept

\* RemoveResourceSettings, for either part: the request is answered and the
\* part is on its way out, or the detach has failed.
LEMMA RemoveCases ==
  ASSUME Inv, NEW c \in Clients, NEW part \in Parts, NEW from \in PCs, NEW to \in PCs,
         Remove(c, part, from, to)
  PROVE  /\ TypeOK' /\ Frame(c) /\ ret' = ret /\ media' = media /\ using' = using
         /\ lost'[c] \/ lost'[c] = lost[c]
         /\ \A p \in Parts : res'[c][p] # "absent" /\ ~lost'[c] => res[c][p] # "absent"
         /\ \A p \in Parts \ {part} : res'[c][p] = res[c][p] /\ job'[c][p] = job[c][p]
         /\ \/ /\ pc'[c] = to /\ detached'[c] = detached[c]
               /\ CanRemove(c, part)
               /\ Removes(c, part)'
            \/ pc'[c] = "back" /\ detached'[c] = "failed"
<1>0. TypeOK
  BY DEF Inv
<1>1. UNCHANGED <<loc, media, ret, using>>
  BY DEF Remove
<1>2. ASSUME pc' = [pc EXCEPT ![c] = to], Begin(c, part, "remove"), lost' = lost,
             detached' = detached
      PROVE  /\ TypeOK' /\ Frame(c)
             /\ \A p \in Parts : res'[c][p] # "absent" => res[c][p] # "absent"
             /\ \A p \in Parts \ {part} : res'[c][p] = res[c][p] /\ job'[c][p] = job[c][p]
             /\ pc'[c] = to /\ CanRemove(c, part) /\ Removes(c, part)'
  <2>1. /\ res' \in [Clients -> [Parts -> States]]
        /\ job' \in [Clients -> [Parts -> JobStates \cup {"none"}]]
        /\ \A d \in Clients \ {c} : res'[d] = res[d] /\ job'[d] = job[d]
        /\ \A p \in Parts \ {part} : res'[c][p] = res[c][p] /\ job'[c][p] = job[c][p]
        /\ CanRemove(c, part)
        /\ \/ res'[c][part] = "absent" /\ job'[c][part] = "none"
           \/ res'[c][part] = "removing" /\ job'[c][part] = "active"
    BY <1>0, <1>2, Begun
  <2>2. TypeOK' /\ Frame(c)
    BY <1>0, <1>1, <1>2, <2>1 DEF TypeOK, Frame
  <2>3. ASSUME NEW p \in Parts, res'[c][p] # "absent" PROVE res[c][p] # "absent"
    BY <2>1, <2>3 DEF CanRemove
  <2>4. pc'[c] = to
    BY <1>0, <1>2 DEF TypeOK
  <2>. QED
    BY <2>1, <2>2, <2>3, <2>4 DEF Removes
<1>3. ASSUME DetachEnds(c, "failed"), NotAccepted(c, part, "remove")
      PROVE  /\ TypeOK' /\ Frame(c)
             /\ lost'[c] \/ (lost'[c] = lost[c] /\ res'[c] = res[c])
             /\ \A p \in Parts \ {part} : res'[c][p] = res[c][p] /\ job'[c][p] = job[c][p]
             /\ pc'[c] = "back" /\ detached'[c] = "failed"
  <2>1. /\ res' \in [Clients -> [Parts -> States]]
        /\ job' \in [Clients -> [Parts -> JobStates \cup {"none"}]]
        /\ lost' \in [Clients -> BOOLEAN]
        /\ \A d \in Clients \ {c} :
             res'[d] = res[d] /\ job'[d] = job[d] /\ lost'[d] = lost[d]
        /\ lost'[c] \/ (lost'[c] = lost[c] /\ res'[c] = res[c])
        /\ \A p \in Parts \ {part} : res'[c][p] = res[c][p] /\ job'[c][p] = job[c][p]
    BY <1>0, <1>3, Begun, NotAcceptedCases DEF TypeOK
  <2>2. /\ pc' = [pc EXCEPT ![c] = "back"]
        /\ detached' = [detached EXCEPT ![c] = "failed"]
    BY <1>3 DEF DetachEnds
  <2>3. TypeOK' /\ Frame(c)
    BY <1>0, <1>1, <2>1, <2>2 DEF TypeOK, PCs, Frame
  <2>. QED
    BY <1>0, <2>1, <2>2, <2>3 DEF TypeOK
<1>. QED
  BY <1>1, <1>2, <1>3 DEF Remove, Answered

LEMMA RemoveKept ==
  ASSUME Inv, NEW c \in Clients, RemoveStorage(c) \/ RemoveDrive(c)
  PROVE  Kept(c)
<1>0. Local(c) /\ "drive" \in Parts /\ "child" \in Parts
      /\ {"removeStorage", "removeDrive", "waitRemoveStorage", "waitRemoveDrive"} \subseteq PCs
  BY DEF Inv, Parts, PCs
<1>1. ASSUME RemoveStorage(c), using[c] PROVE Kept(c)
  <2>1. Remove(c, "child", "removeStorage", "waitRemoveStorage")
    BY <1>1 DEF RemoveStorage
  <2>2. pc[c] = "removeStorage" /\ detached[c] # "ok"
    BY <1>0, <2>1 DEF Remove, Local, Detaching
  <2>3. Local(c)'
    BY <1>0, <1>1, <2>1, <2>2, RemoveCases DEF Local, Attaching, Detaching, Named
  <2>. QED
    BY <1>0, <2>1, <2>3, RemoveCases DEF Kept
<1>2. ASSUME RemoveDrive(c) PROVE Kept(c)
  <2>1. Remove(c, "drive", "removeDrive", "waitRemoveDrive")
    BY <1>2 DEF RemoveDrive
  <2>2. pc[c] = "removeDrive" /\ detached[c] # "ok"
    BY <1>0, <2>1 DEF Remove, Local, Detaching
  <2>3. CanRemove(c, "drive") => res[c]["child"] = "absent"
    BY DEF CanRemove
  <2>4. Local(c)'
    BY <1>0, <2>1, <2>2, <2>3, RemoveCases
       DEF Local, Attaching, Detaching, Named, Parts
  <2>. QED
    BY <1>0, <2>1, <2>4, RemoveCases DEF Kept
<1>3. RemoveStorage(c) => using[c]
  BY <1>0 DEF RemoveStorage, Remove, Local, Detaching
<1>. QED
  BY <1>1, <1>2, <1>3

LEMMA WaitRemoveKept ==
  ASSUME Inv, NEW c \in Clients, WaitRemoveStorage(c) \/ WaitRemoveDrive(c)
  PROVE  Kept(c)
<1>0. TypeOK /\ Local(c)
  BY DEF Inv
<1>1. UNCHANGED <<loc, media, ret, using, res, job, lost>>
  BY DEF WaitRemoveStorage, WaitRemoveDrive
<1>2. CASE WaitRemoveStorage(c)
  <2>1. pc[c] = "waitRemoveStorage" /\ detached[c] # "ok"
    BY <1>0, <1>2 DEF WaitRemoveStorage, Local, Detaching
  <2>2. PICK v \in WaitVerdicts(c, "child") :
          \/ v = "ok" /\ pc' = [pc EXCEPT ![c] = "removeDrive"] /\ detached' = detached
          \/ v # "ok" /\ DetachEnds(c, "failed")
    BY <1>2 DEF WaitRemoveStorage
  <2>3. v = "ok" => res[c]["child"] = "absent"
    BY <1>0, <2>1, OkIsTrue DEF Local, Detaching, Removes
  <2>4. TypeOK' /\ Frame(c)
    BY <1>0, <1>1, <2>2 DEF TypeOK, PCs, Frame, DetachEnds
  <2>5. Local(c)'
    BY <1>0, <1>1, <2>1, <2>2, <2>3
       DEF TypeOK, DetachEnds, Local, Attaching, Detaching, Named
  <2>. QED
    BY <2>4, <2>5 DEF Kept
<1>3. CASE WaitRemoveDrive(c)
  <2>1. pc[c] = "waitRemoveDrive" /\ detached[c] # "ok"
    BY <1>0, <1>3 DEF WaitRemoveDrive, Local, Detaching
  <2>2. PICK v \in WaitVerdicts(c, "drive") :
          DetachEnds(c, IF v = "ok" THEN "ok" ELSE "failed")
    BY <1>3 DEF WaitRemoveDrive
  <2>3. /\ res[c]["child"] = "absent"
        /\ v = "ok" => res[c]["drive"] = "absent"
    BY <1>0, <2>1, OkIsTrue DEF Local, Detaching, Removes
  <2>4. TypeOK' /\ Frame(c)
    BY <1>0, <1>1, <2>2 DEF TypeOK, PCs, Frame, DetachEnds
  <2>5. Local(c)'
    BY <1>0, <1>1, <2>1, <2>2, <2>3
       DEF TypeOK, DetachEnds, Local, Attaching, Detaching, Named
  <2>. QED
    BY <2>4, <2>5 DEF Kept
<1>. QED
  BY <1>2, <1>3

\* The jobs that go on while the goroutine is elsewhere.
LEMMA HostKept == ASSUME Inv, NEW c \in Clients, HostStep(c) PROVE Kept(c)
<1>0. TypeOK /\ Local(c)
  BY DEF Inv
<1>1. PICK part \in Parts : JobEnds(c, part)
  BY DEF HostStep
<1>2. UNCHANGED <<pc, loc, media, ret, using, detached, lost>>
  BY DEF HostStep
<1>3. /\ res' \in [Clients -> [Parts -> States]]
      /\ job' \in [Clients -> [Parts -> JobStates \cup {"none"}]]
      /\ \A d \in Clients \ {c} : res'[d] = res[d] /\ job'[d] = job[d]
      /\ \A p \in Parts \ {part} : res'[c][p] = res[c][p] /\ job'[c][p] = job[c][p]
      /\ res[c][part] \in {"adding", "removing"}
      /\ job'[c][part] = "completed" =>
           res'[c][part] = IF res[c][part] = "adding" THEN "present" ELSE "absent"
      /\ job'[c][part] \in {"completed", "failed"}
  BY <1>0, <1>1, JobEnded
<1>4. TypeOK' /\ Frame(c)
  BY <1>0, <1>2, <1>3 DEF TypeOK, Frame
<1>7. job[c][part] = "active"
  BY <1>3 DEF Inv, Running
<1>5. CASE part = "drive"
  <2>1. res'[c]["child"] = res[c]["child"] /\ job'[c]["child"] = job[c]["child"]
    BY <1>3, <1>5 DEF Parts
  <2>2. Attaching(c)'
    BY <1>0, <1>2, <1>3, <1>5, <1>7, <2>1 DEF Local, Attaching, Adds
  <2>3. Detaching(c)'
    BY <1>0, <1>2, <1>3, <1>5, <1>7, <2>1 DEF Local, Detaching, Removes
  <2>4. Named(c)'
    BY <1>0, <1>2, <1>3, <1>5, <2>1 DEF Local, Named
  <2>. QED
    BY <1>4, <2>2, <2>3, <2>4 DEF Kept, Local
<1>6. CASE part = "child"
  <2>1. res'[c]["drive"] = res[c]["drive"] /\ job'[c]["drive"] = job[c]["drive"]
    BY <1>3, <1>6 DEF Parts
  <2>2. Attaching(c)'
    BY <1>0, <1>2, <1>3, <1>6, <1>7, <2>1 DEF Local, Attaching, Adds
  <2>3. Detaching(c)'
    BY <1>0, <1>2, <1>3, <1>6, <1>7, <2>1 DEF Local, Detaching, Removes
  <2>4. Named(c)'
    BY <1>0, <1>2, <1>3, <1>6, <2>1 DEF Local, Named
  <2>. QED
    BY <1>4, <2>2, <2>3, <2>4 DEF Kept, Local
<1>. QED
  BY <1>5, <1>6 DEF Parts

----------------------------------------------------------------------------
LEMMA RunningKept == Inv /\ [Next]_vars => Running'
<1> SUFFICES ASSUME Inv, [Next]_vars PROVE Running'
  OBVIOUS
<1>0. TypeOK /\ Running
  BY DEF Inv
<1>1. ASSUME NEW c \in Clients, NEW part \in Parts, NEW action \in {"add", "remove"},
             Begin(c, part, action)
      PROVE  Running'
  <2>1. /\ \A d \in Clients \ {c} : res'[d] = res[d] /\ job'[d] = job[d]
        /\ \A p \in Parts \ {part} : res'[c][p] = res[c][p] /\ job'[c][p] = job[c][p]
        /\ res'[c][part] \in {"adding", "removing"} => job'[c][part] = "active"
    BY <1>0, <1>1, Begun
  <2>. QED
    BY <1>0, <2>1 DEF Running
<1>2. ASSUME NEW c \in Clients, NEW part \in Parts, JobEnds(c, part) PROVE Running'
  <2>1. /\ \A d \in Clients \ {c} : res'[d] = res[d] /\ job'[d] = job[d]
        /\ \A p \in Parts \ {part} : res'[c][p] = res[c][p] /\ job'[c][p] = job[c][p]
        /\ res'[c][part] \notin {"adding", "removing"}
    BY <1>0, <1>2, JobEnded
  <2>. QED
    BY <1>0, <2>1 DEF Running
<1>3. CASE UNCHANGED <<res, job>>
  BY <1>0, <1>3 DEF Running
<1>4. ASSUME NEW c \in Clients, ClientStep(c) PROVE Running'
  <2>1. \/ UNCHANGED <<res, job>>
        \/ Begin(c, "drive", "add") \/ Begin(c, "child", "add")
        \/ Begin(c, "drive", "remove") \/ Begin(c, "child", "remove")
    BY <1>4 DEF ClientStep, Attach, AddDrive, WaitDrive, AddStorage, WaitStorage, Detach,
                RemoveStorage, WaitRemoveStorage, RemoveDrive, WaitRemoveDrive, Remove,
                Answered, NotAccepted, AnswerLost, Refused
  <2>. QED
    BY <1>1, <1>3, <2>1 DEF Parts
<1>. QED
  BY <1>2, <1>3, <1>4 DEF Next, HostStep, vars

LEMMA NextInv == Inv /\ [Next]_vars => Inv'
<1> SUFFICES ASSUME Inv, [Next]_vars PROVE Inv'
  OBVIOUS
<1>1. ASSUME NEW c \in Clients, ClientStep(c) \/ HostStep(c) PROVE Inv'
  <2>1. Kept(c)
    BY <1>1, AttachKept, AddDriveKept, WaitDriveKept, AddStorageKept, WaitStorageKept,
       DetachKept, RemoveKept, WaitRemoveKept, HostKept DEF ClientStep
  <2>2. media' = media
    BY <1>1 DEF ClientStep, HostStep, Attach, AddDrive, WaitDrive, AddStorage,
                WaitStorage, Detach, RemoveStorage, WaitRemoveStorage, RemoveDrive,
                WaitRemoveDrive, Remove
  <2>3. ASSUME NEW d \in Clients \ {c} PROVE Local(d)'
    BY <2>1, <2>2 DEF Inv, Kept, Frame, Local, Attaching, Detaching, Named, Adds, Removes
  <2>. QED
    BY <2>1, <2>3, RunningKept DEF Inv, Kept
<1>2. CASE UNCHANGED vars
  BY <1>2 DEF vars, Inv, TypeOK, Running, Local, Attaching, Detaching, Named, Adds, Removes
<1>. QED
  BY <1>1, <1>2 DEF Next

LEMMA AlwaysInv == Spec => []Inv
BY InitInv, NextInv, PTL DEF Spec

\* The variables of Storage have their types.
THEOREM TypeCorrect == Spec => []TypeOK
BY AlwaysInv, PTL DEF Inv

\* An attach that returns no error has attached the drive and its file.
THEOREM AttachSound == Spec => []AttachedMeansAttached
<1>1. Inv => AttachedMeansAttached
  BY DEF Inv, Local, Attaching, AttachedMeansAttached
<1>. QED
  BY AlwaysInv, <1>1, PTL

\* A file is only ever added to a drive that has been realised.
THEOREM ParentAlwaysRealised == Spec => []ParentRealised
<1>1. Inv => ParentRealised
  BY DEF Inv, Local, Attaching, ParentRealised
<1>. QED
  BY AlwaysInv, <1>1, PTL

\* A detach comes to the drive when its child is gone.
THEOREM ChildAlwaysRemovedFirst == Spec => []ChildRemovedFirst
<1>1. Inv => ChildRemovedFirst
  BY DEF Inv, Local, Detaching, ChildRemovedFirst
<1>. QED
  BY AlwaysInv, <1>1, PTL

\* A detach that returns no error has left nothing.
THEOREM DetachSound == Spec => []DetachedMeansGone
<1>1. Inv => DetachedMeansGone
  BY DEF Inv, Local, Detaching, DetachedMeansGone, Parts
<1>. QED
  BY AlwaysInv, <1>1, PTL

\* Unless an answer was lost, the caller holds references to all that is left.
THEOREM ReferencesAlwaysSuffice == Spec => []ReferencesSuffice
<1>1. Inv => ReferencesSuffice
  BY DEF Inv, Local, Named, ReferencesSuffice
<1>. QED
  BY AlwaysInv, <1>1, PTL

\* What an attach or a detach without an error promises is so, however many
\* goroutines attach and detach (storage.go:484-488, 502).
THEOREM OutcomesAlwaysTrue == Spec => []OutcomesTrue
BY AttachSound, DetachSound, PTL DEF OutcomesTrue

\* The drive comes before the medium and goes after it (storage.go:448-450,
\* 497-501).
THEOREM OrderAlwaysKept == Spec => []OrderKept
BY ParentAlwaysRealised, ChildAlwaysRemovedFirst, PTL DEF OrderKept
=============================================================================
