--------------------------- MODULE SettingsProofs ---------------------------
(***************************************************************************)
(* Theorems about Settings, for any goroutines, properties and values.     *)
(*                                                                         *)
(* Local(c) is the inductive invariant of goroutine c.  Its heart is       *)
(* Asked(c): a request whose job is still running holds what the goroutine *)
(* wished for and, beside it, either nothing or what it had read.          *)
(***************************************************************************)
EXTENDS Settings, TLAPS

\* A wish that is carried out: a zero of a value type is not sent, and some
\* properties the host does not change.
IsSent(w) == (w.value # Zero \/ w.field \in PointerFields) /\ Takes(w.field)

\* Request p holds the wish w; with it come the properties of b, or none.
Holds(p, w) == IsSent(w) => p[w.field] = w.value

Alone(p, w) == \A f \in Fields : f # w.field => p[f] = Null

WithRead(p, w, b) ==
  \A f \in Fields : f # w.field /\ p[f] # Null => p[f] = b[f]

IsWish(w) == w.field \in Fields /\ w.value \in NonZero \cup {Zero}

Asked(c) ==
  /\ IsWish(want[c])
  /\ Holds(sent[c], want[c])
  /\ IF small[c] THEN Alone(sent[c], want[c]) ELSE WithRead(sent[c], want[c], base[c])

Took(c) == IsSent(want[c]) => effect[c]

Local(c) ==
  /\ pc[c] # "idle" => out[c] = "none"
  /\ job[c] = "active" => Asked(c)
  /\ job[c] = "completed" => Took(c)
  /\ pc[c] = "sent" /\ ~named[c] => Took(c)
  /\ out[c] = "ok" => Took(c)

Inv == TypeOK /\ \A c \in Clients : Local(c)

----------------------------------------------------------------------------
LEMMA InitInv == Init => Inv
<1> SUFFICES ASSUME Init PROVE Inv
  OBVIOUS
<1>1. Nothing \in [Fields -> Values] /\ NoWish \in [field : Fields, value : Values]
  BY SettingsAssumption DEF Nothing, NoWish, Fields, Values
<1>2. host \in [Fields -> Values]
  BY DEF Init
<1>3. TypeOK
  BY <1>1, <1>2 DEF Init, TypeOK
<1>4. ASSUME NEW c \in Clients PROVE Local(c)
  BY <1>4 DEF Init, Local
<1>. QED
  BY <1>3, <1>4 DEF Inv

\* The steps of a goroutine and of its job leave the others alone.
Frame(c) ==
  /\ object' = object
  /\ \A d \in Clients \ {c} :
       /\ pc'[d] = pc[d] /\ base'[d] = base[d] /\ want'[d] = want[d]
       /\ small'[d] = small[d] /\ sent'[d] = sent[d] /\ job'[d] = job[d]
       /\ named'[d] = named[d] /\ effect'[d] = effect[d] /\ out'[d] = out[d]

LEMMA LocalFrame ==
  ASSUME NEW c \in Clients, Frame(c), NEW d \in Clients \ {c}, Local(d)
  PROVE  Local(d)'
<1>1. Asked(d) => Asked(d)'
  BY DEF Frame, Asked
<1>2. Took(d)' <=> Took(d)
  BY DEF Frame, Took
<1>. QED
  BY <1>1, <1>2 DEF Frame, Local

\* A request that is carried out changes what is in it, and has its effect.
LEMMA Effects ==
  ASSUME TypeOK, NEW c \in Clients, NEW p \in [Fields -> Values],
         NEW w \in [field : Fields, value : Values], IsWish(w), Holds(p, w), CarryOut(c, p, w)
  PROVE  /\ host' \in [Fields -> Values]
         /\ \A f \in Fields : host'[f] # host[f] =>
              Takes(f) /\ p[f] # Null /\ host'[f] = p[f]
         /\ effect' \in [Clients -> BOOLEAN]
         /\ \A d \in Clients \ {c} : effect'[d] = effect[d]
         /\ IsSent(w) => effect'[c]
<1>1. host \in [Fields -> Values] /\ effect \in [Clients -> BOOLEAN]
  BY DEF TypeOK
<1>2. /\ host' = [f \in Fields |->
                   IF p[f] # Null /\ Takes(f) THEN p[f] ELSE host[f]]
      /\ effect' = [effect EXCEPT ![c] = (host'[w.field] = w.value)]
  BY DEF CarryOut, After
<1>3. w.field \in Fields /\ w.value # Null
  BY SettingsAssumption DEF IsWish, Fields
<1>4. IsSent(w) => host'[w.field] = w.value
  BY <1>2, <1>3 DEF Holds, IsSent
<1>5. effect'[c] = (host'[w.field] = w.value)
  BY <1>1, <1>2
<1>. QED
  BY <1>1, <1>2, <1>4, <1>5

----------------------------------------------------------------------------
\* What UpdateVm and SetMemorySettings send: what was read, with the change.
LEMMA FullRequest ==
  ASSUME TypeOK, NEW c \in Clients, NEW f \in Fields, NEW v \in NonZero \cup {Zero}
  PROVE  LET p == Marshal(Clear([Unmarshal(base[c]) EXCEPT ![f] = v]))
             w == [field |-> f, value |-> v]
         IN  /\ p \in [Fields -> Values]
             /\ Holds(p, w) /\ WithRead(p, w, base[c])
<1> DEFINE u == Unmarshal(base[c])
           s == [u EXCEPT ![f] = v]
           p == Marshal(Clear(s))
           w == [field |-> f, value |-> v]
<1>1. base[c] \in [Fields -> Values] /\ f \in Fields /\ v \in Values /\ Null \in Values
  BY DEF TypeOK, Fields, Values
<1>2. u = [g \in Fields |->
             IF base[c][g] = Null /\ g \notin PointerFields THEN Zero ELSE base[c][g]]
  BY DEF Unmarshal
<1>3. s = [g \in Fields |-> IF g = f THEN v ELSE u[g]]
  BY <1>2
<1>4. \A g \in Fields : s[g] \in Values
  BY <1>1, <1>2, <1>3 DEF Values
<1>5. Clear(s) = [g \in Fields |->
                    IF object = "system" /\ g \in ClearedFields THEN Zero ELSE s[g]]
  BY <1>3 DEF Clear
<1>6. p = [g \in Fields |-> IF Clear(s)[g] = Zero /\ g \notin PointerFields
                              THEN Null ELSE Clear(s)[g]]
  BY DEF Marshal
<1>7. p \in [Fields -> Values]
  BY <1>1, <1>4, <1>5, <1>6 DEF Values
<1>8. ASSUME IsSent(w) PROVE p[f] = v
  <2>1. f \notin ClearedFields /\ (v # Zero \/ f \in PointerFields)
    BY <1>8, SettingsAssumption DEF IsSent, Takes
  <2>2. Clear(s)[f] = v
    BY <1>1, <1>3, <1>5, <2>1
  <2>. QED
    BY <1>1, <1>6, <2>1, <2>2
<1>9. Holds(p, w)
  BY <1>8 DEF Holds
<1>10. WithRead(p, w, base[c])
  BY <1>2, <1>3, <1>5, <1>6, SettingsAssumption DEF WithRead
<1>. QED
  BY <1>7, <1>9, <1>10

\* What RenameVmCheckpoint and SetIntegrationServiceEnabled send: the one
\* property.
LEMMA OneProperty ==
  ASSUME NEW c \in Clients, NEW f \in ValueFields, NEW v \in NonZero, Takes(f)
  PROVE  LET p == SmallRequest(c, f, v)
             w == [field |-> f, value |-> v]
         IN  /\ p \in [Fields -> Values]
             /\ Holds(p, w) /\ Alone(p, w)
<1> DEFINE s == Only(f, v)
           p == SmallRequest(c, f, v)
           w == [field |-> f, value |-> v]
<1>1. f \in Fields \ (PointerFields \cup ClearedFields) /\ v # Zero
  BY SettingsAssumption DEF Takes, Fields
<1>2. s = [g \in Fields |-> IF g = f THEN v ELSE IF g \in PointerFields THEN Null ELSE Zero]
  BY DEF Only
<1>3. Clear(s) = [g \in Fields |->
                    IF object = "system" /\ g \in ClearedFields THEN Zero ELSE s[g]]
  BY <1>2 DEF Clear
<1>4. p = [g \in Fields |-> IF Clear(s)[g] = Zero /\ g \notin PointerFields
                              THEN Null ELSE Clear(s)[g]]
  BY DEF SmallRequest, Marshal
<1>5. p = [g \in Fields |-> IF g = f THEN v ELSE Null]
  BY <1>1, <1>2, <1>3, <1>4, SettingsAssumption
<1>6. p \in [Fields -> Values]
  BY <1>5 DEF Values
<1>7. Holds(p, w) /\ Alone(p, w)
  BY <1>1, <1>5 DEF Holds, Alone
<1>. QED
  BY <1>6, <1>7

\* After a request has been sent, which holds the wish and what else it may.
LEMMA SendStep ==
  ASSUME Inv, NEW c \in Clients, NEW f \in Fields, NEW v \in NonZero \cup {Zero},
         NEW p \in [Fields -> Values], Send(c, f, v, p), pc[c] = "read",
         Holds(p, [field |-> f, value |-> v]),
         small' \in [Clients -> BOOLEAN], \A d \in Clients \ {c} : small'[d] = small[d],
         small'[c] => Alone(p, [field |-> f, value |-> v]),
         ~small'[c] => WithRead(p, [field |-> f, value |-> v], base[c]),
         UNCHANGED <<object, base, out>>
  PROVE  /\ Inv'
         /\ want'[c] = [field |-> f, value |-> v] /\ sent'[c] = p
         /\ \A g \in Fields : host'[g] # host[g] =>
              Takes(g) /\ p[g] # Null /\ host'[g] = p[g]
<1> DEFINE w == [field |-> f, value |-> v]
<1>1. TypeOK /\ \A d \in Clients : Local(d)
  BY DEF Inv
<1>2. w \in [field : Fields, value : Values] /\ IsWish(w)
  BY DEF IsWish, Fields, Values
<1>3. /\ want' = [want EXCEPT ![c] = w] /\ sent' = [sent EXCEPT ![c] = p]
      /\ want' \in [Clients -> [field : Fields, value : Values]]
      /\ sent' \in [Clients -> [Fields -> Values]]
      /\ want'[c] = w /\ sent'[c] = p /\ out[c] = "none"
  BY <1>1, <1>2 DEF Send, TypeOK, Local
<1>4. PICK answer \in {"done", "job", "jobless", "lost"} :
        /\ pc' = [pc EXCEPT ![c] = IF answer \in {"done", "job"} THEN "sent" ELSE "idle"]
        /\ named' = [named EXCEPT ![c] = answer = "job"]
        /\ \/ /\ answer \in {"done", "lost"}
              /\ CarryOut(c, p, w)
              /\ job' = [job EXCEPT ![c] = "none"]
           \/ /\ answer # "done"
              /\ job' \in {[job EXCEPT ![c] = "active"], [job EXCEPT ![c] = "none"]}
              /\ effect' = [effect EXCEPT ![c] = FALSE]
              /\ UNCHANGED host
  BY DEF Send
<1>5. /\ pc' \in [Clients -> {"idle", "read", "sent"}] /\ named' \in [Clients -> BOOLEAN]
      /\ pc'[c] = (IF answer \in {"done", "job"} THEN "sent" ELSE "idle")
      /\ named'[c] = (answer = "job")
  BY <1>1, <1>4 DEF TypeOK
<1>6. /\ host' \in [Fields -> Values] /\ effect' \in [Clients -> BOOLEAN]
      /\ \A g \in Fields : host'[g] # host[g] =>
           Takes(g) /\ p[g] # Null /\ host'[g] = p[g]
      /\ \A d \in Clients \ {c} : effect'[d] = effect[d]
      /\ answer = "done" /\ IsSent(w) => effect'[c]
  <2>1. CASE CarryOut(c, p, w)
    BY <2>1, <1>1, <1>2, Effects
  <2>2. CASE answer # "done" /\ effect' = [effect EXCEPT ![c] = FALSE] /\ UNCHANGED host
    BY <2>2, <1>1 DEF TypeOK
  <2>. QED
    BY <2>1, <2>2, <1>4
<1>7. /\ job' \in [Clients -> JobStates \cup {"none"}]
      /\ job'[c] \in {"none", "active"}
      /\ \A d \in Clients \ {c} : job'[d] = job[d]
  BY <1>1, <1>4 DEF TypeOK, JobStates
<1>8. TypeOK'
  BY <1>1, <1>3, <1>5, <1>6, <1>7 DEF TypeOK
<1>9. Frame(c)
  BY <1>1, <1>3, <1>4, <1>6, <1>7 DEF Frame, TypeOK
<1>10. Asked(c)'
  BY <1>2, <1>3 DEF Asked
<1>11. pc'[c] = "sent" /\ ~named'[c] => Took(c)'
  BY <1>3, <1>5, <1>6 DEF Took
<1>12. Local(c)'
  BY <1>3, <1>7, <1>10, <1>11 DEF Local
<1>. QED
  BY <1>1, <1>3, <1>6, <1>8, <1>9, <1>12, LocalFrame DEF Inv

LEMMA WriteBackStep ==
  ASSUME Inv, NEW c \in Clients, NEW target, WriteBack(c, target)
  PROVE  /\ Inv' /\ ~small'[c] /\ sent'[c] \in [Fields -> Values]
         /\ WithRead(sent'[c], want'[c], base[c])
         /\ pc'[c] # pc[c] /\ \A d \in Clients \ {c} : pc'[d] = pc[d] /\ job'[d] = job[d]
         /\ \A g \in Fields : host'[g] # host[g] =>
              Takes(g) /\ sent'[c][g] # Null /\ host'[g] = sent'[c][g]
<1>1. TypeOK
  BY DEF Inv
<1>2. PICK f \in Fields, v \in NonZero \cup {Zero} :
        Send(c, f, v, Marshal(Clear([Unmarshal(base[c]) EXCEPT ![f] = v])))
  BY DEF WriteBack
<1> DEFINE p == Marshal(Clear([Unmarshal(base[c]) EXCEPT ![f] = v]))
           w == [field |-> f, value |-> v]
<1>3. /\ p \in [Fields -> Values]
      /\ Holds(p, w) /\ WithRead(p, w, base[c])
  BY <1>1, FullRequest
<1>4. /\ pc[c] = "read" /\ ~small'[c] /\ small' \in [Clients -> BOOLEAN]
      /\ \A d \in Clients \ {c} : small'[d] = small[d]
      /\ UNCHANGED <<object, base, out>>
  BY <1>1 DEF WriteBack, TypeOK
<1> HIDE DEF p
<1>5. /\ Inv' /\ want'[c] = w /\ sent'[c] = p
      /\ \A g \in Fields : host'[g] # host[g] =>
           Takes(g) /\ p[g] # Null /\ host'[g] = p[g]
  <2>1. Send(c, f, v, p)
    BY <1>2 DEF p
  <2>2. /\ p \in [Fields -> Values]
        /\ Holds(p, [field |-> f, value |-> v])
        /\ WithRead(p, [field |-> f, value |-> v], base[c])
    BY <1>3
  <2>3. /\ Inv' /\ want'[c] = [field |-> f, value |-> v] /\ sent'[c] = p
        /\ \A g \in Fields : host'[g] # host[g] =>
             Takes(g) /\ p[g] # Null /\ host'[g] = p[g]
    BY <1>4, <2>1, <2>2, SendStep
  <2>. QED
    BY <2>3
<1>6. pc'[c] # pc[c] /\ \A d \in Clients \ {c} : pc'[d] = pc[d] /\ job'[d] = job[d]
  BY <1>1, <1>2, <1>4 DEF Send, TypeOK
<1>. QED
  BY <1>1, <1>3, <1>4, <1>5, <1>6 DEF TypeOK

LEMMA WriteSmallStep ==
  ASSUME Inv, NEW c \in Clients, NEW target, WriteSmall(c, target)
  PROVE  /\ Inv' /\ small'[c] /\ sent'[c] \in [Fields -> Values]
         /\ Alone(sent'[c], want'[c])
         /\ pc'[c] # pc[c] /\ \A d \in Clients \ {c} : pc'[d] = pc[d] /\ job'[d] = job[d]
         /\ \A g \in Fields : host'[g] # host[g] =>
              Takes(g) /\ sent'[c][g] # Null /\ host'[g] = sent'[c][g]
<1>1. TypeOK
  BY DEF Inv
<1>2. PICK f \in {g \in ValueFields : Takes(g)}, v \in NonZero :
        Send(c, f, v, SmallRequest(c, f, v))
  BY DEF WriteSmall
<1> DEFINE p == SmallRequest(c, f, v)
           w == [field |-> f, value |-> v]
<1>3. p \in [Fields -> Values] /\ Holds(p, w) /\ Alone(p, w)
  BY OneProperty
<1>4. /\ pc[c] = "read" /\ small'[c] /\ small' \in [Clients -> BOOLEAN]
      /\ \A d \in Clients \ {c} : small'[d] = small[d]
      /\ UNCHANGED <<object, base, out>>
  BY <1>1 DEF WriteSmall, TypeOK
<1> HIDE DEF p
<1>5. /\ Inv' /\ want'[c] = w /\ sent'[c] = p
      /\ \A g \in Fields : host'[g] # host[g] =>
           Takes(g) /\ p[g] # Null /\ host'[g] = p[g]
  <2>1. Send(c, f, v, p) /\ f \in Fields /\ v \in NonZero \cup {Zero}
    BY <1>2 DEF p, Fields
  <2>2. /\ p \in [Fields -> Values]
        /\ Holds(p, [field |-> f, value |-> v])
        /\ Alone(p, [field |-> f, value |-> v])
    BY <1>3
  <2>3. /\ Inv' /\ want'[c] = [field |-> f, value |-> v] /\ sent'[c] = p
        /\ \A g \in Fields : host'[g] # host[g] =>
             Takes(g) /\ p[g] # Null /\ host'[g] = p[g]
    BY <1>4, <2>1, <2>2, SendStep
  <2>. QED
    BY <2>3
<1>6. pc'[c] # pc[c] /\ \A d \in Clients \ {c} : pc'[d] = pc[d] /\ job'[d] = job[d]
  BY <1>1, <1>2, <1>4 DEF Send, TypeOK
<1>. QED
  BY <1>1, <1>3, <1>4, <1>5, <1>6 DEF TypeOK

----------------------------------------------------------------------------
LEMMA ReadStep ==
  ASSUME Inv, NEW c \in Clients, Read(c)
  PROVE  Inv' /\ ~small'[c] /\ host' = host
         /\ \A d \in Clients \ {c} : pc'[d] = pc[d] /\ job'[d] = job[d]
<1>1. TypeOK /\ \A d \in Clients : Local(d)
  BY DEF Inv
<1>2. Nothing \in [Fields -> Values] /\ NoWish \in [field : Fields, value : Values]
  BY SettingsAssumption DEF Nothing, NoWish, Fields, Values
<1>3. TypeOK'
  BY <1>1, <1>2 DEF Read, TypeOK, JobStates
<1>4. Frame(c)
  BY <1>1 DEF Read, Frame, TypeOK
<1>6. /\ job'[c] = "none" /\ pc'[c] = "read" /\ out'[c] = "none" /\ ~small'[c]
      /\ host' = host
  BY <1>1 DEF Read, TypeOK
<1>7. Local(c)'
  BY <1>6 DEF Local
<1>. QED
  BY <1>1, <1>3, <1>4, <1>6, <1>7, LocalFrame DEF Inv, Frame

LEMMA WaitStep ==
  ASSUME Inv, NEW c \in Clients, Wait(c)
  PROVE  Inv' /\ host' = host
<1>1. TypeOK /\ \A d \in Clients : Local(d)
  BY DEF Inv
<1>2. PICK v \in IF named[c] THEN Verdicts(job[c]) ELSE {"ok"} :
        out' = [out EXCEPT ![c] = Outcome(v)]
  BY DEF Wait
<1>3. Outcome(v) \in {"ok", "failed"} /\ out'[c] = Outcome(v) /\ pc'[c] = "idle"
  BY <1>1, <1>2 DEF Outcome, Wait, TypeOK
<1>4. TypeOK'
  BY <1>1, <1>2, <1>3 DEF Wait, TypeOK
<1>5. Frame(c)
  BY <1>1, <1>2 DEF Wait, Frame, TypeOK
<1>6. UNCHANGED <<object, base, want, small, sent, job, named, effect>>
  BY DEF Wait
<1>7. out'[c] = "ok" => Took(c)
  BY <1>1, <1>2, <1>3 DEF Outcome, Verdicts, Local, Wait
<1>8. /\ Asked(c) => Asked(c)'
      /\ Took(c)' <=> Took(c)
  BY <1>6 DEF Asked, Took
<1>9. Local(c)'
  BY <1>1, <1>3, <1>6, <1>7, <1>8 DEF Local
<1>. QED
  BY <1>1, <1>4, <1>5, <1>9, LocalFrame DEF Inv, Wait

LEMMA JobEndsStep ==
  ASSUME Inv, NEW c \in Clients, JobEnds(c)
  PROVE  /\ Inv' /\ Asked(c) /\ UNCHANGED <<pc, want, small, sent, base>>
         /\ job'[c] # job[c] /\ \A d \in Clients \ {c} : job'[d] = job[d]
         /\ \A f \in Fields : host'[f] # host[f] =>
              Takes(f) /\ sent[c][f] # Null /\ host'[f] = sent[c][f]
<1>1. TypeOK /\ \A d \in Clients : Local(d)
  BY DEF Inv
<1>2. job[c] = "active" /\ Asked(c)
  BY <1>1 DEF JobEnds, Local
<1>3. /\ UNCHANGED <<object, pc, base, want, small, sent, named, out>>
      /\ job' \in [Clients -> JobStates \cup {"none"}]
      /\ job'[c] \in {"completed", "failed"}
      /\ \A d \in Clients \ {c} : job'[d] = job[d]
  BY <1>1 DEF JobEnds, TypeOK, JobStates
<1>4. /\ host' \in [Fields -> Values] /\ effect' \in [Clients -> BOOLEAN]
      /\ \A f \in Fields : host'[f] # host[f] =>
           Takes(f) /\ sent[c][f] # Null /\ host'[f] = sent[c][f]
      /\ \A d \in Clients \ {c} : effect'[d] = effect[d]
      /\ job'[c] = "completed" \/ Took(c) => Took(c)'
  <2>1. CASE CarryOut(c, sent[c], want[c])
    <3>1. /\ sent[c] \in [Fields -> Values] /\ want[c] \in [field : Fields, value : Values]
          /\ IsWish(want[c]) /\ Holds(sent[c], want[c])
      BY <1>1, <1>2 DEF TypeOK, Asked
    <3>2. /\ host' \in [Fields -> Values] /\ effect' \in [Clients -> BOOLEAN]
          /\ \A f \in Fields : host'[f] # host[f] =>
               Takes(f) /\ sent[c][f] # Null /\ host'[f] = sent[c][f]
          /\ \A d \in Clients \ {c} : effect'[d] = effect[d]
          /\ IsSent(want[c]) => effect'[c]
      BY <1>1, <2>1, <3>1, Effects
    <3>. QED
      BY <1>3, <3>2 DEF Took
  <2>2. CASE job' = [job EXCEPT ![c] = "failed"] /\ UNCHANGED <<host, effect>>
    <3>1. job'[c] = "failed"
      BY <1>1, <2>2 DEF TypeOK
    <3>. QED
      BY <1>1, <1>3, <2>2, <3>1 DEF TypeOK, Took
  <2>. QED
    BY <2>1, <2>2 DEF JobEnds
<1>5. TypeOK'
  BY <1>1, <1>3, <1>4 DEF TypeOK
<1>6. Frame(c)
  BY <1>3, <1>4 DEF Frame
<1>7. Local(c)'
  BY <1>1, <1>3, <1>4 DEF Local
<1>. QED
  BY <1>1, <1>2, <1>3, <1>4, <1>5, <1>6, <1>7, LocalFrame DEF Inv

LEMMA StepInv == Inv /\ [Next]_vars => Inv'
<1> SUFFICES ASSUME Inv, [Next]_vars PROVE Inv'
  OBVIOUS
<1>1. ASSUME NEW c \in Clients, Read(c) PROVE Inv'
  BY <1>1, ReadStep
<1>2. ASSUME NEW c \in Clients, UpdateVm(c) \/ SetMemorySettings(c) PROVE Inv'
  BY <1>2, WriteBackStep DEF UpdateVm, SetMemorySettings
<1>3. ASSUME NEW c \in Clients, RenameVmCheckpoint(c) \/ SetIntegrationServiceEnabled(c)
      PROVE  Inv'
  BY <1>3, WriteSmallStep DEF RenameVmCheckpoint, SetIntegrationServiceEnabled
<1>4. ASSUME NEW c \in Clients, Wait(c) PROVE Inv'
  BY <1>4, WaitStep
<1>5. ASSUME NEW c \in Clients, JobEnds(c) PROVE Inv'
  BY <1>5, JobEndsStep
<1>6. CASE UNCHANGED vars
  BY <1>6 DEF vars, Inv, TypeOK, Local, Asked, Took
<1>. QED
  BY <1>1, <1>2, <1>3, <1>4, <1>5, <1>6 DEF Next

LEMMA Invariance == Spec => []Inv
<1>. QED
  BY InitInv, StepInv, PTL DEF Spec

----------------------------------------------------------------------------
\* The state of the goroutines and of the object they change is well typed.
THEOREM TypeCorrect == Spec => []TypeOK
<1>1. Inv => TypeOK
  BY DEF Inv
<1>. QED
  BY Invariance, <1>1, PTL

\* A change whose wait ended well took effect, unless it was one to the zero
\* of a value type (vm.go:200-201, embedded.go:224-238) or to a property whose
\* changes the host ignores (vm.go:236-243): no other is cleared.
THEOREM ChangesTakeEffect == Spec => []TakesEffect
<1>1. Inv => TakesEffect
  BY DEF Inv, Local, Took, IsSent, TakesEffect
<1>. QED
  BY Invariance, <1>1, PTL

----------------------------------------------------------------------------
RacesLose ==
  \A f \in Fields : host'[f] # host[f] =>
    \E c \in Clients :
      /\ job'[c] # job[c] \/ sent'[c] # sent[c] \/ pc'[c] # pc[c]
      /\ want'[c].field = f \/ host'[f] = base[c][f]

OneChanges ==
  \A c \in Clients :
    small'[c] /\ (pc'[c] # pc[c] \/ job'[c] # job[c]) =>
      \A f \in Fields : f # want'[c].field => host'[f] = host[f]

LEMMA StepChanges == Inv /\ [Next]_vars => RacesLose /\ OneChanges
<1> SUFFICES ASSUME Inv, [Next]_vars PROVE RacesLose /\ OneChanges
  OBVIOUS
<1>1. ASSUME NEW c \in Clients, Read(c) PROVE RacesLose /\ OneChanges
  BY <1>1, ReadStep DEF RacesLose, OneChanges
<1>2. ASSUME NEW c \in Clients, UpdateVm(c) \/ SetMemorySettings(c)
      PROVE  RacesLose /\ OneChanges
  <2>1. /\ ~small'[c] /\ pc'[c] # pc[c] /\ WithRead(sent'[c], want'[c], base[c])
        /\ \A d \in Clients \ {c} : pc'[d] = pc[d] /\ job'[d] = job[d]
        /\ \A g \in Fields : host'[g] # host[g] =>
             Takes(g) /\ sent'[c][g] # Null /\ host'[g] = sent'[c][g]
    BY <1>2, WriteBackStep DEF UpdateVm, SetMemorySettings
  <2>. QED
    BY <2>1 DEF RacesLose, OneChanges, WithRead
<1>3. ASSUME NEW c \in Clients, RenameVmCheckpoint(c) \/ SetIntegrationServiceEnabled(c)
      PROVE  RacesLose /\ OneChanges
  <2>1. /\ pc'[c] # pc[c] /\ Alone(sent'[c], want'[c])
        /\ \A d \in Clients \ {c} : pc'[d] = pc[d] /\ job'[d] = job[d]
        /\ \A g \in Fields : host'[g] # host[g] =>
             Takes(g) /\ sent'[c][g] # Null /\ host'[g] = sent'[c][g]
    BY <1>3, WriteSmallStep DEF RenameVmCheckpoint, SetIntegrationServiceEnabled
  <2>. QED
    BY <2>1 DEF RacesLose, OneChanges, Alone
<1>4. ASSUME NEW c \in Clients, Wait(c) PROVE RacesLose /\ OneChanges
  BY <1>4, WaitStep DEF RacesLose, OneChanges
<1>5. ASSUME NEW c \in Clients, JobEnds(c) PROVE RacesLose /\ OneChanges
  BY <1>5, JobEndsStep DEF Asked, WithRead, Alone, RacesLose, OneChanges
<1>6. CASE UNCHANGED vars
  BY <1>6 DEF vars, RacesLose, OneChanges
<1>. QED
  BY <1>1, <1>2, <1>3, <1>4, <1>5, <1>6 DEF Next

\* A property that nobody asked to change is lost only to the write-back of
\* what another goroutine had read before (vm.go:280-295).
THEOREM OnlyRacesEverLose == Spec => OnlyRacesLose
<1>1. Inv /\ [Next]_vars => [RacesLose]_vars
  BY StepChanges
<1>. QED
  BY Invariance, <1>1, PTL DEF Spec, OnlyRacesLose, RacesLose

\* The small requests touch their own property alone, whatever happened since
\* the key was read (checkpoint.go:201-204, integration.go:221-224).
THEOREM SmallRequestsChangeOne == Spec => SmallChangesOne
<1>1. Inv /\ [Next]_vars => [OneChanges]_vars
  BY StepChanges
<1>. QED
  BY Invariance, <1>1, PTL DEF Spec, SmallChangesOne, OneChanges

\* No change costs another property its value but in the race named in
\* OnlyRacesLose, and never a small request (vm.go:274, checkpoint.go:201-204).
THEOREM NothingElseEverLost == Spec => NothingElseLost
BY OnlyRacesEverLose, SmallRequestsChangeOne DEF NothingElseLost
=============================================================================
