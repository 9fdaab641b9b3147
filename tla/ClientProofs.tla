---------------------------- MODULE ClientProofs ----------------------------
(***************************************************************************)
(* Theorems about Recorder, for any round trips and any calls of           *)
(* StopRecording, and about Enumerate, for any number of instances, of     *)
(* pulls and of attempts.                                                  *)
(*                                                                         *)
(* Recorder.  Filing follows a file from its number to its place in the    *)
(* list: a number has one round trip, and a listed file is not written     *)
(* again.  Covered says what a call of StopRecording has still to read of  *)
(* what was over before it.                                                *)
(*                                                                         *)
(* Enumerate.  Reading says what has been gathered of what the host has    *)
(* given out; Following says that the client holds a context that is open, *)
(* unless something went wrong with an answer; Ended, how the loop is      *)
(* left.                                                                   *)
(***************************************************************************)
EXTENDS Recorder, Enumerate, SequenceTheorems, TLAPS

\* The number, the file and the list, by where the round trip stands.
Filing ==
  /\ \A t, u \in Trips : number[t] = number[u] /\ number[t] # 0 => t = u
  /\ \A t \in Trips :
       /\ trip[t] \in {"idle", "sent", "scrub", "number"} => number[t] = 0
       /\ trip[t] \in {"write", "list"} => number[t] # 0
       /\ trip[t] \in {"scrub", "number", "write", "list"} => place[t] # "unread"
       /\ trip[t] = "list" =>
            number[t] \in DOMAIN disk /\ disk[number[t]] = place[t]
       /\ number[t] \in files =>
            /\ trip[t] = "over"
            /\ number[t] \in DOMAIN disk /\ disk[number[t]] = place[t]
       /\ trip[t] = "over" /\ t \notin errs /\ number[t] # 0 => number[t] \in files
       /\ t \in errs => trip[t] = "over"

\* What StopRecording has seen, by where it stands.
Covered ==
  \A s \in Stops :
    /\ \A t \in past[s] : trip[t] = "over"
    /\ stop[s] \in {"idle", "detach", "copy"} => toRead[s] = {} /\ result[s] = "none"
    /\ stop[s] = "idle" => past[s] = {}
    /\ result[s] = "nil" => stop[s] = "returned" /\ toRead[s] = {}
    /\ stop[s] = "verify" \/ result[s] = "nil" =>
         \A t \in past[s] :
           /\ t \notin errs
           /\ number[t] # 0 =>
                /\ number[t] \in files
                /\ number[t] \in toRead[s] \/ ~Leaks(disk[number[t]])

Replied ==
  \A t \in Trips :
    /\ trip[t] # "over" => reply[t] = "none"
    /\ trip[t] \in {"idle", "sent"} => place[t] = "unread"
    /\ reply[t] = "error" => place[t] = "unread"

Inv == TypeOK /\ Filing /\ Covered /\ Replied

LEMMA InitInv == Init => Inv
<1> SUFFICES ASSUME Init PROVE Inv
  OBVIOUS
<1>1. TypeOK
  BY DEF Init, TypeOK
<1>2. Filing /\ Covered /\ Replied
  BY DEF Init, Filing, Covered, Replied
<1>. QED
  BY <1>1, <1>2 DEF Inv

----------------------------------------------------------------------------
\* The steps keep the types.
LEMMA NextTypeOK == TypeOK /\ Filing /\ [Next]_vars => TypeOK'
<1> SUFFICES ASSUME TypeOK, Filing, [Next]_vars PROVE TypeOK'
  OBVIOUS
<1> USE DEF TypeOK, tripVars, recVars, stopVars
<1>1. ASSUME NEW t \in Trips, Start(t) \/ Unanswered(t) \/ Scrub(t) PROVE TypeOK'
  <2>1. CASE Start(t)
    BY <2>1 DEF Start, Move
  <2>2. CASE Unanswered(t)
    BY <2>2 DEF Unanswered, Over
  <2>3. CASE Scrub(t)
    <3>1. place'[t] \in Places \cup {"unread"}
      BY <2>3 DEF Scrub, Scrubbed, Places
    <3>. QED
      BY <2>3, <3>1 DEF Scrub
  <2>. QED
    BY <1>1, <2>1, <2>2, <2>3
<1>2. ASSUME NEW t \in Trips, Answered(t) PROVE TypeOK'
  BY <1>2 DEF Answered, Move, Over
<1>3. ASSUME NEW t \in Trips, Number(t) PROVE TypeOK'
  <2>1. 0 .. seq \subseteq 0 .. seq' /\ 1 .. seq \subseteq 1 .. seq'
        /\ seq' \in Nat /\ seq + 1 \in 0 .. seq'
    BY <1>3 DEF Number
  <2>2. number' \in [Trips -> 0 .. seq']
    BY <1>3, <2>1 DEF Number
  <2>3. files' \in SUBSET (1 .. seq') /\ DOMAIN disk' \in SUBSET (1 .. seq')
    BY <1>3, <2>1 DEF Number
  <2>4. toRead' \in [Stops -> SUBSET (1 .. seq')]
    BY <1>3, <2>1 DEF Number
  <2>. QED
    BY <1>3, <2>1, <2>2, <2>3, <2>4 DEF Number, Move
<1>4. ASSUME NEW t \in Trips, Write(t) PROVE TypeOK'
  <2>1. number[t] \in 1 .. seq /\ place[t] \in Places
    BY <1>4 DEF Write, Filing, Move
  <2>2. CASE Store(number[t], place[t])
    BY <1>4, <2>1, <2>2 DEF Write, Move, Store
  <2>3. CASE UNCHANGED disk
    BY <1>4, <2>3 DEF Write, Move
  <2>. QED
    BY <1>4, <2>2, <2>3 DEF Write
<1>5. ASSUME NEW t \in Trips, List(t) PROVE TypeOK'
  <2>1. number[t] \in 1 .. seq
    BY <1>5 DEF List, Filing
  <2>2. files' \in SUBSET (1 .. seq')
    BY <1>5, <2>1 DEF List
  <2>. QED
    BY <1>5, <2>2 DEF List, Over
<1>6. ASSUME NEW t \in Trips, Report(t) PROVE TypeOK'
  BY <1>6 DEF Report, Over
<1>7. ASSUME NEW s \in Stops, Stop(s) \/ Detach(s) \/ Copy(s) PROVE TypeOK'
  <2>1. CASE Stop(s)
    <3>1. past' \in [Stops -> SUBSET Trips]
      BY <2>1 DEF Stop
    <3>2. result' \in [Stops -> {"none", "nil", "error"}]
          /\ stop' \in [Stops -> {"idle", "detach", "copy", "verify", "returned"}]
      BY <2>1 DEF Stop, Done
    <3>. QED
      BY <2>1, <3>1, <3>2 DEF Stop
  <2>2. CASE Detach(s)
    BY <2>2 DEF Detach
  <2>3. CASE Copy(s)
    BY <2>3 DEF Copy, Done
  <2>. QED
    BY <1>7, <2>1, <2>2, <2>3
<1>8. ASSUME NEW s \in Stops, Verify(s) PROVE TypeOK'
  <2>1. toRead' \in [Stops -> SUBSET (1 .. seq)]
    BY <1>8 DEF Verify
  <2>. QED
    BY <1>8, <2>1 DEF Verify, Done
<1>9. CASE UNCHANGED vars
  BY <1>9 DEF vars
<1>. QED
  BY <1>1, <1>2, <1>3, <1>4, <1>5, <1>6, <1>7, <1>8, <1>9
     DEF Next, TripStep, StopStep

\* A file is numbered once, written by its own round trip and listed after.
LEMMA NextFiling == TypeOK /\ Filing /\ [Next]_vars => Filing'
<1> SUFFICES ASSUME TypeOK, Filing, [Next]_vars PROVE Filing'
  OBVIOUS
<1> USE DEF TypeOK, Filing, recVars, Move, Over
<1>1. ASSUME NEW t \in Trips, Start(t) PROVE Filing'
  BY <1>1 DEF Start
<1>2. ASSUME NEW t \in Trips, Unanswered(t) PROVE Filing'
  BY <1>2 DEF Unanswered
<1>3. ASSUME NEW t \in Trips, Answered(t) PROVE Filing'
  BY <1>3 DEF Answered, Places
<1>4. ASSUME NEW t \in Trips, Scrub(t) PROVE Filing'
  BY <1>4 DEF Scrub, Scrubbed
<1>5. ASSUME NEW t \in Trips, Number(t) PROVE Filing'
  <2>1. number' = [number EXCEPT ![t] = seq + 1]
        /\ trip' = [trip EXCEPT ![t] = "write"] /\ trip[t] = "number"
        /\ UNCHANGED <<place, files, errs, disk>>
    BY <1>5 DEF Number
  <2>2. \A u \in Trips : number[u] # seq + 1
    OBVIOUS
  <2>3. seq + 1 \notin files /\ seq + 1 # 0
    OBVIOUS
  <2>. QED
    BY <2>1, <2>2, <2>3
<1>6. ASSUME NEW t \in Trips, Write(t) PROVE Filing'
  <2>1. number[t] \notin files /\ trip[t] = "write"
        /\ UNCHANGED <<place, number, files, errs>>
    BY <1>6 DEF Write
  <2>2. CASE Store(number[t], place[t])
    <3>1. /\ DOMAIN disk' = DOMAIN disk \cup {number[t]}
          /\ disk'[number[t]] = place[t]
          /\ \A n \in DOMAIN disk : n # number[t] => disk'[n] = disk[n]
      BY <2>2 DEF Store
    <3>2. trip' = [trip EXCEPT ![t] = "list"] \/ trip' = [trip EXCEPT ![t] = "report"]
      BY <1>6 DEF Write
    <3>3. \A u \in Trips : number[u] \in files \/ trip[u] = "list" => number[u] # number[t]
      BY <2>1
    <3>. QED
      BY <2>1, <3>1, <3>2, <3>3
  <2>3. CASE Move(t, "write", "report") /\ UNCHANGED disk
    BY <2>1, <2>3
  <2>. QED
    BY <1>6, <2>2, <2>3 DEF Write
<1>7. ASSUME NEW t \in Trips, List(t) PROVE Filing'
  BY <1>7 DEF List
<1>8. ASSUME NEW t \in Trips, Report(t) PROVE Filing'
  BY <1>8 DEF Report
<1>9. ASSUME NEW s \in Stops, StopStep(s) PROVE Filing'
  BY <1>9 DEF StopStep, Stop, Detach, Copy, Verify, tripVars
<1>10. CASE UNCHANGED vars
  BY <1>10 DEF vars, tripVars
<1>. QED
  BY <1>1, <1>2, <1>3, <1>4, <1>5, <1>6, <1>7, <1>8, <1>9, <1>10
     DEF Next, TripStep

\* A round trip returns its answer, recorded or not.
LEMMA NextReplied == TypeOK /\ Replied /\ [Next]_vars => Replied'
<1> SUFFICES ASSUME TypeOK, Replied, [Next]_vars PROVE Replied'
  OBVIOUS
<1> USE DEF TypeOK, Replied, Move, Over
<1>1. ASSUME NEW t \in Trips, Start(t) \/ Number(t) \/ List(t) \/ Report(t)
      PROVE  Replied'
  BY <1>1 DEF Start, Number, List, Report
<1>2. ASSUME NEW t \in Trips, Write(t) PROVE Replied'
  BY <1>2 DEF Write
<1>3. ASSUME NEW t \in Trips, Scrub(t) PROVE Replied'
  BY <1>3 DEF Scrub
<1>4. ASSUME NEW t \in Trips, Answered(t) PROVE Replied'
  BY <1>4 DEF Answered
<1>5. ASSUME NEW t \in Trips, Unanswered(t) PROVE Replied'
  BY <1>5 DEF Unanswered
<1>6. ASSUME NEW s \in Stops, StopStep(s) PROVE Replied'
  BY <1>6 DEF StopStep, Stop, Detach, Copy, Verify, tripVars
<1>7. CASE UNCHANGED vars
  BY <1>7 DEF vars, tripVars
<1>. QED
  BY <1>1, <1>2, <1>3, <1>4, <1>5, <1>6, <1>7 DEF Next, TripStep

\* What a call of StopRecording knows stays true whatever the others do: what
\* was over stays over, and a listed file keeps its content.
LEMMA TripsKeepCovered ==
  ASSUME TypeOK, Filing, Covered, NEW t \in Trips, TripStep(t)
  PROVE  Covered'
<1>1. UNCHANGED stopVars
  BY DEF TripStep, Start, Unanswered, Answered, Scrub, Number, Write, List, Report
<1>2. \A u \in Trips : trip[u] = "over" =>
        trip'[u] = "over" /\ number'[u] = number[u] /\ (u \in errs' <=> u \in errs)
  BY DEF TripStep, Start, Unanswered, Answered, Scrub, Number, Write, List, Report,
         Move, Over, TypeOK, recVars
<1>3. files \subseteq files'
  BY DEF TripStep, Start, Unanswered, Answered, Scrub, Number, Write, List, Report,
         recVars
<1>4. \A u \in Trips : number[u] \in files => disk'[number[u]] = disk[number[u]]
  <2>1. CASE Write(t)
    <3>1. trip[t] = "write"
      BY <2>1 DEF Write, Move
    <3>2. \A u \in Trips : number[u] \in files =>
            number[u] # number[t] /\ number[u] \in DOMAIN disk
      BY <3>1 DEF Filing
    <3>. QED
      BY <2>1, <3>2 DEF Write, Store
  <2>2. CASE ~Write(t)
    BY <2>2 DEF TripStep, Start, Unanswered, Answered, Scrub, Number, List, Report,
                recVars
  <2>. QED
    BY <2>1, <2>2
<1>. QED
  BY <1>1, <1>2, <1>3, <1>4 DEF Covered, TypeOK, stopVars

LEMMA StopsKeepCovered ==
  ASSUME TypeOK, Filing, Covered, NEW s \in Stops, StopStep(s)
  PROVE  Covered'
<1>1. UNCHANGED <<trip, number, files, errs, disk>>
  BY DEF StopStep, Stop, Detach, Copy, Verify, tripVars, recVars
<1> USE <1>1 DEF TypeOK, Covered
<1>2. CASE Stop(s)
  BY <1>2 DEF Stop, Done
<1>3. CASE Detach(s)
  BY <1>3 DEF Detach
<1>4. CASE Copy(s)
  <2>1. ASSUME errs = {}, NEW t \in past[s], number[t] # 0 PROVE number[t] \in files
    BY <2>1 DEF Filing
  <2>2. toRead'[s] = files
    BY <1>4 DEF Copy
  <2>3. CASE errs = {}
    BY <1>4, <2>1, <2>2, <2>3 DEF Copy
  <2>4. CASE errs # {}
    BY <1>4, <2>4 DEF Copy, Done
  <2>. QED
    BY <2>3, <2>4
<1>5. CASE Verify(s)
  <2>1. CASE toRead[s] = {} /\ Done(s, "nil") /\ UNCHANGED toRead
    BY <1>5, <2>1 DEF Verify, Done
  <2>2. ASSUME NEW n \in toRead[s], ~Leaks(disk[n]),
               toRead' = [toRead EXCEPT ![s] = @ \ {n}], UNCHANGED <<stop, result>>
        PROVE  Covered'
    BY <1>5, <2>2 DEF Verify
  <2>3. CASE Done(s, "error") /\ UNCHANGED toRead
    BY <1>5, <2>3 DEF Verify, Done
  <2>. QED
    BY <1>5, <2>1, <2>2, <2>3 DEF Verify
<1>. QED
  BY <1>2, <1>3, <1>4, <1>5 DEF StopStep

LEMMA NextCovered == TypeOK /\ Filing /\ Covered /\ [Next]_vars => Covered'
<1> SUFFICES ASSUME TypeOK, Filing, Covered, [Next]_vars PROVE Covered'
  OBVIOUS
<1>1. CASE UNCHANGED vars
  BY <1>1 DEF vars, tripVars, recVars, stopVars, Covered
<1>. QED
  BY <1>1, TripsKeepCovered, StopsKeepCovered DEF Next

LEMMA AlwaysInv == Spec => []Inv
<1>1. Inv /\ [Next]_vars => Inv'
  BY NextTypeOK, NextFiling, NextCovered, NextReplied DEF Inv
<1>. QED
  BY InitInv, <1>1, PTL DEF Spec

----------------------------------------------------------------------------
\* The variables of Recorder have their types; in particular every number in
\* use has been given out.
THEOREM TypeCorrect == Spec => []TypeOK
BY AlwaysInv, PTL DEF Inv

\* The files in the list hold what their round trips wrote, however many
\* write at once.
THEOREM FilesAlwaysIntact == Spec => []FilesIntact
<1>1. Inv => FilesIntact
  BY DEF Inv, Filing, FilesIntact
<1>. QED
  BY AlwaysInv, <1>1, PTL

\* A StopRecording that took the recorder and returns nil has verified all that
\* was over when it was called.
THEOREM StopAlwaysSpeaksForThePast == Spec => []StopSpeaksForThePast
<1>1. Inv => StopSpeaksForThePast
  <2> SUFFICES ASSUME Inv, NEW s \in Stops, result[s] = "nil", NEW t \in past[s]
               PROVE  /\ t \notin errs
                      /\ number[t] # 0 =>
                           number[t] \in files /\ disk[number[t]] \in Harmless
    BY DEF StopSpeaksForThePast
  <2>1. t \in Trips /\ t \notin errs
    BY DEF Inv, TypeOK, Covered
  <2>2. ASSUME number[t] # 0
        PROVE  number[t] \in files /\ disk[number[t]] \in Places
               /\ ~Leaks(disk[number[t]])
    BY <2>1, <2>2 DEF Inv, TypeOK, Covered, Filing
  <2>. QED
    BY <2>1, <2>2 DEF Leaks, Harmless, Places
<1>. QED
  BY AlwaysInv, <1>1, PTL

\* Recording never fails an operation.
THEOREM RecordingAlwaysInvisible == Spec => []RecordingInvisible
<1>1. Inv => RecordingInvisible
  BY DEF Inv, Replied, RecordingInvisible
<1>. QED
  BY AlwaysInv, <1>1, PTL

----------------------------------------------------------------------------
Gathered == {all[i] : i \in DOMAIN all}

Ascending == \A i, j \in DOMAIN all : i < j => all[i] < all[j]

Reading ==
  /\ Gathered = (1 .. cursor) \ missed
  /\ Ascending
  /\ missed \in SUBSET (1 .. cursor)
  /\ pc = "enumerate" => all = <<>> /\ missed = {}

Following ==
  pc = "pull" => opened = EnumerateURI /\ (omitted \/ tries > 0 \/ enumCtx \in open)

Ended ==
  /\ pc = "done" /\ err = "none" => cursor = Total /\ enumCtx \notin open
  /\ err = "fault" => omitted \/ tries > 0
  /\ pc # "done" => err = "none"

EnumInv == EnumTypeOK /\ Reading /\ Following /\ Ended

----------------------------------------------------------------------------
LEMMA EnumInitInv == EnumInit => EnumInv
<1> SUFFICES ASSUME EnumInit PROVE EnumInv
  OBVIOUS
<1>1. EnumTypeOK
  <2>1. all \in Seq(1 .. Total)
    BY DEF EnumInit
  <2>2. tries \in 0 .. MaxRetries /\ pulls \in 0 .. MaxPulls /\ cursor \in 0 .. Total
    BY EnumerateAssumption DEF EnumInit
  <2>3. open \in SUBSET (1 .. last) /\ missed \in SUBSET (1 .. Total)
    BY DEF EnumInit
  <2>. QED
    BY <2>1, <2>2, <2>3 DEF EnumInit, EnumTypeOK, URIs
<1>2. Reading
  <2>1. all = <<>> /\ DOMAIN all = {} /\ missed = {} /\ cursor = 0
    BY DEF EnumInit
  <2>. QED
    BY <2>1 DEF Reading, Gathered, Ascending
<1>3. Following /\ Ended
  BY DEF EnumInit, Following, Ended
<1>. QED
  BY <1>1, <1>2, <1>3 DEF EnumInv

\* The host's next page follows what it gave out before.
LEMMA PageAppended ==
  ASSUME EnumTypeOK, Reading, NEW n \in cursor .. Total
  PROVE  LET a == all \o Page(n)
         IN  /\ a \in Seq(1 .. Total)
             /\ {a[i] : i \in DOMAIN a} = (1 .. n) \ missed
             /\ \A i, j \in DOMAIN a : i < j => a[i] < a[j]
<1> DEFINE a == all \o Page(n)
<1>1. /\ all \in Seq(1 .. Total) /\ cursor \in Nat /\ Total \in Nat /\ n \in Nat
      /\ cursor <= n /\ n <= Total
  BY EnumerateAssumption DEF EnumTypeOK
<1>2. Page(n) \in Seq(1 .. Total) /\ Len(Page(n)) = n - cursor
  BY <1>1 DEF Page
<1>3. \A i \in 1 .. n - cursor : Page(n)[i] = cursor + i
  BY DEF Page
<1>0. /\ a \in Seq(1 .. Total) /\ Len(a) = Len(all) + Len(Page(n))
      /\ \A i \in 1 .. Len(all) + Len(Page(n)) :
           a[i] = IF i <= Len(all) THEN all[i] ELSE Page(n)[i - Len(all)]
  BY <1>1, <1>2, ConcatProperties
<1>. HIDE DEF a
<1>4. a \in Seq(1 .. Total) /\ Len(a) = Len(all) + (n - cursor)
  BY <1>0, <1>2
<1>6. Len(all) \in Nat /\ DOMAIN all = 1 .. Len(all) /\ DOMAIN a = 1 .. Len(all) + (n - cursor)
  BY <1>1, <1>4
<1>5. /\ \A i \in 1 .. Len(all) : a[i] = all[i]
      /\ \A i \in 1 .. n - cursor : a[Len(all) + i] = cursor + i
  <2>1. ASSUME NEW i \in 1 .. Len(all) PROVE a[i] = all[i]
    BY <1>0, <1>1, <1>2, <1>6
  <2>2. ASSUME NEW i \in 1 .. n - cursor PROVE a[Len(all) + i] = cursor + i
    <3>1. Len(all) + i \in 1 .. Len(all) + Len(Page(n)) /\ ~(Len(all) + i <= Len(all))
      BY <1>1, <1>2, <1>6
    <3>2. Len(all) + i - Len(all) = i
      BY <1>1, <1>6
    <3>. QED
      BY <1>0, <1>3, <3>1, <3>2
  <2>. QED
    BY <2>1, <2>2
<1>7. \A i \in DOMAIN a : \/ i \in 1 .. Len(all) /\ a[i] = all[i]
                          \/ i - Len(all) \in 1 .. n - cursor /\ a[i] = cursor + (i - Len(all))
  <2> SUFFICES ASSUME NEW i \in DOMAIN a
               PROVE  \/ i \in 1 .. Len(all) /\ a[i] = all[i]
                      \/ i - Len(all) \in 1 .. n - cursor /\ a[i] = cursor + (i - Len(all))
    OBVIOUS
  <2>1. CASE i <= Len(all)
    BY <1>1, <1>5, <1>6, <2>1
  <2>2. CASE i > Len(all)
    <3>1. i - Len(all) \in 1 .. n - cursor /\ Len(all) + (i - Len(all)) = i
      BY <1>1, <1>6, <2>2
    <3>. QED
      BY <1>5, <3>1
  <2>. QED
    BY <1>1, <1>6, <2>1, <2>2
<1>8. \A i \in DOMAIN all : all[i] \in 1 .. cursor /\ all[i] \notin missed
  BY DEF Reading, Gathered
<1>9. {a[i] : i \in DOMAIN a} = (1 .. n) \ missed
  <2>1. ASSUME NEW i \in DOMAIN a PROVE a[i] \in (1 .. n) \ missed
    <3>1. CASE i \in 1 .. Len(all) /\ a[i] = all[i]
      BY <1>1, <1>6, <1>8, <3>1
    <3>2. CASE i - Len(all) \in 1 .. n - cursor /\ a[i] = cursor + (i - Len(all))
      BY <1>1, <3>2 DEF Reading
    <3>. QED
      BY <1>7, <3>1, <3>2
  <2>2. ASSUME NEW k \in (1 .. n) \ missed PROVE \E i \in DOMAIN a : a[i] = k
    <3>1. CASE k <= cursor
      <4>1. k \in Gathered
        BY <1>1, <3>1 DEF Reading
      <4>2. PICK i \in DOMAIN all : all[i] = k
        BY <4>1 DEF Gathered
      <4>3. i \in DOMAIN a /\ a[i] = k
        BY <1>1, <1>5, <1>6, <4>2
      <4>. QED
        BY <4>3
    <3>2. CASE k > cursor
      <4>1. k - cursor \in 1 .. n - cursor
        BY <1>1, <3>2
      <4>2. Len(all) + (k - cursor) \in DOMAIN a
        BY <1>1, <1>6, <4>1
      <4>3. a[Len(all) + (k - cursor)] = cursor + (k - cursor)
        BY <1>5, <4>1
      <4>4. cursor + (k - cursor) = k
        BY <1>1
      <4>. QED
        BY <4>2, <4>3, <4>4
    <3>. QED
      BY <1>1, <3>1, <3>2
  <2>. QED
    BY <2>1, <2>2
<1>10. ASSUME NEW i \in DOMAIN a, NEW j \in DOMAIN a, i < j PROVE a[i] < a[j]
  <2>1. CASE i \in 1 .. Len(all) /\ j \in 1 .. Len(all)
    BY <1>5, <1>6, <1>10, <2>1 DEF Reading, Ascending
  <2>2. CASE i \in 1 .. Len(all) /\ j \notin 1 .. Len(all)
    BY <1>1, <1>5, <1>6, <1>7, <1>8, <2>2
  <2>3. CASE i \notin 1 .. Len(all)
    <3>1. /\ i - Len(all) \in 1 .. n - cursor /\ a[i] = cursor + (i - Len(all))
          /\ i \in 1 .. Len(all) + (n - cursor)
      BY <1>6, <1>7, <2>3
    <3>2. j \notin 1 .. Len(all)
      BY <1>1, <1>6, <1>10, <2>3, <3>1
    <3>3. a[j] = cursor + (j - Len(all)) /\ j \in 1 .. Len(all) + (n - cursor)
      BY <1>6, <1>7, <3>2
    <3>. QED
      BY <1>1, <1>6, <1>10, <3>1, <3>3
  <2>. QED
    BY <2>1, <2>2, <2>3
<1>. QED
  BY <1>4, <1>9, <1>10 DEF a

\* The host gives out a page, whose answer arrives or not.
LEMMA PageServed ==
  ASSUME EnumTypeOK, NEW n \in cursor .. Total, NEW eos \in BOOLEAN, Serve(n, eos)
  PROVE  /\ enumCtx \in open /\ cursor' = n /\ cursor' \in 0 .. Total /\ opened' = opened
         /\ last' \in Nat /\ open' \in SUBSET (1 .. last')
         /\ eos => n = Total /\ enumCtx \notin open'
         /\ ~eos => last' \in open'
<1>1. cursor \in 0 .. Total /\ last \in Nat /\ open \in SUBSET (1 .. last) /\ Total \in Nat
  BY EnumerateAssumption DEF EnumTypeOK
<1>2. enumCtx \in open /\ cursor' = n /\ opened' = opened /\ (eos => n = Total)
  BY DEF Serve, Known
<1>3. last' \in Nat /\ last <= last'
  BY <1>1 DEF Serve
<1>4. open' = IF eos THEN open \ {enumCtx} ELSE (open \ {enumCtx}) \cup {last'}
  BY DEF Serve
<1>5. last >= 1
  BY <1>1, <1>2
<1>6. open' \in SUBSET (1 .. last')
  <2>1. open \in SUBSET (1 .. last')
    BY <1>1, <1>3
  <2>2. last' \in 1 .. last'
    BY <1>1, <1>3, <1>5
  <2>. QED
    BY <1>4, <2>1, <2>2
<1>. QED
  BY <1>1, <1>2, <1>3, <1>4, <1>6

\* An attempt whose answer is lost.
LEMMA LostOnce ==
  ASSUME EnumTypeOK, Lost, pc # "done"
  PROVE  /\ tries' \in 0 .. MaxRetries
         /\ \/ tries' = tries + 1 /\ tries' > 0 /\ pc' = pc /\ err' = err
            \/ tries' = tries /\ pc' = "done" /\ err' = "send"
  BY EnumerateAssumption DEF EnumTypeOK, Lost, Fails

\* A step that fails the call and leaves what was gathered and the host alone.
LEMMA FailsInv ==
  ASSUME EnumInv, NEW what \in {"query", "send", "fault", "tooMany"}, Fails(what),
         what = "fault" => omitted \/ tries > 0,
         UNCHANGED <<wql, renews, tries, pulls, enumCtx, all, hostVars, missed, omitted>>
  PROVE  EnumInv'
<1>1. EnumTypeOK'
  BY DEF EnumInv, EnumTypeOK, Fails, hostVars
<1>2. Reading'
  BY DEF EnumInv, Reading, Gathered, Ascending, Fails, hostVars
<1>3. Following' /\ Ended'
  BY DEF EnumInv, Following, Ended, Fails, hostVars
<1>. QED
  BY <1>1, <1>2, <1>3 DEF EnumInv

LEMMA EnumerateAnsweredStep == ASSUME EnumInv, EnumerateAnswered PROVE EnumInv'
<1>1. /\ pc = "enumerate" /\ last \in Nat /\ all = <<>> /\ missed = {} /\ err = "none"
      /\ open \in SUBSET (1 .. last)
  BY DEF EnumInv, EnumTypeOK, Reading, Ended, EnumerateAnswered, AsksToEnumerate
<1>2. /\ opened' = EnumerateURI /\ last' = last + 1 /\ cursor' = 0
      /\ open' = open \cup {last + 1} /\ tries' = 0
      /\ UNCHANGED <<wql, renews, pulls, all, missed>>
  BY DEF EnumerateAnswered, Open
<1>3. \/ pc' = "pull" /\ enumCtx' = last + 1 /\ UNCHANGED <<err, omitted>>
      \/ pc' = "done" /\ err' = "noContext" /\ omitted' = TRUE /\ UNCHANGED enumCtx
  BY DEF EnumerateAnswered, Fails
<1>4. open' \in SUBSET (1 .. last') /\ last' \in Nat /\ opened' \in URIs
  BY <1>1, <1>2 DEF EnumerateURI, URIs
<1>5. EnumTypeOK'
  <2>1. enumCtx' \in Nat /\ omitted' \in BOOLEAN
    <3>1. enumCtx \in Nat /\ omitted \in BOOLEAN /\ last + 1 \in Nat
      BY <1>1 DEF EnumInv, EnumTypeOK
    <3>2. enumCtx' = last + 1 \/ enumCtx' = enumCtx
      BY <1>3
    <3>3. omitted' = TRUE \/ omitted' = omitted
      BY <1>3
    <3>. QED
      BY <3>1, <3>2, <3>3
  <2>2. tries' \in 0 .. MaxRetries /\ cursor' \in 0 .. Total
    BY <1>2, EnumerateAssumption
  <2>3. /\ pc' \in {"enumerate", "pull", "done"}
        /\ err' \in {"none", "query", "noContext", "send", "fault", "tooMany"}
    BY <1>1, <1>3
  <2>. QED
    BY <1>2, <1>4, <2>1, <2>2, <2>3 DEF EnumInv, EnumTypeOK
<1>6. Reading'
  <2>1. all' = <<>> /\ DOMAIN all' = {} /\ missed' = {} /\ cursor' = 0
    BY <1>1, <1>2
  <2>. QED
    BY <2>1 DEF Reading, Gathered, Ascending
<1>7. Following'
  BY <1>2, <1>3 DEF Following, EnumerateURI
<1>8. Ended'
  BY <1>1, <1>2, <1>3 DEF Ended
<1>. QED
  BY <1>5, <1>6, <1>7, <1>8 DEF EnumInv

LEMMA EnumerateLostStep == ASSUME EnumInv, EnumerateLost PROVE EnumInv'
<1>1. /\ pc = "enumerate" /\ last \in Nat /\ all = <<>> /\ missed = {} /\ err = "none"
      /\ open \in SUBSET (1 .. last)
  BY DEF EnumInv, EnumTypeOK, Reading, Ended, EnumerateLost, AsksToEnumerate
<1>2. /\ opened' = EnumerateURI /\ last' = last + 1 /\ cursor' = 0
      /\ open' = open \cup {last + 1}
      /\ UNCHANGED <<wql, renews, pulls, enumCtx, all, missed, omitted>>
  BY DEF EnumerateLost, Open
<1>3. /\ tries' \in 0 .. MaxRetries
      /\ \/ pc' = "enumerate" /\ err' = "none"
         \/ pc' = "done" /\ err' = "send"
  BY <1>1, LostOnce DEF EnumerateLost, EnumInv
<1>4. open' \in SUBSET (1 .. last') /\ last' \in Nat /\ opened' \in URIs
  BY <1>1, <1>2 DEF EnumerateURI, URIs
<1>5. EnumTypeOK'
  BY <1>1, <1>2, <1>3, <1>4, EnumerateAssumption DEF EnumInv, EnumTypeOK
<1>6. Reading'
  <2>1. all' = <<>> /\ DOMAIN all' = {} /\ missed' = {} /\ cursor' = 0
    BY <1>1, <1>2
  <2>. QED
    BY <2>1 DEF Reading, Gathered, Ascending
<1>7. Following' /\ Ended'
  BY <1>3 DEF Following, Ended
<1>. QED
  BY <1>5, <1>6, <1>7 DEF EnumInv

LEMMA PullAnsweredStep == ASSUME EnumInv, PullAnswered PROVE EnumInv'
<1>1. PICK n \in cursor .. Total, eos \in BOOLEAN, left \in BOOLEAN :
        /\ Serve(n, eos)
        /\ all' = all \o Page(n)
        /\ omitted' = (omitted \/ left)
        /\ NextContext(eos, left)
        /\ pc' = IF eos THEN "done" ELSE "pull"
  BY DEF PullAnswered
<1>2. /\ pc = "pull" /\ pulls < MaxPulls /\ tries' = 0 /\ pulls' = pulls + 1
      /\ UNCHANGED <<wql, renews, err, missed>>
  BY DEF PullAnswered, AsksToPull
<1>3. EnumTypeOK /\ Reading /\ Following /\ err = "none"
  BY <1>2 DEF EnumInv, Ended
<1>4. /\ cursor' = n /\ cursor' \in 0 .. Total /\ opened' = opened
      /\ last' \in Nat /\ open' \in SUBSET (1 .. last')
      /\ eos => n = Total /\ enumCtx \notin open'
      /\ ~eos => last' \in open'
  BY <1>1, <1>3, PageServed
<1>5. /\ all' \in Seq(1 .. Total)
      /\ {all'[i] : i \in DOMAIN all'} = (1 .. n) \ missed
      /\ \A i, j \in DOMAIN all' : i < j => all'[i] < all'[j]
  BY <1>1, <1>3, PageAppended
<1>6. /\ eos => enumCtx' = enumCtx
      /\ ~eos /\ left => enumCtx' = 0
      /\ ~eos /\ ~left => enumCtx' = last'
  BY <1>1 DEF NextContext
<1>7. EnumTypeOK'
  <2>1. pulls' \in 0 .. MaxPulls /\ tries' \in 0 .. MaxRetries
    BY <1>2, <1>3, EnumerateAssumption DEF EnumTypeOK
  <2>2. enumCtx' \in Nat
    BY <1>3, <1>4, <1>6 DEF EnumTypeOK
  <2>3. pc' \in {"enumerate", "pull", "done"} /\ omitted' \in BOOLEAN
    BY <1>1
  <2>. QED
    BY <1>2, <1>3, <1>4, <1>5, <2>1, <2>2, <2>3 DEF EnumTypeOK
<1>8. Reading'
  <2>1. missed' \in SUBSET (1 .. cursor')
    BY <1>2, <1>3, <1>4 DEF Reading, EnumTypeOK
  <2>2. pc' # "enumerate"
    BY <1>1
  <2>. QED
    BY <1>2, <1>4, <1>5, <2>1, <2>2 DEF Reading, Gathered, Ascending
<1>9. Following'
  BY <1>1, <1>2, <1>3, <1>4, <1>6 DEF Following, EnumerateURI
<1>10. Ended'
  BY <1>1, <1>2, <1>3, <1>4, <1>6 DEF Ended
<1>. QED
  BY <1>7, <1>8, <1>9, <1>10 DEF EnumInv

LEMMA PullLostStep == ASSUME EnumInv, PullLost PROVE EnumInv'
<1>1. PICK n \in cursor .. Total, eos \in BOOLEAN :
        Serve(n, eos) /\ missed' = missed \cup PageItems(n)
  BY DEF PullLost
<1>2. pc = "pull" /\ UNCHANGED <<wql, renews, pulls, enumCtx, all, omitted>>
  BY DEF PullLost, AsksToPull
<1>3. EnumTypeOK /\ Reading /\ Following /\ err = "none"
  BY <1>2 DEF EnumInv, Ended
<1>4. /\ cursor' = n /\ cursor' \in 0 .. Total /\ opened' = opened
      /\ last' \in Nat /\ open' \in SUBSET (1 .. last')
  BY <1>1, <1>3, PageServed
<1>5. /\ tries' \in 0 .. MaxRetries
      /\ \/ tries' > 0 /\ pc' = "pull" /\ err' = "none"
         \/ pc' = "done" /\ err' = "send"
  BY <1>2, <1>3, LostOnce DEF PullLost
<1>6. cursor \in 0 .. Total /\ n \in cursor .. Total /\ Total \in Nat /\ missed \in SUBSET (1 .. cursor)
  BY <1>3, EnumerateAssumption DEF EnumTypeOK, Reading
<1>7. missed' \in SUBSET (1 .. n) /\ missed' \in SUBSET (1 .. Total)
  BY <1>1, <1>6 DEF PageItems
<1>8. (1 .. n) \ missed' = (1 .. cursor) \ missed
  BY <1>1, <1>6 DEF PageItems
<1>9. EnumTypeOK'
  BY <1>2, <1>3, <1>4, <1>5, <1>7 DEF EnumTypeOK
<1>10. Reading'
  BY <1>2, <1>3, <1>4, <1>5, <1>7, <1>8 DEF Reading, Gathered, Ascending
<1>11. Following' /\ Ended'
  BY <1>2, <1>3, <1>4, <1>5 DEF Following, Ended, EnumerateURI
<1>. QED
  BY <1>9, <1>10, <1>11 DEF EnumInv

LEMMA EnumStepInv == EnumInv /\ [EnumNext]_enumVars => EnumInv'
<1> SUFFICES ASSUME EnumInv, [EnumNext]_enumVars PROVE EnumInv'
  OBVIOUS
<1>1. CASE EmptyQuery
  BY <1>1, FailsInv DEF EmptyQuery
<1>2. CASE NotServed
  BY <1>2, FailsInv DEF NotServed
<1>3. CASE PullRefused
  <2>1. pc = "pull" /\ PullURI = EnumerateURI
    BY <1>3 DEF PullRefused, AsksToPull, PullURI, EnumerateURI
  <2>2. omitted \/ tries > 0
    BY <1>3, <2>1 DEF PullRefused, Known, EnumInv, Following
  <2>. QED
    BY <1>3, <2>2, FailsInv DEF PullRefused
<1>4. CASE TooMany
  BY <1>4, FailsInv DEF TooMany
<1>5. CASE UNCHANGED enumVars
  <2>1. EnumTypeOK'
    BY <1>5 DEF EnumInv, EnumTypeOK, enumVars
  <2>2. Reading'
    BY <1>5 DEF EnumInv, Reading, Gathered, Ascending, enumVars
  <2>3. Following' /\ Ended'
    BY <1>5 DEF EnumInv, Following, Ended, EnumerateURI, enumVars
  <2>. QED
    BY <2>1, <2>2, <2>3 DEF EnumInv
<1>. QED
  BY <1>1, <1>2, <1>3, <1>4, <1>5, EnumerateAnsweredStep, EnumerateLostStep,
     PullAnsweredStep, PullLostStep DEF EnumNext

LEMMA EnumInvariance == EnumSpec => []EnumInv
<1>. QED
  BY EnumInitInv, EnumStepInv, PTL DEF EnumSpec

\* Every variable keeps its type (wsman/client.go, wsman/enumerate.go).
THEOREM EnumTypeCorrect == EnumSpec => []EnumTypeOK
<1>1. EnumInv => EnumTypeOK
  BY DEF EnumInv
<1>. QED
  BY <1>1, EnumInvariance, PTL

\* A call that returns no error returns every instance once and in the host's
\* order, except those of a page whose answer was lost and asked for again
\* (client.go:333, 378, 380).
THEOREM AlwaysComplete == EnumSpec => []Complete
<1>1. EnumInv => Complete
  BY DEF EnumInv, Complete, Reading, Gathered, Ascending, Ended
<1>. QED
  BY <1>1, EnumInvariance, PTL

\* A call that returns no error leaves its context closed on the host
\* (client.go:380-382).
THEOREM AlwaysClosed == EnumSpec => []ClosedOnHost
<1>1. EnumInv => ClosedOnHost
  BY DEF EnumInv, ClosedOnHost, Ended
<1>. QED
  BY <1>1, EnumInvariance, PTL

\* The host refuses a Pull only when it left the context out of its answer or
\* an answer of its was lost (client.go:343-346, 366, 384).
THEOREM RefusalsHaveACause == EnumSpec => []RefusedForACause
<1>1. EnumInv => RefusedForACause
  BY DEF EnumInv, RefusedForACause, Ended
<1>. QED
  BY <1>1, EnumInvariance, PTL

\* An enumeration without an error was read to its end and is closed on the
\* host, in however many pages it came (client.go:333-387).
THEOREM AlwaysReadToTheEnd == EnumSpec => []ReadToTheEnd
BY AlwaysComplete, AlwaysClosed, PTL DEF ReadToTheEnd
=============================================================================
