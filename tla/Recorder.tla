------------------------------ MODULE Recorder ------------------------------
(***************************************************************************)
(* The recorder (wsman/record.go): a RoundTripper that writes every SOAP   *)
(* answer, anonymised, to a file of its own, and StopRecording, which      *)
(* reads the files back and looks for what should not be there.            *)
(*                                                                         *)
(* Goroutines share the client: round trips and calls of StopRecording     *)
(* interleave.  The lock of the recorder covers the numbering of a file    *)
(* and its entry into the list of files, each by itself; the file is       *)
(* written in between, without the lock.                                   *)
(*                                                                         *)
(* Of an answer only one thing matters here: where it holds the value that *)
(* WithRecorderScrub lists.                                                *)
(***************************************************************************)
EXTENDS Naturals, FiniteSets

CONSTANTS
  Trips,   \* round trips
  Stops    \* calls of StopRecording

VARIABLES
  trip,      \* where a round trip stands
  place,     \* where its answer, and later its file, holds the listed value
  number,    \* the number of its file, 0 before it has one
  reply,     \* what the round trip returns to the HTTP client
  attached,  \* Client.recorder is not nil
  seq,       \* recorder.seq
  files,     \* recorder.files, by number
  errs,      \* recorder.errs, by round trip
  disk,      \* the files: a function from their numbers to places
  stop,      \* where a call of StopRecording stands
  toRead,    \* the files it has still to read back
  result,    \* what it returns
  past       \* the round trips over when it took the recorder, else {}

recVars  == <<seq, files, errs, disk>>
tripVars == <<trip, place, number, reply>>
stopVars == <<attached, stop, toRead, result, past>>
vars == <<tripVars, recVars, stopVars>>

\* Nowhere; as a word; inside a longer word; inside the name of a CIM class;
\* as a word of such a name.  "unread" stands for an answer that was not read.
Places == {"nowhere", "word", "inner", "class", "classWord"}

\* scrub replaces the words only, and so leaves what is part of a longer word.
Scrubbed(p) == IF p \in {"word", "classWord"} THEN "nowhere" ELSE p

\* classTokensUnchanged: the scrubbing has changed the name of a class.
Mangled(p) == p = "classWord"

\* What may be published: the names of CIM classes are the structure of an
\* answer, not names of the real environment.
Harmless == {"nowhere", "class", "classWord"}

LeaksAsScrubbed(p) == p = "word"      \* faulty: looks for what scrub replaces

\* verifyRecorded looks for the value anywhere but inside a class name.
Leaks(p) == p \in {"word", "inner"}

----------------------------------------------------------------------------
Init ==
  /\ trip = [t \in Trips |-> "idle"]
  /\ place = [t \in Trips |-> "unread"]
  /\ number = [t \in Trips |-> 0]
  /\ reply = [t \in Trips |-> "none"]
  /\ attached = TRUE
  /\ seq = 0
  /\ files = {}
  /\ errs = {}
  /\ disk = [n \in {} |-> "nowhere"]
  /\ stop = [s \in Stops |-> "idle"]
  /\ toRead = [s \in Stops |-> {}]
  /\ result = [s \in Stops |-> "none"]
  /\ past = [s \in Stops |-> {}]

Move(t, from, to) ==
  /\ trip[t] = from
  /\ trip' = [trip EXCEPT ![t] = to]

Over(t, r) ==
  /\ trip' = [trip EXCEPT ![t] = "over"]
  /\ reply' = [reply EXCEPT ![t] = r]

\* A request is sent.  The recorder stays in the transport for good.
Start(t) ==
  /\ Move(t, "idle", "sent")
  /\ UNCHANGED <<place, number, reply, recVars, stopVars>>

\* The exchange fails, or the answer cannot be read to its end.
Unanswered(t) ==
  /\ trip[t] = "sent"
  /\ Over(t, "error")
  /\ UNCHANGED <<place, number, recVars, stopVars>>

\* The answer is read.  One that is no SOAP envelope is not recorded.
Answered(t) ==
  /\ trip[t] = "sent"
  /\ \E p \in Places : place' = [place EXCEPT ![t] = p]
  /\ \/ Over(t, "answer")
     \/ Move(t, "sent", "scrub") /\ UNCHANGED reply
  /\ UNCHANGED <<number, recVars, stopVars>>

\* The answer is anonymised; a result that is no longer well-formed XML, or
\* that has lost a class name, is not written.
Scrub(t) ==
  /\ trip[t] = "scrub"
  /\ trip' \in {[trip EXCEPT ![t] = "report"]}
               \cup IF Mangled(place[t]) THEN {} ELSE {[trip EXCEPT ![t] = "number"]}
  /\ place' = [place EXCEPT ![t] = Scrubbed(@)]
  /\ UNCHANGED <<number, reply, recVars, stopVars>>

NumberFromList(t) ==                  \* faulty: the files are counted instead
  /\ Move(t, "number", "write")
  /\ seq' = seq + 1
  /\ number' = [number EXCEPT ![t] = Cardinality(files) + 1]
  /\ UNCHANGED <<place, reply, files, errs, disk, stopVars>>

\* Under the lock: the file gets its number.
Number(t) ==
  /\ Move(t, "number", "write")
  /\ seq' = seq + 1
  /\ number' = [number EXCEPT ![t] = seq + 1]
  /\ UNCHANGED <<place, reply, files, errs, disk, stopVars>>

Store(n, p) ==
  disk' = [m \in DOMAIN disk \cup {n} |-> IF m = n THEN p ELSE disk[m]]

\* os.WriteFile, without the lock.  When it fails it may have written.
Write(t) ==
  /\ \/ Move(t, "write", "list") /\ Store(number[t], place[t])
     \/ Move(t, "write", "report") /\ Store(number[t], place[t])
     \/ Move(t, "write", "report") /\ UNCHANGED disk
  /\ UNCHANGED <<place, number, reply, seq, files, errs, stopVars>>

\* Under the lock: the file is entered into the list.
List(t) ==
  /\ trip[t] = "list"
  /\ files' = files \cup {number[t]}
  /\ Over(t, "answer")
  /\ UNCHANGED <<place, number, seq, errs, disk, stopVars>>

ReportUpwards(t) ==                   \* faulty: the error is returned instead
  /\ trip[t] = "report"
  /\ errs' = errs \cup {t}
  /\ Over(t, "error")
  /\ UNCHANGED <<place, number, seq, files, disk, stopVars>>

\* Under the lock: the error of write is kept for StopRecording; the round
\* trip itself has succeeded.
Report(t) ==
  /\ trip[t] = "report"
  /\ errs' = errs \cup {t}
  /\ Over(t, "answer")
  /\ UNCHANGED <<place, number, seq, files, disk, stopVars>>

----------------------------------------------------------------------------
Done(s, r) ==
  /\ stop' = [stop EXCEPT ![s] = "returned"]
  /\ result' = [result EXCEPT ![s] = r]

\* StopRecording looks for the recorder.  Without one there is nothing to do.
Stop(s) ==
  /\ stop[s] = "idle"
  /\ IF attached
       THEN /\ stop' = [stop EXCEPT ![s] = "detach"]
            /\ past' = [past EXCEPT ![s] = {t \in Trips : trip[t] = "over"}]
            /\ UNCHANGED result
       ELSE Done(s, "nil") /\ UNCHANGED past
  /\ UNCHANGED <<attached, toRead, tripVars, recVars>>

\* The client forgets the recorder; two calls may both have got it.
Detach(s) ==
  /\ stop[s] = "detach"
  /\ stop' = [stop EXCEPT ![s] = "copy"]
  /\ attached' = FALSE
  /\ UNCHANGED <<toRead, result, past, tripVars, recVars>>

\* Under the lock: the list of files is copied; an error is returned at once.
Copy(s) ==
  /\ stop[s] = "copy"
  /\ toRead' = [toRead EXCEPT ![s] = files]
  /\ IF errs = {}
       THEN stop' = [stop EXCEPT ![s] = "verify"] /\ UNCHANGED result
       ELSE Done(s, "error")
  /\ UNCHANGED <<attached, past, tripVars, recVars>>

\* A file is read back and verified, in the order of the list; the first one
\* that cannot be read or that leaks ends the call.
Verify(s) ==
  /\ stop[s] = "verify"
  /\ \/ /\ toRead[s] = {}
        /\ Done(s, "nil")
        /\ UNCHANGED toRead
     \/ \E n \in toRead[s] :
          /\ ~Leaks(disk[n])
          /\ toRead' = [toRead EXCEPT ![s] = @ \ {n}]
          /\ UNCHANGED <<stop, result>>
     \/ \E n \in toRead[s] : Leaks(disk[n]) /\ Done(s, "error") /\ UNCHANGED toRead
     \/ toRead[s] # {} /\ Done(s, "error") /\ UNCHANGED toRead
  /\ UNCHANGED <<attached, past, tripVars, recVars>>

----------------------------------------------------------------------------
TripStep(t) ==
  \/ Start(t) \/ Unanswered(t) \/ Answered(t) \/ Scrub(t)
  \/ Number(t) \/ Write(t) \/ List(t) \/ Report(t)

StopStep(s) == Stop(s) \/ Detach(s) \/ Copy(s) \/ Verify(s)

Next == (\E t \in Trips : TripStep(t)) \/ (\E s \in Stops : StopStep(s))

Spec == Init /\ [][Next]_vars

----------------------------------------------------------------------------
TypeOK ==
  /\ trip \in [Trips -> {"idle", "sent", "scrub", "number", "write", "list",
                         "report", "over"}]
  /\ place \in [Trips -> Places \cup {"unread"}]
  /\ seq \in Nat
  /\ number \in [Trips -> 0 .. seq]
  /\ reply \in [Trips -> {"none", "answer", "error"}]
  /\ attached \in BOOLEAN
  /\ files \in SUBSET (1 .. seq)
  /\ errs \in SUBSET Trips
  /\ DOMAIN disk \in SUBSET (1 .. seq)
  /\ \A n \in DOMAIN disk : disk[n] \in Places
  /\ stop \in [Stops -> {"idle", "detach", "copy", "verify", "returned"}]
  /\ toRead \in [Stops -> SUBSET (1 .. seq)]
  /\ result \in [Stops -> {"none", "nil", "error"}]
  /\ past \in [Stops -> SUBSET Trips]

\* Every recorded answer keeps a file of its own: round trips that write at
\* the same time do not overwrite each other's, although the file is written
\* without the lock (record.go:354-357, 365).
FilesIntact ==
  \A t \in Trips :
    number[t] \in files => number[t] \in DOMAIN disk /\ disk[number[t]] = place[t]

\* A StopRecording that took the recorder and returns nil speaks for every
\* round trip that was over before: whatever it recorded leaks nothing, and
\* nothing that should have been recorded is missing (record.go:421-449).
StopSpeaksForThePast ==
  \A s \in Stops :
    result[s] = "nil" => \A t \in past[s] :
      /\ t \notin errs
      /\ number[t] # 0 => number[t] \in files /\ disk[number[t]] \in Harmless

\* Recording is invisible to the operations: a round trip fails only when the
\* answer could not be had, never because it could not be recorded
\* (record.go:331-336).
RecordingInvisible ==
  \A t \in Trips : reply[t] = "error" => place[t] = "unread"
=============================================================================
