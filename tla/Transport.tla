------------------------------ MODULE Transport ------------------------------
(***************************************************************************)
(* One operation of the client, from the request to the parsed result:     *)
(* Client.Get, Put, Create, Invoke, InvokeMulti or Delete, around          *)
(* HTTPTransport.Send with its retries (wsman/transport.go), and the host  *)
(* that serves the requests.                                               *)
(*                                                                         *)
(* Every attempt of Send puts a copy of the request on the wire.  The host *)
(* serves a copy whenever it gets to it, also when the client has long     *)
(* given that attempt up.  An answer is read in two steps, the status line *)
(* and then the body, and the connection may break between the two.        *)
(*                                                                         *)
(* Slots, connections and handshakes are not modelled here: see Pool.tla.  *)
(***************************************************************************)
EXTENDS Integers, FiniteSets

CONSTANTS
  Ops,         \* the operations considered
  MaxRetries   \* the argument of WithRetry, 0 without the option

ASSUME TransportAssumption ==
  /\ Ops \subseteq {"get", "put", "create", "invoke", "delete"}
  /\ MaxRetries \in Int

VARIABLES
  op,       \* the operation
  pc,       \* where the goroutine stands in the operation
  ctx,      \* the context of the call is done
  attempt,  \* the retries made so far
  req,      \* req[i]: what has become of the copy sent by attempt i
  result    \* "none" until the operation returns, then "ok" or "error"

vars == <<op, pc, ctx, attempt, req, result>>

Attempts == 0 .. MaxRetries

PCs == {"start", "send", "headers", "body", "backoff", "parse", "returned"}

\* The host's refusals: HTTP 500 with a SOAP Fault, a status of 400 or more
\* with another body (the HTML page of a web server) or with no body.
Refusals == {"fault", "page", "nobody"}

Answered == {"executed"} \cup Refusals

Fates == {"unsent", "sent", "lost"} \cup Answered

Executed == { i \in Attempts : req[i] = "executed" }

----------------------------------------------------------------------------
Init ==
  /\ op \in Ops
  /\ pc = "start"
  /\ ctx = FALSE
  /\ attempt = 0
  /\ req = [i \in Attempts |-> "unsent"]
  /\ result = "none"

Move(from, to) ==
  /\ pc = from
  /\ pc' = to

Return(r) ==
  /\ pc' = "returned"
  /\ result' = r

\* The context is cancelled or its deadline passes, at any moment.
Cancel ==
  /\ ~ctx
  /\ pc # "returned"
  /\ ctx' = TRUE
  /\ UNCHANGED <<op, pc, attempt, req, result>>

\* The retry loop is entered.  With a negative WithRetry its body never runs
\* and Send returns neither a body nor an error.
Enter ==
  /\ pc = "start"
  /\ pc' = IF MaxRetries >= 0 THEN "send" ELSE "parse"
  /\ UNCHANGED <<op, ctx, attempt, req, result>>

\* sendOnce: the request goes onto the wire, unless the context is done.
Request ==
  /\ Move("send", "headers")
  /\ ~ctx
  /\ req' = [req EXCEPT ![attempt] = "sent"]
  /\ UNCHANGED <<op, ctx, attempt, result>>

HeadersInterim ==                     \* faulty: a provisional answer will do
  /\ Move("headers", "body")
  /\ UNCHANGED <<op, ctx, attempt, req, result>>

\* httpClient.Do returns: the status and the headers are there.
Headers ==
  /\ Move("headers", "body")
  /\ req[attempt] \in Answered
  /\ UNCHANGED <<op, ctx, attempt, req, result>>

\* io.ReadAll returns the whole body.  An error status without a body is the
\* one error that is not retried; every other answer is data.
ReadBody ==
  /\ pc = "body"
  /\ IF req[attempt] = "nobody"
       THEN Return("error")
       ELSE pc' = "parse" /\ UNCHANGED result
  /\ UNCHANGED <<op, ctx, attempt, req>>

\* sendOnce fails: no connection, the connection is lost before or during the
\* answer, the HTTP client times out, or the context is done.  Send goes to
\* the backoff of the next attempt or returns the error of the last one.
Fail ==
  /\ pc \in {"send", "headers", "body"}
  /\ IF attempt < MaxRetries
       THEN pc' = "backoff" /\ UNCHANGED result
       ELSE Return("error")
  /\ UNCHANGED <<op, ctx, attempt, req>>

BackoffOverNotCounted ==              \* faulty: the attempt is not counted
  /\ Move("backoff", "send")
  /\ UNCHANGED <<op, ctx, attempt, req, result>>

\* select in the retry loop: the timer fires.
BackoffOver ==
  /\ Move("backoff", "send")
  /\ attempt' = attempt + 1
  /\ UNCHANGED <<op, ctx, req, result>>

\* select in the retry loop: the context is done.
BackoffCancelled ==
  /\ pc = "backoff"
  /\ ctx
  /\ Return("error")
  /\ UNCHANGED <<op, ctx, attempt, req>>

ParsesAllButFault(o, body) == body # "fault"   \* faulty: the envelope is optional

\* Whether the parser of operation o returns no error for a body.  All look
\* for a Fault first; then ParseDeleteResponse is content with anything, and
\* the others demand a SOAP envelope.
Parses(o, body) ==
  \/ body = "executed"
  \/ o = "delete" /\ body # "fault"

\* ParseGetResponse, ParsePutResponse, ParseCreateResponse,
\* ParseInvokeResponse or ParseDeleteResponse on what Send returned: nothing
\* when the loop did not run.
Parse ==
  /\ pc = "parse"
  /\ LET body == IF MaxRetries >= 0 THEN req[attempt] ELSE "nobody" IN
     Return(IF Parses(op, body) THEN "ok" ELSE "error")
  /\ UNCHANGED <<op, ctx, attempt, req>>

----------------------------------------------------------------------------
Serve(i, fate) ==
  /\ req[i] = "sent"
  /\ req' = [req EXCEPT ![i] = fate]
  /\ UNCHANGED <<op, pc, ctx, attempt, result>>

\* The host carries the operation out, now or long after the client has given
\* the attempt up.  An instance can be deleted once only.
Execute(i) ==
  /\ op = "delete" => Executed = {}
  /\ Serve(i, "executed")

\* The host refuses the request.
Refuse(i) == \E r \in Refusals : Serve(i, r)

\* The request is lost before the host has seen it.
Lose(i) == Serve(i, "lost")

ClientNext ==
  \/ Enter \/ Request \/ Headers \/ ReadBody \/ Fail
  \/ BackoffOver \/ BackoffCancelled \/ Parse

HostNext == \E i \in Attempts : Execute(i) \/ Refuse(i) \/ Lose(i)

Next == Cancel \/ ClientNext \/ HostNext

SafetySpec == Init /\ [][Next]_vars

\* The goroutine runs, and the HTTP client has a timeout (60 s unless
\* WithTimeout says otherwise), so an attempt that gets no answer fails.
\* Nothing is assumed of the host.
Spec == SafetySpec /\ WF_vars(ClientNext)

----------------------------------------------------------------------------
TypeOK ==
  /\ op \in Ops
  /\ pc \in PCs
  /\ ctx \in BOOLEAN
  /\ attempt \in Nat
  /\ attempt = 0 \/ attempt \in Attempts
  /\ req \in [Attempts -> Fates]
  /\ result \in {"none", "ok", "error"}

\* An operation that reports success has been carried out by the host, in the
\* very attempt whose answer was read.  For every operation but Delete
\* (transport.go:120-124 with create.go:77, get.go:84, invoke.go:194).
SuccessMeansDone ==
  result = "ok" /\ op # "delete" =>
    attempt \in Attempts /\ req[attempt] = "executed"

\* A Fault is reported as an error by every operation, Delete included, after
\* any number of attempts (fault.go:85-87).
FaultsReported ==
  result = "ok" /\ attempt \in Attempts => req[attempt] # "fault"

\* An operation that succeeded without a retry has no copy left on the wire:
\* nothing more happens on the host because of it.  After a retry a copy that
\* was given up may still be served (transport.go:81-92).
QuietAfterFirstTimeSuccess ==
  [][result = "ok" /\ attempt = 0 => UNCHANGED req]_vars

\* Every operation returns, whatever the host does (transport.go:70-94).
OperationReturns == pc = "start" ~> pc = "returned"

\* What the result is worth: the success of a Delete, whose parser accepts all
\* that is not a Fault, says no more than an error.
Worth == IF op = "delete" /\ result = "ok" THEN "error" ELSE result

Call == INSTANCE RemoteCall WITH
  Limit   <- MaxRetries + 1,
  effects <- Cardinality(Executed),
  result  <- Worth

\* Every operation is an at-least-once call, carried out at most once per
\* attempt (client.go:142-144), if success is taken for what it is worth.
ImplementsRemoteCall == Call!Spec

----------------------------------------------------------------------------
\* transport.go:62-64: an HTTP error is returned as an error; only a response
\* with a SOAP Fault is data.
HttpErrorsReported ==
  pc = "returned" /\ attempt \in Attempts /\ req[attempt] \in Refusals
    => result = "error"

\* What an operation returns is what became of it: a success was carried out,
\* Delete excepted, and a Fault is an error (transport.go:120-124, fault.go:85).
OutcomeTrue == SuccessMeansDone /\ FaultsReported
=============================================================================
