-------------------------------- MODULE Pool --------------------------------
(***************************************************************************)
(* The pooled client: pooledTransport.Send (wsman/pool.go) around          *)
(* HTTPTransport.Send (wsman/transport.go), with the connections that the  *)
(* HTTP client of every slot keeps and the NTLM state the server keeps for *)
(* each connection.                                                        *)
(*                                                                         *)
(* A caller is a goroutine inside Client.send.  It borrows a slot of the   *)
(* channel `slots`, keeps it for all the attempts and all the backoff of   *)
(* one Send, and gives it back in a deferred call.  An NTLM attempt is two *)
(* exchanges on the same connection, negotiate/challenge and authenticate; *)
(* between the two the connection lies idle in the pool of its HTTP        *)
(* client, where any other request of the same HTTP client would find it.  *)
(*                                                                         *)
(* What a response says is not modelled here: see Transport.tla.           *)
(***************************************************************************)
EXTENDS Integers, FiniteSets

CONSTANTS
  Callers,     \* goroutines that share the pooled client
  Transports,  \* the HTTPTransports NewPooledClient puts into the channel
  Conns,       \* identities of TCP connections (a closed one is reused)
  MaxRetries,  \* the argument of WithRetry, 0 without the option
  Auth,        \* "ntlm", "cert", or "custom" for WithHTTPClient
  None         \* no slot, no connection, no HTTP client, no caller

ASSUME PoolAssumption ==
  /\ IsFiniteSet(Transports) /\ Transports # {}
  /\ MaxRetries \in Int
  /\ Auth \in {"ntlm", "cert", "custom"}
  /\ None \notin Callers \cup Transports \cup Conns \cup {"shared"}

VARIABLES
  pc,       \* pc[c]: where caller c stands in Send
  ctx,      \* ctx[c]: the context of the call of c is done
  slot,     \* slot[c]: the transport c has borrowed
  attempt,  \* attempt[c]: retries c has made in this Send
  free,     \* the transports in the channel
  conn,     \* conn[c]: the connection of c's current handshake or request
  owner,    \* owner[k]: the HTTP client in whose pool connection k is open
  idle,     \* the open connections no request is using
  ntlm      \* ntlm[k]: the caller whose challenge the server issued on k

vars == <<pc, ctx, slot, attempt, free, conn, owner, idle, ntlm>>

PCs == {"out", "select", "send", "negotiate", "challenged", "final",
        "backoff", "release"}

\* Where a request of the caller is on the wire.
OnWire == {"negotiate", "final"}

\* Where the caller is between borrowing a slot and giving it back.
Holding == PCs \ {"out", "select"}

\* The HTTP client of a transport.  WithHTTPClient hands the same
\* *http.Client to every NewClient of the loop in NewPooledClient; the other
\* options make a new one each time.
HttpClientOf(t) == IF Auth = "custom" THEN "shared" ELSE t
HttpClients == Transports \cup {"shared"}

----------------------------------------------------------------------------
\* What NewPooledClient returns when it returns no error (its errors are in
\* ClientOptions): every transport is in the channel, nothing is connected.
Init ==
  /\ pc = [c \in Callers |-> "out"]
  /\ ctx = [c \in Callers |-> FALSE]
  /\ slot = [c \in Callers |-> None]
  /\ attempt = [c \in Callers |-> 0]
  /\ free = Transports
  /\ conn = [c \in Callers |-> None]
  /\ owner = [k \in Conns |-> None]
  /\ idle = {}
  /\ ntlm = [k \in Conns |-> None]

Move(c, from, to) ==
  /\ pc[c] = from
  /\ pc' = [pc EXCEPT ![c] = to]

\* A goroutine calls a method of the client, with a live context.
Call(c) ==
  /\ Move(c, "out", "select")
  /\ ctx' = [ctx EXCEPT ![c] = FALSE]
  /\ UNCHANGED <<slot, attempt, free, conn, owner, idle, ntlm>>

\* The context is cancelled or its deadline passes, at any moment.
Cancel(c) ==
  /\ pc[c] # "out"
  /\ ~ctx[c]
  /\ ctx' = [ctx EXCEPT ![c] = TRUE]
  /\ UNCHANGED <<pc, slot, attempt, free, conn, owner, idle, ntlm>>

\* The retry loop; with a negative WithRetry its body never runs.
Entered == IF MaxRetries >= 0 THEN "send" ELSE "release"

BorrowByPeek(c) ==                    \* faulty: the transport stays in the channel
  /\ Move(c, "select", Entered)
  /\ \E t \in free : slot' = [slot EXCEPT ![c] = t]
  /\ attempt' = [attempt EXCEPT ![c] = 0]
  /\ UNCHANGED <<ctx, free, conn, owner, idle, ntlm>>

\* select: a transport is received from the channel.  When the context is
\* done too, Go picks either branch, so ctx is not tested.
Borrow(c) ==
  /\ Move(c, "select", Entered)
  /\ \E t \in free :
       /\ slot' = [slot EXCEPT ![c] = t]
       /\ free' = free \ {t}
  /\ attempt' = [attempt EXCEPT ![c] = 0]
  /\ UNCHANGED <<ctx, conn, owner, idle, ntlm>>

\* select: the context is done while the caller waits for a transport.
GiveUp(c) ==
  /\ ctx[c]
  /\ Move(c, "select", "out")
  /\ UNCHANGED <<ctx, slot, attempt, free, conn, owner, idle, ntlm>>

----------------------------------------------------------------------------
\* http.Transport: a request takes an idle connection of its HTTP client and
\* dials a new one only when there is none.  Nothing is sent once the context
\* of the request is done.  A dial that is given up is taken to come to
\* nothing.
TakeConn(c) ==
  LET h == HttpClientOf(slot[c]) IN
  /\ ~ctx[c]
  /\ \E k \in Conns :
       /\ \/ k \in idle /\ owner[k] = h
          \/ owner[k] = None /\ \A j \in idle : owner[j] # h
       /\ conn' = [conn EXCEPT ![c] = k]
       /\ owner' = [owner EXCEPT ![k] = h]
       /\ idle' = idle \ {k}

\* The first exchange of an NTLM attempt goes out.
Negotiate(c) ==
  /\ Auth = "ntlm"
  /\ Move(c, "send", "negotiate")
  /\ TakeConn(c)
  /\ UNCHANGED <<ctx, slot, attempt, free, ntlm>>

\* The server answers with a challenge and remembers on the connection whose
\* handshake it is; the connection goes back to the idle ones.
Challenge(c) ==
  /\ Move(c, "negotiate", "challenged")
  /\ ntlm' = [ntlm EXCEPT ![conn[c]] = c]
  /\ idle' = idle \cup {conn[c]}
  /\ UNCHANGED <<ctx, slot, attempt, free, conn, owner>>

\* The request that gets the final answer goes out: authenticate under NTLM,
\* the only exchange otherwise.
Request(c) ==
  /\ IF Auth = "ntlm" THEN Move(c, "challenged", "final")
                      ELSE Move(c, "send", "final")
  /\ TakeConn(c)
  /\ UNCHANGED <<ctx, slot, attempt, free, ntlm>>

AnswerNotDrained(c) ==                \* faulty: the body is not read or closed
  /\ Move(c, "final", "release")
  /\ ntlm' = [ntlm EXCEPT ![conn[c]] = None]
  /\ conn' = [conn EXCEPT ![c] = None]
  /\ UNCHANGED <<ctx, slot, attempt, free, owner, idle>>

\* The final answer is read to its end.  Whether it grants or refuses, Send
\* does not try again.
Answer(c) ==
  /\ Move(c, "final", "release")
  /\ ntlm' = [ntlm EXCEPT ![conn[c]] = None]
  /\ idle' = idle \cup {conn[c]}
  /\ conn' = [conn EXCEPT ![c] = None]
  /\ UNCHANGED <<ctx, slot, attempt, free, owner>>

\* sendOnce fails: dial error, connection lost, timeout of the HTTP client,
\* or the context is done.  A connection in use is closed; one that lies
\* idle between the two exchanges stays.  Send goes to the backoff of the
\* next attempt, or returns the error of the last one.
Fail(c) ==
  /\ pc[c] \in {"send", "negotiate", "challenged", "final"}
  /\ IF pc[c] \in OnWire
       THEN /\ owner' = [owner EXCEPT ![conn[c]] = None]
            /\ ntlm' = [ntlm EXCEPT ![conn[c]] = None]
       ELSE UNCHANGED <<owner, ntlm>>
  /\ conn' = [conn EXCEPT ![c] = None]
  /\ pc' = [pc EXCEPT ![c] =
              IF attempt[c] < MaxRetries THEN "backoff" ELSE "release"]
  /\ UNCHANGED <<ctx, slot, attempt, free, idle>>

\* A request whose context is done cannot stay under way.
Abort(c) == ctx[c] /\ Fail(c)

\* select in the retry loop: the timer fires.  The slot is still held.
BackoffOver(c) ==
  /\ Move(c, "backoff", "send")
  /\ attempt' = [attempt EXCEPT ![c] = @ + 1]
  /\ UNCHANGED <<ctx, slot, free, conn, owner, idle, ntlm>>

BackoffCancelledEarly(c) ==           \* faulty: returns past the deferred send
  /\ ctx[c]
  /\ Move(c, "backoff", "out")
  /\ UNCHANGED <<ctx, slot, attempt, free, conn, owner, idle, ntlm>>

\* select in the retry loop: the context is done.
BackoffCancelled(c) ==
  /\ ctx[c]
  /\ Move(c, "backoff", "release")
  /\ UNCHANGED <<ctx, slot, attempt, free, conn, owner, idle, ntlm>>

ReleaseOnSuccess(c) ==                \* faulty: not released once retries were used up
  /\ Move(c, "release", "out")
  /\ IF attempt[c] < MaxRetries THEN free' = free \cup {slot[c]} ELSE UNCHANGED free
  /\ slot' = [slot EXCEPT ![c] = None]
  /\ UNCHANGED <<ctx, attempt, conn, owner, idle, ntlm>>

\* The deferred send on the channel, whatever HTTPTransport.Send returned.
\* The channel has room for every transport, so it never blocks.
Release(c) ==
  /\ Move(c, "release", "out")
  /\ free' = free \cup {slot[c]}
  /\ slot' = [slot EXCEPT ![c] = None]
  /\ UNCHANGED <<ctx, attempt, conn, owner, idle, ntlm>>

\* The server or the idle timeout closes an idle connection.  A handshake
\* that was to go on there will have to use another one.
CloseIdle(k) ==
  /\ k \in idle
  /\ idle' = idle \ {k}
  /\ owner' = [owner EXCEPT ![k] = None]
  /\ ntlm' = [ntlm EXCEPT ![k] = None]
  /\ conn' = [c \in Callers |-> IF conn[c] = k THEN None ELSE conn[c]]
  /\ UNCHANGED <<pc, ctx, slot, attempt, free>>

----------------------------------------------------------------------------
\* What the goroutine of caller c does by itself once it holds a slot.
OwnStep(c) ==
  \/ Negotiate(c) \/ Request(c) \/ BackoffOver(c) \/ BackoffCancelled(c)
  \/ Abort(c) \/ Release(c)

CallerStep(c) ==
  \/ Call(c) \/ Cancel(c) \/ Borrow(c) \/ GiveUp(c)
  \/ Negotiate(c) \/ Challenge(c) \/ Request(c) \/ Answer(c) \/ Fail(c)
  \/ BackoffOver(c) \/ BackoffCancelled(c) \/ Release(c)

Next ==
  \/ \E c \in Callers : CallerStep(c)
  \/ \E k \in Conns : CloseIdle(k)

\* Goroutines run.  The Go runtime serves goroutines blocked on a channel in
\* the order they came, so a caller in the select is not overtaken for ever.
Scheduling ==
  \A c \in Callers : /\ WF_vars(OwnStep(c))
                     /\ WF_vars(GiveUp(c))
                     /\ SF_vars(Borrow(c))

\* The HTTP client has a timeout (60 s unless WithTimeout says otherwise), so
\* a request that is not answered fails.
HttpTimeout == \A c \in Callers : WF_vars(Fail(c) /\ pc[c] \in OnWire)

SafetySpec == Init /\ [][Next]_vars

\* With WithTimeout(0) only the context bounds a request: HttpTimeout is left
\* to the property that needs it.
Spec == SafetySpec /\ Scheduling

----------------------------------------------------------------------------
TypeOK ==
  /\ pc \in [Callers -> PCs]
  /\ ctx \in [Callers -> BOOLEAN]
  /\ slot \in [Callers -> Transports \cup {None}]
  /\ attempt \in [Callers -> Nat]
  /\ \A c \in Callers : attempt[c] = 0 \/ attempt[c] <= MaxRetries
  /\ free \in SUBSET Transports
  /\ conn \in [Callers -> Conns \cup {None}]
  /\ owner \in [Conns -> HttpClients \cup {None}]
  /\ idle \in SUBSET Conns
  /\ ntlm \in [Conns -> Callers \cup {None}]

\* A transport carries one request at a time, and none is lost: whatever way
\* a call ends (answer, error, retries used up, cancellation during the wait,
\* the request or the backoff), its transport is in the channel again.  A lost
\* slot would shrink the pool for good (pool.go:28-36).
SlotsConserved ==
  /\ \A c, d \in Callers : slot[c] = slot[d] /\ slot[c] # None => c = d
  /\ \A c \in Callers : slot[c] \notin free
  /\ \A t \in Transports : t \in free \/ \E c \in Callers : slot[c] = t
  /\ \A c \in Callers : slot[c] # None <=> pc[c] \in Holding

\* An NTLM handshake is never interleaved with another one: the connection on
\* which a caller was challenged, and the one on which it authenticates, bear
\* the server's challenge to this caller or, after a lost connection, none;
\* never that of someone else (pool.go:11-21).
HandshakesNotInterleaved ==
  \A c \in Callers :
    /\ pc[c] = "challenged" /\ conn[c] # None => ntlm[conn[c]] = c
    /\ pc[c] = "final" => ntlm[conn[c]] \in {c, None}

\* Requests of different callers never share a connection pool: every slot has
\* an HTTP client of its own (pool.go:8-9, 19-20, 38-39).  Those of a client
\* given by WithHTTPClient do: every slot is handed the same one.
SeparateConnectionPools ==
  \A c, d \in Callers :
    /\ c # d
    /\ conn[c] # None
    /\ conn[d] # None
    => owner[conn[c]] # owner[conn[d]]

\* A slot never has two connections open, through retries, cancellations and
\* lost connections: the host sees at most `size` of them (pool.go:42-45).
OneConnectionPerSlot ==
  \A j, k \in Conns : owner[j] = owner[k] /\ owner[j] # None => j = k

\* With WithTimeout(0), on a server that may never answer, a call returns
\* once its context is done, be it in the queue for a slot, on the wire or in
\* the backoff (pool.go:33, transport.go:75, 99).
CancelledCallReturns ==
  \A c \in Callers : pc[c] # "out" /\ ctx[c] ~> pc[c] = "out"

\* The refinement: a caller is in from the moment it borrows a slot.
PoolSem == INSTANCE Semaphore WITH
  Size  <- Cardinality(Transports),
  phase <- [c \in Callers |-> IF pc[c] \in Holding THEN "in"
                              ELSE IF pc[c] = "select" THEN "want" ELSE "out"]

\* The pool is a semaphore of its size (pool.go:42-45).
ImplementsSemaphore == PoolSem!Spec

\* Every call returns, however the others fare, when requests time out: no
\* caller waits for ever for a slot that is not given back.
EveryCallReturns == HttpTimeout => PoolSem!EveryWaitEnds

\* A slot has one connection to the host and shares it with no other slot, so
\* the limit the pool was made with bounds what the host sees (pool.go:42-45,
\* client.go:163).
ConnectionsKeptApart == SeparateConnectionPools /\ OneConnectionPerSlot

\* A call returns when its requests time out, however the others fare, and
\* without a timeout when its context is done (pool.go:29-36, transport.go:71-79).
CallsReturn == EveryCallReturns /\ CancelledCallReturns
=============================================================================
