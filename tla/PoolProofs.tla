----------------------------- MODULE PoolProofs -----------------------------
(***************************************************************************)
(* Theorems about Pool, for any sets of callers, transports and            *)
(* connections and any number of retries.                                  *)
(*                                                                         *)
(* The invariants are layered: Control says what the program counter tells *)
(* about the other variables, SlotsConserved is inductive relative to it,  *)
(* and Connections, which says what is true of connections, relative to    *)
(* both.                                                                   *)
(***************************************************************************)
EXTENDS Pool, FiniteSetTheorems, TLAPS

\* What the place of a caller in the code says about its slot, its connection
\* and its remaining attempts.
Control ==
  /\ \A c \in Callers : slot[c] # None <=> pc[c] \in Holding
  /\ \A c \in Callers : pc[c] \in OnWire =>
       conn[c] # None /\ conn[c] \notin idle /\ owner[conn[c]] # None
  /\ \A c, d \in Callers :
       pc[c] \in OnWire /\ pc[d] \in OnWire /\ conn[c] = conn[d] => c = d
  /\ \A c \in Callers : conn[c] # None => pc[c] \in OnWire \cup {"challenged"}
  /\ \A c \in Callers : pc[c] = "backoff" => attempt[c] < MaxRetries

Typed == TypeOK /\ Control

----------------------------------------------------------------------------
\* What TakeConn does to the types: the caller ends up with a connection that
\* is open, not idle, and that no other request is using.
LEMMA TakeConnTyped ==
  ASSUME Typed, NEW c \in Callers, slot[c] # None, TakeConn(c)
  PROVE  /\ conn' \in [Callers -> Conns \cup {None}]
         /\ owner' \in [Conns -> HttpClients \cup {None}]
         /\ idle' \in SUBSET Conns
         /\ conn'[c] # None /\ conn'[c] \notin idle' /\ owner'[conn'[c]] # None
         /\ \A d \in Callers \ {c} : conn'[d] = conn[d]
         /\ \A d \in Callers \ {c} : pc[d] \in OnWire =>
              /\ conn[d] # conn'[c]
              /\ conn[d] \notin idle'
              /\ owner'[conn[d]] = owner[conn[d]]
<1>1. PICK k \in Conns :
        /\ conn' = [conn EXCEPT ![c] = k]
        /\ owner' = [owner EXCEPT ![k] = HttpClientOf(slot[c])]
        /\ idle' = idle \ {k}
        /\ k \in idle \/ owner[k] = None
  BY DEF TakeConn
<1>2. HttpClientOf(slot[c]) \in HttpClients /\ HttpClientOf(slot[c]) # None
  BY PoolAssumption DEF Typed, TypeOK, HttpClientOf, HttpClients
<1>3. /\ conn' \in [Callers -> Conns \cup {None}]
      /\ owner' \in [Conns -> HttpClients \cup {None}]
      /\ idle' \in SUBSET Conns
      /\ conn'[c] = k /\ owner'[k] # None /\ k # None
  BY <1>1, <1>2, PoolAssumption DEF Typed, TypeOK
<1>4. ASSUME NEW d \in Callers \ {c}, pc[d] \in OnWire
      PROVE  conn[d] # k /\ conn[d] \notin idle' /\ owner'[conn[d]] = owner[conn[d]]
  BY <1>1, <1>4 DEF Typed, TypeOK, Control
<1>. QED
  BY <1>1, <1>3, <1>4 DEF Typed, TypeOK

LEMMA InitTyped == Init => Typed
BY PoolAssumption DEF Init, Typed, TypeOK, Control, PCs, Holding, OnWire, HttpClients

\* Every step keeps Typed.
LEMMA NextTyped == Typed /\ [Next]_vars => Typed'
<1> SUFFICES ASSUME Typed, [Next]_vars PROVE Typed'
  OBVIOUS
<1> USE PoolAssumption
    DEF Typed, TypeOK, Control, PCs, Holding, OnWire, Move
<1>1. ASSUME NEW c \in Callers, Call(c) PROVE Typed'
  BY <1>1 DEF Call
<1>2. ASSUME NEW c \in Callers, Cancel(c) PROVE Typed'
  BY <1>2 DEF Cancel
<1>3. ASSUME NEW c \in Callers, Borrow(c) PROVE Typed'
  BY <1>3 DEF Borrow, Entered
<1>4. ASSUME NEW c \in Callers, GiveUp(c) PROVE Typed'
  BY <1>4 DEF GiveUp
<1>5. ASSUME NEW c \in Callers, Negotiate(c) PROVE Typed'
  <2>1. slot[c] # None /\ TakeConn(c)
    BY <1>5 DEF Negotiate
  <2>. QED
    BY <1>5, <2>1, TakeConnTyped DEF Negotiate
<1>6. ASSUME NEW c \in Callers, Challenge(c) PROVE Typed'
  BY <1>6 DEF Challenge
<1>7. ASSUME NEW c \in Callers, Request(c) PROVE Typed'
  <2>1. slot[c] # None /\ TakeConn(c)
    BY <1>7 DEF Request
  <2>. QED
    BY <1>7, <2>1, TakeConnTyped DEF Request
<1>8. ASSUME NEW c \in Callers, Answer(c) PROVE Typed'
  BY <1>8 DEF Answer
<1>9. ASSUME NEW c \in Callers, Fail(c) PROVE Typed'
  BY <1>9 DEF Fail
<1>10. ASSUME NEW c \in Callers, BackoffOver(c) PROVE Typed'
  BY <1>10 DEF BackoffOver
<1>11. ASSUME NEW c \in Callers, BackoffCancelled(c) PROVE Typed'
  BY <1>11 DEF BackoffCancelled
<1>12. ASSUME NEW c \in Callers, Release(c) PROVE Typed'
  BY <1>12 DEF Release
<1>13. ASSUME NEW k \in Conns, CloseIdle(k) PROVE Typed'
  BY <1>13 DEF CloseIdle
<1>14. CASE UNCHANGED vars
  BY <1>14 DEF vars
<1>. QED
  BY <1>1, <1>2, <1>3, <1>4, <1>5, <1>6, <1>7, <1>8, <1>9, <1>10, <1>11,
     <1>12, <1>13, <1>14 DEF Next, CallerStep

LEMMA AlwaysTyped == SafetySpec => []Typed
BY InitTyped, NextTyped, PTL DEF SafetySpec

\* Every variable of the pool keeps its type.
THEOREM TypeCorrect == SafetySpec => []TypeOK
BY AlwaysTyped, PTL DEF Typed

----------------------------------------------------------------------------
\* Only Borrow and Release touch the slots.
LEMMA NextSlots == Typed /\ SlotsConserved /\ [Next]_vars => SlotsConserved'
<1> SUFFICES ASSUME Typed, SlotsConserved, [Next]_vars PROVE SlotsConserved'
  OBVIOUS
<1>0. Typed'
  BY NextTyped
<1>1. ASSUME NEW c \in Callers, Borrow(c) PROVE SlotsConserved'
  <2>1. PICK t \in free : slot' = [slot EXCEPT ![c] = t] /\ free' = free \ {t}
    BY <1>1 DEF Borrow
  <2>2. slot[c] = None /\ t # None
    BY <1>1, PoolAssumption
    DEF Borrow, Move, Typed, TypeOK, Control, Holding, PCs
  <2>3. \A u \in Transports : u \in free' \/ \E d \in Callers : slot'[d] = u
    <3> TAKE u \in Transports
    <3>1. CASE u = t
      BY <2>1, <3>1 DEF Typed, TypeOK
    <3>2. CASE u # t /\ u \notin free
      <4>1. PICK d \in Callers : slot[d] = u
        BY <3>2 DEF SlotsConserved
      <4>2. slot'[d] = u
        BY <2>1, <2>2, <4>1, PoolAssumption DEF Typed, TypeOK
      <4>. QED
        BY <4>2
    <3>. QED
      BY <2>1, <3>1, <3>2
  <2>. QED
    BY <1>0, <2>1, <2>2, <2>3 DEF Typed, TypeOK, Control, SlotsConserved
<1>2. ASSUME NEW c \in Callers, Release(c) PROVE SlotsConserved'
  <2>1. slot[c] # None
    BY <1>2 DEF Release, Move, Typed, Control, Holding, PCs
  <2>2. \A t \in Transports : t \in free' \/ \E d \in Callers : slot'[d] = t
    <3> TAKE t \in Transports
    <3>1. CASE t \in free \/ t = slot[c]
      BY <1>2, <3>1 DEF Release
    <3>2. CASE ~(t \in free \/ t = slot[c])
      <4>1. PICK d \in Callers : slot[d] = t
        BY <3>2 DEF SlotsConserved
      <4>2. d # c /\ slot'[d] = t
        BY <1>2, <3>2, <4>1 DEF Release, Typed, TypeOK
      <4>. QED
        BY <4>2
    <3>. QED
      BY <3>1, <3>2
  <2>. QED
    BY <1>0, <1>2, <2>1, <2>2, PoolAssumption
    DEF Release, Typed, TypeOK, Control, SlotsConserved
<1>3. CASE UNCHANGED <<slot, free>>
  BY <1>0, <1>3 DEF Typed, Control, SlotsConserved
<1>4. ASSUME NEW c \in Callers, CallerStep(c), ~Borrow(c), ~Release(c)
      PROVE  UNCHANGED <<slot, free>>
  BY <1>4 DEF CallerStep, Call, Cancel, GiveUp, Negotiate, Challenge, Request,
              Answer, Fail, BackoffOver, BackoffCancelled
<1>5. ASSUME NEW k \in Conns, CloseIdle(k) PROVE UNCHANGED <<slot, free>>
  BY <1>5 DEF CloseIdle
<1>. QED
  BY <1>1, <1>2, <1>3, <1>4, <1>5 DEF Next, vars

LEMMA InitSlots == Init => SlotsConserved
BY PoolAssumption DEF Init, SlotsConserved, Holding, PCs

\* No transport is ever used by two callers or lost, for any number of each.
THEOREM SlotsAlwaysConserved == SafetySpec => []SlotsConserved
BY InitSlots, NextSlots, AlwaysTyped, PTL DEF SafetySpec

----------------------------------------------------------------------------
\* What is true of the connections when every transport has an HTTP client of
\* its own: the connection of a caller belongs to its transport, a connection
\* that is neither closed nor idle carries a request, a transport has at most
\* one, and a handshake that lost its connection has left none behind.
ConnOfSlot == \A c \in Callers : conn[c] # None => owner[conn[c]] = slot[c]

ClosedIsClean == \A k \in Conns : owner[k] = None => k \notin idle /\ ntlm[k] = None

BusyIsUsed ==
  \A k \in Conns : owner[k] # None /\ k \notin idle =>
    \E c \in Callers : conn[c] = k /\ pc[c] \in OnWire

LossLeavesNone ==
  \A c \in Callers : pc[c] = "challenged" /\ conn[c] = None =>
    \A k \in Conns : owner[k] # slot[c]

HandshakeOnlyNTLM ==
  Auth # "ntlm" =>
    /\ \A k \in Conns : ntlm[k] = None
    /\ \A c \in Callers : pc[c] \notin {"negotiate", "challenged"}

Connections ==
  /\ ConnOfSlot
  /\ ClosedIsClean
  /\ BusyIsUsed
  /\ LossLeavesNone
  /\ HandshakeOnlyNTLM
  /\ OneConnectionPerSlot
  /\ HandshakesNotInterleaved

Inv == Typed /\ SlotsConserved /\ Connections

\* TakeConn keeps the part of Connections that does not depend on where the
\* caller goes next, and finds a connection that bears the caller's own
\* challenge if the caller has one.
LEMMA TakeConnConnections ==
  ASSUME Auth # "custom", Inv, NEW c \in Callers, slot[c] # None,
         pc[c] \in {"send", "challenged"}, TakeConn(c)
  PROVE  \E k \in Conns :
           /\ conn' = [conn EXCEPT ![c] = k]
           /\ owner' = [owner EXCEPT ![k] = slot[c]]
           /\ idle' = idle \ {k}
           /\ owner[k] \in {slot[c], None}
           /\ \A j \in Conns : owner[j] = slot[c] => j = k
           /\ conn[c] # None => k = conn[c]
           /\ pc[c] = "challenged" => ntlm[k] \in {c, None}
<1>1. HttpClientOf(slot[c]) = slot[c]
  BY DEF HttpClientOf
<1>2. PICK k \in Conns :
        /\ \/ k \in idle /\ owner[k] = slot[c]
           \/ owner[k] = None /\ \A j \in idle : owner[j] # slot[c]
        /\ conn' = [conn EXCEPT ![c] = k]
        /\ owner' = [owner EXCEPT ![k] = slot[c]]
        /\ idle' = idle \ {k}
  BY <1>1 DEF TakeConn
<1>3. ASSUME NEW j \in Conns, owner[j] = slot[c] PROVE j \in idle
  <2>1. SUFFICES ASSUME j \notin idle PROVE FALSE
    OBVIOUS
  <2>2. PICK d \in Callers : conn[d] = j /\ pc[d] \in OnWire
    BY <1>3, <2>1 DEF Inv, Connections, BusyIsUsed, Typed, Control
  <2>3. slot[d] = slot[c] /\ conn[d] # None
    BY <1>3, <2>2 DEF Inv, Connections, ConnOfSlot, Typed, Control
  <2>4. d = c
    BY <2>3 DEF Inv, SlotsConserved
  <2>. QED
    BY <2>2, <2>4 DEF OnWire
<1>4. ASSUME NEW j \in Conns, owner[j] = slot[c] PROVE j = k
  BY <1>2, <1>3, <1>4 DEF Inv, Connections, OneConnectionPerSlot
<1>5. ASSUME conn[c] # None PROVE k = conn[c]
  BY <1>4, <1>5 DEF Inv, Connections, ConnOfSlot, Typed, TypeOK
<1>6. ASSUME pc[c] = "challenged" PROVE ntlm[k] \in {c, None}
  <2>1. CASE conn[c] # None
    BY <1>5, <1>6, <2>1 DEF Inv, Connections, HandshakesNotInterleaved
  <2>2. CASE conn[c] = None
    BY <1>2, <1>6, <2>2 DEF Inv, Connections, LossLeavesNone, ClosedIsClean
  <2>. QED
    BY <2>1, <2>2
<1>. QED
  BY <1>2, <1>4, <1>5, <1>6

LEMMA InitConnections == Init => Connections
BY PoolAssumption
DEF Init, Connections, ConnOfSlot, ClosedIsClean, BusyIsUsed, LossLeavesNone,
    HandshakeOnlyNTLM, OneConnectionPerSlot, HandshakesNotInterleaved

\* The steps that leave the connections alone.
LEMMA ConnectionsUntouched ==
  ASSUME Inv, NEW c \in Callers, UNCHANGED <<conn, owner, idle, ntlm>>,
         \A d \in Callers \ {c} : pc'[d] = pc[d] /\ slot'[d] = slot[d],
         \/ pc'[c] = pc[c] /\ slot'[c] = slot[c]
         \/ {pc[c], pc'[c]} \cap {"negotiate", "challenged", "final"} = {}
  PROVE  Connections'
<1>1. \A d \in Callers :
        \/ pc'[d] = pc[d] /\ slot'[d] = slot[d]
        \/ {pc[d], pc'[d]} \cap {"negotiate", "challenged", "final"} = {}
  OBVIOUS
<1>2. ConnOfSlot'
  BY <1>1 DEF Inv, Connections, ConnOfSlot, Typed, Control, OnWire
<1>3. ClosedIsClean' /\ OneConnectionPerSlot'
  BY DEF Inv, Connections, ClosedIsClean, OneConnectionPerSlot
<1>4. BusyIsUsed'
  <2> SUFFICES ASSUME NEW k \in Conns, owner[k] # None, k \notin idle
               PROVE  \E d \in Callers : conn'[d] = k /\ pc'[d] \in OnWire
    BY DEF BusyIsUsed
  <2>1. PICK d \in Callers : conn[d] = k /\ pc[d] \in OnWire
    BY DEF Inv, Connections, BusyIsUsed
  <2>2. pc'[d] = pc[d]
    BY <1>1, <2>1 DEF OnWire
  <2>. QED
    BY <2>1, <2>2
<1>5. LossLeavesNone'
  BY <1>1 DEF Inv, Connections, LossLeavesNone
<1>6. HandshakeOnlyNTLM'
  BY <1>1 DEF Inv, Connections, HandshakeOnlyNTLM
<1>7. HandshakesNotInterleaved'
  BY <1>1 DEF Inv, Connections, HandshakesNotInterleaved
<1>. QED
  BY <1>2, <1>3, <1>4, <1>5, <1>6, <1>7 DEF Connections

\* A request that goes out, the first of a handshake or the final one.
LEMMA ConnectionsTakeConn ==
  ASSUME Auth # "custom", Inv, Typed', NEW c \in Callers, TakeConn(c),
         Negotiate(c) \/ Request(c)
  PROVE  Connections'
<1>1. /\ pc[c] \in {"send", "challenged"} /\ slot[c] # None
      /\ slot' = slot /\ ntlm' = ntlm
      /\ pc'[c] \in OnWire
      /\ \A d \in Callers \ {c} : pc'[d] = pc[d]
      /\ Auth # "ntlm" => pc'[c] = "final"
      /\ pc'[c] = "final" => Auth # "ntlm" \/ pc[c] = "challenged"
  BY DEF Negotiate, Request, Move, Inv, Typed, TypeOK, Control, Holding, PCs, OnWire
<1>2. PICK k \in Conns :
        /\ conn' = [conn EXCEPT ![c] = k]
        /\ owner' = [owner EXCEPT ![k] = slot[c]]
        /\ idle' = idle \ {k}
        /\ owner[k] \in {slot[c], None}
        /\ \A j \in Conns : owner[j] = slot[c] => j = k
        /\ conn[c] # None => k = conn[c]
        /\ pc[c] = "challenged" => ntlm[k] \in {c, None}
  BY <1>1, TakeConnConnections
<1>3. /\ conn'[c] = k /\ \A d \in Callers \ {c} : conn'[d] = conn[d]
      /\ owner'[k] = slot[c] /\ \A j \in Conns \ {k} : owner'[j] = owner[j]
      /\ k # None /\ slot'[c] # None
  BY <1>1, <1>2, PoolAssumption DEF Inv, Typed, TypeOK
<1>4. \A d \in Callers \ {c} : conn[d] # None => slot[d] # slot[c] /\ conn[d] # k
  <2> SUFFICES ASSUME NEW d \in Callers \ {c}, conn[d] # None
               PROVE  slot[d] # slot[c] /\ conn[d] # k
    OBVIOUS
  <2>1. slot[d] # None /\ slot[d] # slot[c]
    BY <1>1 DEF Inv, SlotsConserved, Typed, Control, Holding, PCs, OnWire
  <2>2. owner[conn[d]] = slot[d]
    BY DEF Inv, Connections, ConnOfSlot
  <2>. QED
    BY <1>2, <2>1, <2>2
<1>5. ConnOfSlot'
  BY <1>1, <1>3, <1>4 DEF Inv, Connections, ConnOfSlot, Typed, TypeOK
<1>6. ClosedIsClean'
  BY <1>1, <1>2, <1>3 DEF Inv, Connections, ClosedIsClean
<1>7. BusyIsUsed'
  <2> SUFFICES ASSUME NEW j \in Conns, owner'[j] # None, j \notin idle'
               PROVE  \E d \in Callers : conn'[d] = j /\ pc'[d] \in OnWire
    BY DEF BusyIsUsed
  <2>1. CASE j = k
    BY <1>1, <1>3, <2>1
  <2>2. CASE j # k
    <3>1. PICK d \in Callers : conn[d] = j /\ pc[d] \in OnWire
      BY <1>2, <1>3, <2>2 DEF Inv, Connections, BusyIsUsed
    <3>2. d # c
      BY <1>1, <3>1 DEF OnWire
    <3>. QED
      BY <1>1, <1>3, <3>1, <3>2
  <2>. QED
    BY <2>1, <2>2
<1>8. LossLeavesNone'
  <2> SUFFICES ASSUME NEW d \in Callers, pc'[d] = "challenged", conn'[d] = None,
                      NEW j \in Conns
               PROVE  owner'[j] # slot[d]
    BY <1>1 DEF LossLeavesNone
  <2>1. d # c /\ pc[d] = "challenged" /\ conn[d] = None
    BY <1>1, <1>3 DEF OnWire
  <2>2. slot[d] # slot[c]
    BY <1>1, <2>1 DEF Inv, SlotsConserved
  <2>. QED
    BY <1>3, <2>1, <2>2 DEF Inv, Connections, LossLeavesNone
<1>9. HandshakeOnlyNTLM'
  BY <1>1 DEF Inv, Connections, HandshakeOnlyNTLM
<1>10. OneConnectionPerSlot'
  BY <1>1, <1>2, <1>3 DEF Inv, Connections, OneConnectionPerSlot
<1>11. HandshakesNotInterleaved'
  BY <1>1, <1>2, <1>3
  DEF Inv, Connections, HandshakesNotInterleaved, HandshakeOnlyNTLM, OnWire
<1>. QED
  BY <1>5, <1>6, <1>7, <1>8, <1>9, <1>10, <1>11 DEF Connections

\* An answer arrives: the challenge of a handshake, or the final one.
LEMMA ConnectionsAnswered ==
  ASSUME Inv, Typed', NEW c \in Callers, Challenge(c) \/ Answer(c)
  PROVE  Connections'
<1> DEFINE k == conn[c]
<1>1. /\ pc[c] \in OnWire /\ k \in Conns
      /\ owner' = owner /\ slot' = slot /\ idle' = idle \cup {k}
      /\ \A d \in Callers \ {c} : pc'[d] = pc[d] /\ conn'[d] = conn[d]
      /\ pc'[c] \in {"challenged", "release"}
      /\ conn'[c] = IF pc'[c] = "challenged" THEN k ELSE None
      /\ \A j \in Conns \ {k} : ntlm'[j] = ntlm[j]
      /\ ntlm'[k] = IF pc'[c] = "challenged" THEN c ELSE None
      /\ pc[c] = "negotiate" \/ pc'[c] = "release"
  BY PoolAssumption
  DEF Challenge, Answer, Move, Inv, Typed, TypeOK, Control, OnWire
<1>2. owner[k] = slot[c] /\ slot[c] # None
  BY <1>1 DEF Inv, Connections, ConnOfSlot, Typed, Control, TypeOK, OnWire, Holding, PCs
<1>3. ASSUME NEW d \in Callers \ {c} PROVE conn[d] # k
  <2>1. CASE conn[d] # None
    BY <1>2, <1>3, <2>1
    DEF Inv, Connections, ConnOfSlot, SlotsConserved
  <2>2. CASE conn[d] = None
    BY <1>1, <2>2, PoolAssumption
  <2>. QED
    BY <2>1, <2>2
<1>4. ConnOfSlot'
  BY <1>1, <1>2 DEF Inv, Connections, ConnOfSlot
<1>5. ClosedIsClean'
  BY <1>1, <1>2 DEF Inv, Connections, ClosedIsClean
<1>6. BusyIsUsed'
  <2> SUFFICES ASSUME NEW j \in Conns, owner[j] # None, j \notin idle, j # k
               PROVE  \E d \in Callers : conn'[d] = j /\ pc'[d] \in OnWire
    BY <1>1 DEF BusyIsUsed
  <2>1. PICK d \in Callers : conn[d] = j /\ pc[d] \in OnWire
    BY DEF Inv, Connections, BusyIsUsed
  <2>. QED
    BY <1>1, <2>1
<1>7. LossLeavesNone'
  BY <1>1, PoolAssumption DEF Inv, Connections, LossLeavesNone, OnWire
<1>8. HandshakeOnlyNTLM'
  BY <1>1 DEF Inv, Connections, HandshakeOnlyNTLM
<1>9. OneConnectionPerSlot'
  BY <1>1 DEF Inv, Connections, OneConnectionPerSlot
<1>10. HandshakesNotInterleaved'
  <2> SUFFICES ASSUME NEW d \in Callers
               PROVE  /\ pc'[d] = "challenged" /\ conn'[d] # None => ntlm'[conn'[d]] = d
                      /\ pc'[d] = "final" => ntlm'[conn'[d]] \in {d, None}
    BY DEF HandshakesNotInterleaved
  <2>1. CASE d = c
    BY <1>1, <2>1
  <2>2. CASE d # c
    BY <1>1, <1>3, <2>2
    DEF Inv, Connections, HandshakesNotInterleaved, Typed, TypeOK, Control, OnWire
  <2>. QED
    BY <2>1, <2>2
<1>. QED
  BY <1>4, <1>5, <1>6, <1>7, <1>8, <1>9, <1>10 DEF Connections

\* A connection is closed, under a request or while it lies idle.
LEMMA ConnectionsClosed ==
  ASSUME Inv, Typed', NEW k \in Conns \cup {None},
         owner' = [owner EXCEPT ![k] = None], ntlm' = [ntlm EXCEPT ![k] = None],
         idle' = idle \ {k}, slot' = slot,
         \A d \in Callers : conn'[d] = conn[d] \/ conn'[d] = None,
         \A d \in Callers : conn[d] = k => conn'[d] = None,
         \A d \in Callers : pc'[d] = pc[d] \/ pc'[d] \in {"backoff", "release"},
         \A d \in Callers : pc[d] \in OnWire /\ conn[d] # k =>
           pc'[d] = pc[d] /\ conn'[d] = conn[d],
         \A d \in Callers : pc'[d] = "challenged" /\ conn[d] # k => conn'[d] = conn[d]
  PROVE  Connections'
<1>1. /\ \A j \in Conns \ {k} : owner'[j] = owner[j] /\ ntlm'[j] = ntlm[j]
      /\ k \in Conns => owner'[k] = None /\ ntlm'[k] = None
  BY DEF Inv, Typed, TypeOK
<1>2. \A d \in Callers : conn'[d] # None =>
        conn'[d] = conn[d] /\ conn[d] \in Conns \ {k}
  BY DEF Inv, Typed, TypeOK
<1>3. ConnOfSlot'
  BY <1>1, <1>2 DEF Inv, Connections, ConnOfSlot
<1>4. ClosedIsClean'
  BY <1>1 DEF Inv, Connections, ClosedIsClean
<1>5. BusyIsUsed'
  <2> SUFFICES ASSUME NEW j \in Conns, owner'[j] # None, j \notin idle'
               PROVE  \E d \in Callers : conn'[d] = j /\ pc'[d] \in OnWire
    BY DEF BusyIsUsed
  <2>1. PICK d \in Callers : conn[d] = j /\ pc[d] \in OnWire
    BY <1>1 DEF Inv, Connections, BusyIsUsed
  <2>. QED
    BY <1>1, <2>1
<1>6. LossLeavesNone'
  <2> SUFFICES ASSUME NEW d \in Callers, pc'[d] = "challenged", conn'[d] = None,
                      NEW j \in Conns, owner'[j] = slot[d]
               PROVE  FALSE
    BY DEF LossLeavesNone
  <2>1. pc[d] = "challenged" /\ slot[d] # None
    BY DEF Inv, Typed, Control, Holding, PCs
  <2>2. j # k /\ owner[j] = slot[d]
    BY <1>1, <2>1
  <2>3. CASE conn[d] = None
    BY <2>1, <2>2, <2>3 DEF Inv, Connections, LossLeavesNone
  <2>4. CASE conn[d] = k /\ k # None
    BY <2>1, <2>2, <2>4
    DEF Inv, Connections, ConnOfSlot, OneConnectionPerSlot
  <2>5. CASE conn[d] # k /\ conn[d] # None
    BY <2>1, <2>5
  <2>. QED
    BY <2>3, <2>4, <2>5
<1>7. HandshakeOnlyNTLM'
  BY <1>1 DEF Inv, Connections, HandshakeOnlyNTLM
<1>8. OneConnectionPerSlot'
  BY <1>1 DEF Inv, Connections, OneConnectionPerSlot
<1>9. HandshakesNotInterleaved'
  <2> SUFFICES ASSUME NEW d \in Callers
               PROVE  /\ pc'[d] = "challenged" /\ conn'[d] # None => ntlm'[conn'[d]] = d
                      /\ pc'[d] = "final" => ntlm'[conn'[d]] \in {d, None}
    BY DEF HandshakesNotInterleaved
  <2>1. pc'[d] = "challenged" /\ conn'[d] # None => ntlm'[conn'[d]] = d
    BY <1>1, <1>2 DEF Inv, Connections, HandshakesNotInterleaved
  <2>2. ASSUME pc'[d] = "final" PROVE ntlm'[conn'[d]] \in {d, None}
    <3>1. pc[d] = "final" /\ conn'[d] # None
      BY <2>2 DEF Typed, Control, OnWire
    <3>. QED
      BY <1>1, <1>2, <3>1 DEF Inv, Connections, HandshakesNotInterleaved
  <2>. QED
    BY <2>1, <2>2
<1>. QED
  BY <1>3, <1>4, <1>5, <1>6, <1>7, <1>8, <1>9 DEF Connections

\* Every step keeps Connections, when the slots have HTTP clients of their own.
LEMMA NextConnections ==
  ASSUME Auth # "custom", Inv, [Next]_vars
  PROVE  Connections'
<1>0. Typed'
  BY NextTyped DEF Inv
<1>1. ASSUME NEW c \in Callers, Negotiate(c) \/ Request(c) PROVE Connections'
  BY <1>0, <1>1, ConnectionsTakeConn DEF Negotiate, Request
<1>2. ASSUME NEW c \in Callers, Challenge(c) \/ Answer(c) PROVE Connections'
  BY <1>0, <1>2, ConnectionsAnswered
<1>3. ASSUME NEW c \in Callers, Fail(c), pc[c] \in OnWire PROVE Connections'
  <2>1. /\ conn[c] \in Conns /\ idle' = idle \ {conn[c]}
        /\ owner' = [owner EXCEPT ![conn[c]] = None]
        /\ ntlm' = [ntlm EXCEPT ![conn[c]] = None]
        /\ slot' = slot
        /\ conn' = [conn EXCEPT ![c] = None]
        /\ pc'[c] \in {"backoff", "release"}
        /\ \A d \in Callers \ {c} : pc'[d] = pc[d]
    BY <1>3 DEF Fail, Inv, Typed, TypeOK, Control
  <2>2. \A d \in Callers \ {c} : conn[d] # conn[c]
    BY <1>3, <2>1, PoolAssumption
    DEF Inv, Typed, TypeOK, Control, Connections, ConnOfSlot, SlotsConserved, OnWire, Holding, PCs
  <2>3. \A d \in Callers : conn'[d] = IF d = c THEN None ELSE conn[d]
    BY <2>1 DEF Inv, Typed, TypeOK
  <2>4. \A d \in Callers : conn[d] = conn[c] <=> d = c
    BY <2>2
  <2> DEFINE k == conn[c]
  <2>5. /\ \A d \in Callers : conn'[d] = conn[d] \/ conn'[d] = None
        /\ \A d \in Callers : conn[d] = k => conn'[d] = None
        /\ \A d \in Callers : pc'[d] = pc[d] \/ pc'[d] \in {"backoff", "release"}
        /\ \A d \in Callers : pc[d] \in OnWire /\ conn[d] # k =>
             pc'[d] = pc[d] /\ conn'[d] = conn[d]
        /\ \A d \in Callers : pc'[d] = "challenged" /\ conn[d] # k => conn'[d] = conn[d]
    BY <2>1, <2>3, <2>4
  <2>6. k \in Conns \cup {None}
    BY <2>1
  <2> HIDE DEF k
  <2>. QED
    BY <1>0, <2>1, <2>5, <2>6, ConnectionsClosed DEF k
<1>4. ASSUME NEW c \in Callers, Fail(c), pc[c] \notin OnWire PROVE Connections'
  <2>1. /\ owner' = owner /\ ntlm' = ntlm /\ idle' = idle /\ slot' = slot
        /\ conn' = [conn EXCEPT ![c] = None]
        /\ pc'[c] \in {"backoff", "release"}
        /\ \A d \in Callers \ {c} : pc'[d] = pc[d] /\ conn'[d] = conn[d]
    BY <1>4 DEF Fail, Inv, Typed, TypeOK
  <2>2. conn'[c] = None
    BY <2>1 DEF Inv, Typed, TypeOK
  <2>3. ConnOfSlot' /\ ClosedIsClean' /\ OneConnectionPerSlot' /\ HandshakeOnlyNTLM'
    BY <2>1, <2>2
    DEF Inv, Connections, ConnOfSlot, ClosedIsClean, OneConnectionPerSlot, HandshakeOnlyNTLM
  <2>4. BusyIsUsed'
    BY <1>4, <2>1 DEF Inv, Connections, BusyIsUsed
  <2>5. LossLeavesNone' /\ HandshakesNotInterleaved'
    BY <2>1, <2>2 DEF Inv, Connections, LossLeavesNone, HandshakesNotInterleaved
  <2>. QED
    BY <2>3, <2>4, <2>5 DEF Connections
<1>5. ASSUME NEW k \in Conns, CloseIdle(k) PROVE Connections'
  <2>1. \A d \in Callers : pc[d] \in OnWire => conn[d] # k
    BY <1>5 DEF CloseIdle, Inv, Typed, Control
  <2>. QED
    BY <1>0, <1>5, <2>1, ConnectionsClosed DEF CloseIdle
<1>6. ASSUME NEW c \in Callers,
             \/ Call(c) \/ Cancel(c) \/ Borrow(c) \/ GiveUp(c)
             \/ BackoffOver(c) \/ BackoffCancelled(c) \/ Release(c)
      PROVE  Connections'
  <2>1. /\ UNCHANGED <<conn, owner, idle, ntlm>>
        /\ \A d \in Callers \ {c} : pc'[d] = pc[d] /\ slot'[d] = slot[d]
        /\ \/ pc'[c] = pc[c] /\ slot'[c] = slot[c]
           \/ {pc[c], pc'[c]} \cap {"negotiate", "challenged", "final"} = {}
    BY <1>6 DEF Call, Cancel, Borrow, GiveUp, BackoffOver, BackoffCancelled, Release,
                Move, Inv, Typed, TypeOK
  <2>. QED
    BY <2>1, ConnectionsUntouched
<1>7. CASE UNCHANGED vars
  BY <1>7
  DEF vars, Inv, Connections, ConnOfSlot, ClosedIsClean, BusyIsUsed, LossLeavesNone,
      HandshakeOnlyNTLM, OneConnectionPerSlot, HandshakesNotInterleaved
<1>. QED
  BY <1>1, <1>2, <1>3, <1>4, <1>5, <1>6, <1>7 DEF Next, CallerStep

LEMMA AlwaysInv == ASSUME Auth # "custom" PROVE SafetySpec => []Inv
<1>1. Init => Inv
  BY InitTyped, InitSlots, InitConnections DEF Inv
<1>2. Inv /\ [Next]_vars => Inv'
  BY NextTyped, NextSlots, NextConnections DEF Inv
<1>. QED
  BY <1>1, <1>2, PTL DEF SafetySpec

\* With NTLM or certificates (not WithHTTPClient) no handshake is ever
\* interleaved with another, however many callers share the pool.
THEOREM HandshakesAlone ==
  ASSUME Auth # "custom" PROVE SafetySpec => []HandshakesNotInterleaved
<1>1. Inv => HandshakesNotInterleaved
  BY DEF Inv, Connections
<1>. QED
  BY <1>1, AlwaysInv, PTL

\* Under the same condition the host sees at most one connection per slot.
THEOREM ConnectionsBounded ==
  ASSUME Auth # "custom" PROVE SafetySpec => []OneConnectionPerSlot
<1>1. Inv => OneConnectionPerSlot
  BY DEF Inv, Connections
<1>. QED
  BY <1>1, AlwaysInv, PTL

\* And no two callers ever use the same connection pool.
THEOREM PoolsSeparate ==
  ASSUME Auth # "custom" PROVE SafetySpec => []SeparateConnectionPools
<1>1. Inv => SeparateConnectionPools
  <2> SUFFICES ASSUME Inv, NEW c \in Callers, NEW d \in Callers,
                      c # d, conn[c] # None, conn[d] # None
               PROVE  owner[conn[c]] # owner[conn[d]]
    BY DEF SeparateConnectionPools
  <2>1. slot[c] # None
    BY DEF Inv, Typed, Control, OnWire, Holding, PCs
  <2>. QED
    BY <2>1 DEF Inv, Connections, ConnOfSlot, SlotsConserved
<1>. QED
  BY <1>1, AlwaysInv, PTL

----------------------------------------------------------------------------
\* A free transport leaves room: the callers inside map one to one into the
\* other transports.
LEMMA RoomWhenFree ==
  ASSUME Typed, SlotsConserved, NEW t \in free
  PROVE  Cardinality(PoolSem!Inside) < Cardinality(Transports)
<1> DEFINE In == PoolSem!Inside
           Others == Transports \ {t}
           f == [c \in In |-> slot[c]]
<1>1. t \in Transports /\ IsFiniteSet(Transports)
  BY PoolAssumption DEF Typed, TypeOK
<1>2. \A c \in In : c \in Callers /\ slot[c] # None
  BY DEF PoolSem!Inside, Typed, TypeOK, Control, Holding, PCs
<1>3. f \in Injection(In, Others)
  <2>1. f \in [In -> Others]
    BY <1>2 DEF Typed, TypeOK, SlotsConserved
  <2>2. \A c, d \in In : f[c] = f[d] => c = d
    BY <1>2 DEF SlotsConserved
  <2> HIDE DEF f, In, Others
  <2>. QED
    BY <2>1, <2>2 DEF Injection, IsInjective
<1>4. IsFiniteSet(Others) /\ Cardinality(Others) = Cardinality(Transports) - 1
  BY <1>1, FS_RemoveElement
<1>5. IsFiniteSet(In) /\ Cardinality(In) <= Cardinality(Others)
  <2> HIDE DEF f, In, Others
  <2>. QED
    BY <1>3, <1>4, FS_Injection
<1>6. Cardinality(Transports) \in Nat /\ Cardinality(In) \in Nat
  BY <1>1, <1>5, FS_CardinalityType
<1>. QED
  BY <1>4, <1>5, <1>6

\* The pool implements the semaphore of its size: a call is a Want, receiving
\* from the channel an Enter, giving up a GiveUp, the deferred return a Leave,
\* and everything else leaves the abstract state alone.
THEOREM PoolImplementsSemaphore == SafetySpec => ImplementsSemaphore
<1> DEFINE ph == [c \in Callers |-> IF pc[c] \in Holding THEN "in"
                                    ELSE IF pc[c] = "select" THEN "want" ELSE "out"]
<1>1. Init => PoolSem!Init
  BY DEF Init, PoolSem!Init, Holding
<1>2. Typed /\ SlotsConserved /\ [Next]_vars => [PoolSem!Next]_ph
  <2> SUFFICES ASSUME Typed, SlotsConserved, [Next]_vars
               PROVE  PoolSem!Next \/ ph' = ph
    OBVIOUS
  <2> USE DEF Move, PoolSem!Move, PoolSem!Next, Typed, TypeOK, PCs, Holding
  <2>1. ASSUME NEW c \in Callers, Call(c) PROVE PoolSem!Want(c)
    BY <2>1 DEF Call, PoolSem!Want
  <2>2. ASSUME NEW c \in Callers, Borrow(c) PROVE PoolSem!Enter(c)
    <3>1. Cardinality(PoolSem!Inside) < Cardinality(Transports)
      BY <2>2, RoomWhenFree DEF Borrow
    <3>2. ph[c] = "want" /\ ph' = [ph EXCEPT ![c] = "in"]
      BY <2>2 DEF Borrow, Entered
    <3>3. PoolSem!Cardinality(PoolSem!Inside) = Cardinality(PoolSem!Inside)
      BY DEF Cardinality, PoolSem!Cardinality
    <3>. QED
      BY <3>1, <3>2, <3>3 DEF PoolSem!Enter
  <2>3. ASSUME NEW c \in Callers, GiveUp(c) PROVE PoolSem!GiveUp(c)
    BY <2>3 DEF GiveUp, PoolSem!GiveUp
  <2>4. ASSUME NEW c \in Callers, Release(c) PROVE PoolSem!Leave(c)
    BY <2>4 DEF Release, PoolSem!Leave
  <2>5. ASSUME NEW c \in Callers,
               \/ Cancel(c) \/ Negotiate(c) \/ Challenge(c) \/ Request(c) \/ Answer(c)
               \/ Fail(c) \/ BackoffOver(c) \/ BackoffCancelled(c)
        PROVE  ph' = ph
    BY <2>5 DEF Cancel, Negotiate, Challenge, Request, Answer, Fail, BackoffOver,
                BackoffCancelled
  <2>6. ASSUME NEW k \in Conns, CloseIdle(k) PROVE ph' = ph
    BY <2>6 DEF CloseIdle
  <2>7. CASE UNCHANGED vars
    BY <2>7 DEF vars
  <2>. QED
    BY <2>1, <2>2, <2>3, <2>4, <2>5, <2>6, <2>7 DEF Next, CallerStep
<1>3. SafetySpec => [](Typed /\ SlotsConserved)
  BY AlwaysTyped, SlotsAlwaysConserved, PTL
<1>. QED
  BY <1>1, <1>2, <1>3, PTL DEF SafetySpec, ImplementsSemaphore, PoolSem!Spec

\* A slot has at most one connection and shares it with no other slot, as long
\* as every slot made an HTTP client of its own (pool.go:42-45, client.go:163).
THEOREM ConnectionsAlwaysKeptApart ==
  ASSUME Auth # "custom" PROVE SafetySpec => []ConnectionsKeptApart
<1>1. SafetySpec => []SeparateConnectionPools
  BY PoolsSeparate
<1>2. SafetySpec => []OneConnectionPerSlot
  BY ConnectionsBounded
<1> QED
  BY <1>1, <1>2, PTL DEF ConnectionsKeptApart
=============================================================================
