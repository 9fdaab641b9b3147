----------------------------- MODULE Enumerate -----------------------------
(***************************************************************************)
(* Client.Enumerate (wsman/client.go) with the requests and parsers of     *)
(* wsman/enumerate.go: one Enumerate request, which opens a context on the *)
(* host, then Pull requests until one is answered with EndOfSequence.      *)
(*                                                                         *)
(* The host gives out the instances 1..Total in pages, some of which may   *)
(* be empty.  It keeps one context for all pages or renews it with each,   *)
(* and it may leave the context out of an answer.  EndOfSequence comes     *)
(* with the last instances or on a page of its own.                        *)
(*                                                                         *)
(* Each request is sent by Client.send, whose transport tries again when   *)
(* an answer is lost (wsman/transport.go): the host then carries the       *)
(* request out twice.                                                      *)
(***************************************************************************)
EXTENDS Naturals, Sequences

CONSTANTS
  Total,       \* the instances the host has
  MaxPulls,    \* DefaultMaxPullIterations
  MaxRetries   \* WithMaxRetries

ASSUME EnumerateAssumption ==
  Total \in Nat /\ MaxPulls \in Nat /\ MaxRetries \in Nat

VARIABLES
  wql,      \* the WQL filter: "unset", "empty" or "set"
  renews,   \* the host renews the context with every page
  pc,       \* "enumerate", "pull" or "done"
  tries,    \* attempts of the current request whose answer was lost
  pulls,    \* iterations of the loop that are over
  enumCtx,  \* the context the client holds, 0 for an empty one
  all,      \* the instances gathered
  err,      \* the error of the call, or "none"
  opened,   \* host: the resource URI the enumeration was opened with
  last,     \* host: the number of the last context given out
  open,     \* host: the contexts that are open
  cursor,   \* host: how many instances the latest context has given out
  missed,   \* instances in answers that were lost
  omitted   \* the host has left the context out of an answer

enumVars == <<wql, renews, pc, tries, pulls, enumCtx, all, err,
              opened, last, open, cursor, missed, omitted>>

hostVars == <<opened, last, open, cursor>>

URIs == {"none", "class", "wildcard"}

EnumInit ==
  /\ wql \in {"unset", "empty", "set"}
  /\ renews \in BOOLEAN
  /\ pc = "enumerate"
  /\ tries = 0 /\ pulls = 0 /\ enumCtx = 0
  /\ all = <<>> /\ err = "none"
  /\ opened = "none" /\ last = 0 /\ open = {} /\ cursor = 0
  /\ missed = {} /\ omitted = FALSE

\* wqlWildcardResourceURI: a filter asks for all classes of the namespace.
EnumerateURI == IF wql = "set" THEN "wildcard" ELSE "class"

PullURI == IF wql = "set" THEN "wildcard" ELSE "class"

\* The requests, which name EnumerateURI or PullURI and, the latter, enumCtx.
AsksToEnumerate == pc = "enumerate" /\ wql # "empty"

AsksToPull == pc = "pull" /\ pulls < MaxPulls

Fails(what) == pc' = "done" /\ err' = what

----------------------------------------------------------------------------
\* The host opens a context.
Open ==
  /\ opened' = EnumerateURI
  /\ last' = last + 1
  /\ open' = open \cup {last + 1}
  /\ cursor' = 0

\* The host gives out the next instances, up to the n-th, and closes or
\* renews the context.
Known == enumCtx \in open /\ PullURI = opened

Serve(n, eos) ==
  /\ Known
  /\ n \in cursor .. Total
  /\ eos => n = Total
  /\ cursor' = n
  /\ last' = IF renews THEN last + 1 ELSE last
  /\ open' = IF eos THEN open \ {enumCtx} ELSE (open \ {enumCtx}) \cup {last'}
  /\ UNCHANGED opened

Page(n) == [i \in 1 .. n - cursor |-> cursor + i]

PageItems(n) == cursor + 1 .. n

----------------------------------------------------------------------------
\* BuildEnumerateRequest refuses an empty query.
EmptyQuery ==
  /\ pc = "enumerate" /\ wql = "empty"
  /\ Fails("query")
  /\ UNCHANGED <<wql, renews, tries, pulls, enumCtx, all, hostVars, missed, omitted>>

\* ParseEnumerateResponse: a context, or none, which is an error.
EnumerateAnswered ==
  /\ AsksToEnumerate
  /\ Open
  /\ tries' = 0
  /\ \/ /\ pc' = "pull" /\ enumCtx' = last + 1
        /\ UNCHANGED <<err, omitted>>
     \/ /\ Fails("noContext") /\ omitted' = TRUE
        /\ UNCHANGED enumCtx
  /\ UNCHANGED <<wql, renews, pulls, all, missed>>

\* The host carries the request out and its answer is lost: another attempt,
\* or the error of the last.

Lost ==
  IF tries < MaxRetries
    THEN tries' = tries + 1 /\ UNCHANGED <<pc, err>>
    ELSE Fails("send") /\ UNCHANGED tries

EnumerateLost ==
  /\ AsksToEnumerate
  /\ Open
  /\ Lost
  /\ UNCHANGED <<wql, renews, pulls, enumCtx, all, missed, omitted>>

\* A request that is not carried out: no connection, a cancellation, or a
\* Fault for a reason of the host's own.
NotServed ==
  /\ AsksToEnumerate \/ AsksToPull
  /\ Fails("send")
  /\ UNCHANGED <<wql, renews, tries, pulls, enumCtx, all, hostVars, missed, omitted>>

\* The context of the next Pull is the answer's, also when it is empty.
NextContextKept(eos, left) == enumCtx' = enumCtx   \* faulty: always the first

NextContext(eos, left) ==
  enumCtx' = IF eos THEN enumCtx ELSE IF left THEN 0 ELSE last'

PullAnsweredEarly ==                  \* faulty: an empty page ends the loop
  /\ AsksToPull
  /\ tries' = 0
  /\ pulls' = pulls + 1
  /\ \E n \in cursor .. Total, eos, left \in BOOLEAN :
       /\ Serve(n, eos)
       /\ all' = all \o Page(n)
       /\ omitted' = (omitted \/ left)
       /\ NextContext(eos, left)
       /\ pc' = IF eos \/ n = cursor THEN "done" ELSE "pull"
  /\ UNCHANGED <<wql, renews, err, missed>>

PullAnsweredUncounted ==              \* faulty: only pages with instances count
  /\ AsksToPull
  /\ tries' = 0
  /\ \E n \in cursor .. Total, eos, left \in BOOLEAN :
       /\ Serve(n, eos)
       /\ pulls' = IF n > cursor THEN pulls + 1 ELSE pulls
       /\ all' = all \o Page(n)
       /\ omitted' = (omitted \/ left)
       /\ NextContext(eos, left)
       /\ pc' = IF eos THEN "done" ELSE "pull"
  /\ UNCHANGED <<wql, renews, err, missed>>

\* One iteration of the loop: the page's instances are appended, and with
\* EndOfSequence the call returns them.
PullAnswered ==
  /\ AsksToPull
  /\ tries' = 0
  /\ pulls' = pulls + 1
  /\ \E n \in cursor .. Total, eos, left \in BOOLEAN :
       /\ Serve(n, eos)
       /\ all' = all \o Page(n)
       /\ omitted' = (omitted \/ left)
       /\ NextContext(eos, left)
       /\ pc' = IF eos THEN "done" ELSE "pull"
  /\ UNCHANGED <<wql, renews, err, missed>>

PullLost ==
  /\ AsksToPull
  /\ \E n \in cursor .. Total, eos \in BOOLEAN :
       Serve(n, eos) /\ missed' = missed \cup PageItems(n)
  /\ Lost
  /\ UNCHANGED <<wql, renews, pulls, enumCtx, all, omitted>>

\* ParsePullResponse: the host refuses a context it does not know, or one that
\* was opened for another resource.
PullRefused ==
  /\ AsksToPull
  /\ ~Known
  /\ Fails("fault")
  /\ UNCHANGED <<wql, renews, tries, pulls, enumCtx, all, hostVars, missed, omitted>>

\* The loop is over: what was gathered is not returned.
TooMany ==
  /\ pc = "pull" /\ pulls = MaxPulls
  /\ Fails("tooMany")
  /\ UNCHANGED <<wql, renews, tries, pulls, enumCtx, all, hostVars, missed, omitted>>

EnumNext ==
  \/ EmptyQuery \/ EnumerateAnswered \/ EnumerateLost \/ NotServed
  \/ PullAnswered \/ PullLost \/ PullRefused \/ TooMany

EnumSpec == EnumInit /\ [][EnumNext]_enumVars

\* send returns (Transport.tla), and the loop goes on.
EnumFairSpec == EnumSpec /\ WF_enumVars(EnumNext)

----------------------------------------------------------------------------
EnumTypeOK ==
  /\ wql \in {"unset", "empty", "set"}
  /\ renews \in BOOLEAN
  /\ pc \in {"enumerate", "pull", "done"}
  /\ tries \in 0 .. MaxRetries
  /\ pulls \in 0 .. MaxPulls
  /\ enumCtx \in Nat
  /\ all \in Seq(1 .. Total)
  /\ err \in {"none", "query", "noContext", "send", "fault", "tooMany"}
  /\ opened \in URIs
  /\ last \in Nat
  /\ open \in SUBSET (1 .. last)
  /\ cursor \in 0 .. Total
  /\ missed \in SUBSET (1 .. Total)
  /\ omitted \in BOOLEAN

\* A call that returns no error returns every instance once and in the host's
\* order, except those of a page whose answer was lost and asked for again
\* (client.go:333, 378, 380).
Complete ==
  pc = "done" /\ err = "none" =>
    /\ {all[i] : i \in DOMAIN all} = (1 .. Total) \ missed
    /\ \A i, j \in DOMAIN all : i < j => all[i] < all[j]

\* A call that returns no error leaves its context closed on the host: it
\* stops at EndOfSequence, not at an empty page (client.go:380-382).
ClosedOnHost == pc = "done" /\ err = "none" => enumCtx \notin open

\* The host refuses a Pull only when it left the context out of its answer or
\* an answer of its was lost: the client follows renewed contexts, and pulls
\* from the resource it enumerated (client.go:343-346, 366, 384).
RefusedForACause == err = "fault" => omitted \/ tries > 0

\* The call returns, also when the host gives out empty pages for ever
\* (client.go:365, 387).
CallReturns == <>(pc = "done")

\* An enumeration that ends without an error has read everything the host had
\* to give and leaves no context open there (client.go:333-387).
ReadToTheEnd == Complete /\ ClosedOnHost
=============================================================================
