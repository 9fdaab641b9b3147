--------------------------- MODULE ClientOptions ---------------------------
(***************************************************************************)
(* NewClient (wsman/client.go): the options are applied in the order they  *)
(* are given.  Some build or change the HTTP client at once; the others    *)
(* leave a wish that NewClient grants when the HTTP client is settled.     *)
(* NewPooledClient (wsman/pool.go) does it once for every slot.            *)
(*                                                                         *)
(* An HTTP client is [base, negotiator, recorder, skip, ca, cert, timeout]:*)
(* its base transport is an *http.Transport ("http"), something else       *)
(* ("other") or not set ("nil"); a Negotiator (NTLM) or a recorder may be  *)
(* around it; skip, ca and cert are its TLS settings (of one CA file).     *)
(***************************************************************************)
EXTENDS Integers, Sequences, SequencesExt

None == [base |-> "none"]

\* NewHTTPTransport without an HTTP client, and optimizedTransport.
DefaultHTTPClient ==
  [base |-> "http", negotiator |-> FALSE, recorder |-> FALSE, skip |-> FALSE,
   ca |-> FALSE, cert |-> FALSE, timeout |-> "60s"]

NewNTLMTransport == [DefaultHTTPClient EXCEPT !.negotiator = TRUE]

NewCertTransport(cert, ca) == [DefaultHTTPClient EXCEPT !.cert = cert, !.ca = ca]

CustomHTTPClient(base) == [DefaultHTTPClient EXCEPT !.base = base, !.timeout = "own"]

----------------------------------------------------------------------------

\* addCACertToTransport reaches a bare *http.Transport only.
AddCACertToTransport(http) ==
  IF http.base = "http" /\ ~http.negotiator THEN [http EXCEPT !.ca = TRUE] ELSE http

\* applyInsecureSkipVerify looks inside a Negotiator, but not a recorder.
ApplyInsecureSkipVerify(http) ==
  IF http.base = "http" /\ ~http.recorder THEN [http EXCEPT !.skip = TRUE] ELSE http

\* attachRecorder, when the directory could be made.
AttachRecorder(http) == [http EXCEPT !.recorder = TRUE]

Unset == [http |-> None, optErr |-> "nil", timeout |-> "unset", retries |-> 0,
          insecure |-> FALSE, recordDir |-> "none"]

WithCACert(c, ok) ==
  IF ~ok THEN [c EXCEPT !.optErr = "ca"]
  ELSE IF c.http = None THEN [c EXCEPT !.http = NewCertTransport(FALSE, TRUE)]
  ELSE [c EXCEPT !.http = AddCACertToTransport(@)]

WithCertificate(c, ok) ==
  IF ~ok THEN [c EXCEPT !.optErr = "certificate"]
  ELSE [c EXCEPT !.http = NewCertTransport(TRUE, FALSE)]

WithInsecureSkipVerify(c) == [c EXCEPT !.insecure = TRUE]

\* An option is <<name, argument>>.  The argument of WithRecorder is a directory
\* that can be made or not ("usable", "unusable"), or the empty name ("none").
Apply(c, option) ==
  LET arg == option[2]
  IN CASE option[1] = "WithHTTPClient"  -> [c EXCEPT !.http = CustomHTTPClient(arg)]
       [] option[1] = "WithNTLM"        -> [c EXCEPT !.http = NewNTLMTransport]
       [] option[1] = "WithCertificate" -> WithCertificate(c, arg)
       [] option[1] = "WithCACert"      -> WithCACert(c, arg)
       [] option[1] = "WithTimeout"     -> [c EXCEPT !.timeout = arg]
       [] option[1] = "WithRetry"       -> [c EXCEPT !.retries = arg]
       [] option[1] = "WithRecorder"    -> [c EXCEPT !.recordDir = arg]
       [] OTHER                         -> WithInsecureSkipVerify(c)

----------------------------------------------------------------------------
SettledRecorderFirst(c) ==            \* faulty: the recorder hides the transport
  LET h0 == IF c.http = None THEN DefaultHTTPClient ELSE c.http
      h1 == IF c.timeout = "unset" THEN h0 ELSE [h0 EXCEPT !.timeout = c.timeout]
      h2 == IF c.recordDir = "none" THEN h1 ELSE AttachRecorder(h1)
  IN IF c.insecure THEN ApplyInsecureSkipVerify(h2) ELSE h2

\* The wishes, in the order in which NewClient grants them.
Settled(c) ==
  LET h0 == IF c.http = None THEN DefaultHTTPClient ELSE c.http
      h1 == IF c.timeout = "unset" THEN h0 ELSE [h0 EXCEPT !.timeout = c.timeout]
      h2 == IF c.insecure THEN ApplyInsecureSkipVerify(h1) ELSE h1
  IN IF c.recordDir = "none" THEN h2 ELSE AttachRecorder(h2)

\* What is wrong with the endpoint, an option or the directory of recordings, in
\* the order in which they are looked at.
Complaint(endpoint, c) ==
  IF endpoint # "url" THEN "endpoint"
  ELSE IF c.optErr # "nil" THEN c.optErr
  ELSE IF c.recordDir = "unusable" THEN "recorder" ELSE "nil"

\* The endpoint is an http or https URL with a host ("url") or is not.
NewClient(endpoint, options) ==
  LET c == FoldLeft(Apply, Unset, options)
      err == Complaint(endpoint, c)
  IN IF err # "nil" THEN [err |-> err]
     ELSE [err |-> "nil", http |-> Settled(c), retries |-> c.retries, recordDir |-> c.recordDir]

\* Recordings of a pooled client would reach no file, and are refused.
NewPooledClient(size, endpoint, options) ==
  LET c == NewClient(endpoint, options)
  IN IF size <= 0 THEN [err |-> "size"]
     ELSE IF c.err # "nil" THEN [err |-> c.err]
     ELSE IF c.recordDir # "none" THEN [err |-> "recorder"]
     ELSE [err |-> "nil", slots |-> [i \in 1 .. size |-> c]]
=============================================================================
