--------------------------- MODULE CimProperties ---------------------------
(***************************************************************************)
(* From the host's XML to the fields of a struct and back: the property    *)
(* lists of an answer (wsman/enumerate.go, get.go, invoke.go, create.go),  *)
(* those of an embedded instance (hyperv/embedded.go), and the structs     *)
(* filled from them (hyperv/unmarshal.go).                                 *)
(*                                                                         *)
(* An element of an answer is [name, texts, nil]: the texts it holds, of   *)
(* itself and of what is nested in it, and whether it has xsi:nil.  An     *)
(* element of an embedded instance is [name, values, nested], its VALUEs   *)
(* in order, Null for a VALUE.NULL.                                        *)
(***************************************************************************)
EXTENDS Naturals, Sequences, SequencesExt

Null == "NULL"                        \* nullPlaceholder

Names(es) == {es[i].name : i \in DOMAIN es}

\* The value of an element: its last text that is not empty (lastNonEmpty).
Later(last, t) == IF t = "" THEN last ELSE t

Text(e) == FoldLeft(Later, "", e.texts)

KeptWithoutNulls(e) == IF Text(e) # "" THEN <<Text(e)>> ELSE <<>>  \* faulty: no place for a NULL

\* What an element adds to its property: a value, a place, or nothing.
Kept(e) ==
  IF Text(e) # "" THEN <<Text(e)>> ELSE IF e.nil THEN <<Null>> ELSE <<>>

\* resolveNullPlaceholders, the same in both packages: a property of NULLs
\* only is absent, a NULL among values is an empty one in its place.
ResolveNullPlaceholders(props) ==
  [n \in {m \in DOMAIN props : \E i \in DOMAIN props[m] : props[m][i] # Null} |->
    [i \in DOMAIN props[n] |-> IF props[n][i] = Null THEN "" ELSE props[n][i]]]

\* parseInstances and extractProperties.
ExtractProperties(es) ==
  ResolveNullPlaceholders([n \in Names(es) |->
    FlattenSeq([i \in DOMAIN es |-> IF es[i].name = n THEN Kept(es[i]) ELSE <<>>])])

\* Property, of an instance, a Get and an Invoke: the last value, or "".
Property(props, n) == IF n \in DOMAIN props THEN Last(props[n]) ELSE ""

----------------------------------------------------------------------------
\* ParseInvokeResponse: the ReturnValue is not one of the properties.
ParseInvokeResponse(es) ==
  LET props == ExtractProperties(es)
  IN [returnValue |-> Property(props, "ReturnValue"),
      properties  |-> [n \in DOMAIN props \ {"ReturnValue"} |-> props[n]]]

\* An endpoint reference has a resource URI and selectors [name, value]; as an
\* element it holds an address, the URI and the selectors' values.
AsElement(n, epr) ==
  [name |-> n, nil |-> FALSE,
   texts |-> <<"address", epr.uri>> \o
             [i \in DOMAIN epr.selectors |-> epr.selectors[i].value]]

\* Of the selectors at some places, those with one name: the last counts.
Selected(selectors, at) ==
  [n \in {selectors[i].name : i \in at} |->
    selectors[Max({i \in at : selectors[i].name = n})].value]

\* PropertyEPR: nothing without a resource URI.
PropertyEPR(epr) ==
  IF epr.uri = "" THEN [found |-> FALSE]
  ELSE [found |-> TRUE, uri |-> epr.uri, selectors |-> Selected(epr.selectors, DOMAIN epr.selectors)]

\* extractEndpointReference, of a CreateResponse: empty selectors are left out.
ExtractEndpointReference(epr) ==
  LET named == epr.selectors
  IN [uri |-> epr.uri,
      selectors |-> Selected(named, {i \in DOMAIN named : named[i].name # "" /\ named[i].value # ""})]

----------------------------------------------------------------------------

\* The VALUEs of a property, which keep an empty text.
EmbeddedValues(es, n) ==
  FlattenSeq([i \in DOMAIN es |-> IF es[i].name = n THEN es[i].values ELSE <<>>])

\* parseEmbeddedInstance: an element without a name is skipped; one inside
\* another, or no property at all, is an error.
ParseEmbeddedInstance(es) ==
  LET props == ResolveNullPlaceholders(
                 [n \in Names(es) \ {""} |-> EmbeddedValues(es, n)])
  IN IF \E i \in DOMAIN es : es[i].nested THEN [err |-> "nested"]
     ELSE IF DOMAIN props = {} THEN [err |-> "empty"]
     ELSE [err |-> "nil", properties |-> props]

----------------------------------------------------------------------------
\* A struct with a string, a number, a pointer to a boolean and a slice.
Zero == [ElementName |-> "", Count |-> "0", Enabled |-> "unset", Notes |-> <<>>]

Numerals == {"0", "1", "2"}

Booleans == {"TRUE", "FALSE"}

\* setField refuses a text that is not one of the field's type.
Unreadable(props) ==
  \/ "Count" \in DOMAIN props /\ Head(props.Count) \notin Numerals
  \/ "Enabled" \in DOMAIN props /\ Head(props.Enabled) \notin Booleans

\* UnmarshalList: a scalar field takes the first value, a slice all of them,
\* and a property that is absent leaves its field alone.
UnmarshalList(props) ==
  IF Unreadable(props) THEN [err |-> "value"]
  ELSE [err |-> "nil", fields |->
    [f \in DOMAIN Zero |->
      IF f \notin DOMAIN props THEN Zero[f]
      ELSE IF f = "Notes" THEN props[f] ELSE Head(props[f])]]

SentZeroes(s) ==                      \* faulty: the pointed-to FALSE counts as zero
  {f \in DOMAIN s : s[f] # Zero[f] /\ s[f] # "FALSE"}

\* marshalField: a zero value is not sent; what a pointer points to is, and
\* so is an empty text in a slice.
SentFields(s) == {f \in DOMAIN s : s[f] # Zero[f]}

\* marshalEmbeddedInstance.
MarshalEmbeddedInstance(s) ==
  LET sent == SetToSeq(SentFields(s))
  IN [i \in DOMAIN sent |->
       [name |-> sent[i], nested |-> FALSE,
        values |-> IF sent[i] = "Notes" THEN s.Notes ELSE <<s[sent[i]]>>]]
=============================================================================
