---------------------------- MODULE Placeholders ---------------------------
(***************************************************************************)
(* The recorder's placeholders (placeholderFor, wsman/record.go):          *)
(* what an address of the host's network is replaced by in a recording.    *)
(* Each kind of value has a counter of its own; an address gets a number   *)
(* of the next documentation range when one is full, and the last range    *)
(* starts anew when all are.                                               *)
(***************************************************************************)
EXTENDS Naturals, Sequences, SequencesExt

CONSTANTS
  PerRange,   \* addresses in a range, 254 in the code
  Ranges      \* Len(docIPRanges), 3 in the code

ASSUME PlaceholderAssumption == PerRange \in Nat \ {0} /\ Ranges \in Nat \ {0}

\* The state: what was replaced so far, and the counter of each kind.
NewAnonymizer == [replaced |-> <<>>, counters |-> [k \in {"guid", "ip"} |-> 0]]

AddressOneRange(n) == [range |-> 1, host |-> n]     \* faulty: never the next range

\* The n-th address.
Address(n) ==
  LET idx == (n - 1) \div PerRange
  IN [range |-> (IF idx >= Ranges THEN Ranges - 1 ELSE idx) + 1,
      host  |-> ((n - 1) % PerRange) + 1]

\* The key under which a replacement is kept folds the case.
SameValue(a, b) == a.kind = b.kind /\ a.id = b.id

Counted(a, kind) == a.counters[kind] + 1

\* placeholderFor: the replacement given before, or a new one.
PlaceholderFor(a, v) ==
  IF \E i \in DOMAIN a.replaced : SameValue(a.replaced[i].value, v) THEN a
  ELSE LET n == Counted(a, v.kind)
       IN [replaced |-> Append(a.replaced,
             [value |-> v, by |-> IF v.kind = "ip" THEN Address(n)
                                  ELSE [range |-> 0, host |-> n]]),
           counters |-> [a.counters EXCEPT ![v.kind] = n]]

Anonymized(values) == FoldLeft(PlaceholderFor, NewAnonymizer, values)

\* What a value is replaced by.
ReplacementOf(a, v) ==
  (CHOOSE r \in ToSet(a.replaced) : SameValue(r.value, v)).by
=============================================================================
