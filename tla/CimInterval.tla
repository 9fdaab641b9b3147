---------------------------- MODULE CimInterval ----------------------------
(***************************************************************************)
(* hyperv/cimtag.go: a duration is read from the host in ISO 8601, as in   *)
(* "P0DT0H45M0S", and must be written as a CIM interval, as in             *)
(* "00000000004500.000000:000".  The arithmetic is that of an int64.       *)
(***************************************************************************)
EXTENDS Integers

CONSTANTS
  MaxDays,   \* maxIntervalDays: what eight digits of days can hold
  Half       \* 2^63: the integers of the code are -Half .. Half - 1

\* A sum of fields that MaxDays bounds is an integer: 90061 seconds are a day, an
\* hour, a minute and a second.
ASSUME IntervalAssumption ==
  MaxDays \in Nat /\ Half \in Nat \ {0} /\ MaxDays * 90061 < Half

Int64(n) == ((n + Half) % (2 * Half)) - Half

\* A text is in ISO 8601 ("iso"), a CIM interval ("cim") or neither; the
\* fields of the first have any number of digits.
Fields(s) == {s.days, s.hours, s.minutes, s.seconds}

\* validateCIMInterval.
ValidateCIMInterval(s) == s.hours <= 23 /\ s.minutes <= 59 /\ s.seconds <= 59

\* strconv.ParseInt, and the bound on each field before anything is multiplied.
Parses(s) == \A f \in Fields(s) : f < Half

FieldsFitAny(s) == TRUE                \* faulty: the bound is left to the days

FieldsFit(s) == \A f \in Fields(s) : f <= MaxDays

Total(s) == Int64(s.days * 86400 + s.hours * 3600 + s.minutes * 60 + s.seconds)

InDigits(total) ==
  LET rem == total % 86400
  IN [format |-> "cim", days |-> total \div 86400, hours |-> rem \div 3600,
      minutes |-> (rem % 3600) \div 60, seconds |-> rem % 60]

\* iso8601ToCIMInterval, which leaves a CIM interval as it is.
Convertible(s) ==
  \/ s.format = "cim" /\ ValidateCIMInterval(s)
  \/ /\ s.format = "iso" /\ Parses(s) /\ FieldsFit(s)
     /\ InDigits(Total(s)).days <= MaxDays

Iso8601ToCIMInterval(s) ==
  IF ~Convertible(s) THEN [format |-> "error"]
  ELSE IF s.format = "cim" THEN s ELSE InDigits(Total(s))
=============================================================================
