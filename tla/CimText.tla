------------------------------ MODULE CimText ------------------------------
(***************************************************************************)
(* The texts the client builds for Hyper-V and the ones it takes apart: an *)
(* embedded instance with its escaped values and its CDATA sections        *)
(* (hyperv/embedded.go), a WMI object path with its quoted keys            *)
(* (hyperv/epr.go), and the parent of a checkpoint (hyperv/checkpoint.go). *)
(*                                                                         *)
(* A text is a sequence of characters and of the few longer tokens the     *)
(* rules below speak of.  The other side of each rule, the parser that     *)
(* reads the text, is the host's.                                          *)
(***************************************************************************)
EXTENDS Naturals, Sequences, SequencesExt

CONSTANT Illegal   \* control characters, U+FFFE, U+FFFF and broken UTF-8

Quote == "\""

Replacement == "U+FFFD"

----------------------------------------------------------------------------
\* What encoding/xml writes for a character: a named reference, a numeric one,
\* or, for what no XML may hold, a replacement.
Escape(c) ==
  CASE c = "&"       -> "&amp;"
    [] c = "<"       -> "&lt;"
    [] c = ">"       -> "&gt;"
    [] c = Quote     -> "&#34;"
    [] c = "'"       -> "&#39;"
    [] c = "TAB"     -> "&#x9;"
    [] c = "LF"      -> "&#xA;"
    [] c = "CR"      -> "&#xD;"
    [] c \in Illegal -> Replacement
    [] OTHER         -> c

XmlEscape(text) == [i \in DOMAIN text |-> Escape(text[i])]

\* namedToNumericRefs
Numeric(c) ==
  CASE c = "&amp;" -> "&#38;" [] c = "&lt;" -> "&#60;" [] c = "&gt;" -> "&#62;" [] OTHER -> c

CimValueEscape(text) == [i \in DOMAIN text |-> Numeric(XmlEscape(text)[i])]

\* Hyper-V's own parser of embedded instances refuses named references and bare
\* markup.  The numeric references of markup it takes; of the others nobody has
\* seen whether it does (embedded.go:366-367).
Refused == {"&", "<", "&amp;", "&lt;"} \cup Illegal

Unobserved == {"&#34;", "&#39;", "&#x9;", "&#xA;", "&#xD;"}

Denotes(c) ==
  CASE c = "&#38;" -> "&" [] c = "&#60;" -> "<" [] c = "&#62;" -> ">" [] c = "&gt;" -> ">"
    [] c = "&#34;" -> Quote [] c = "&#39;" -> "'"
    [] c = "&#x9;" -> "TAB" [] c = "&#xA;" -> "LF" [] c = "&#xD;" -> "CR"
    [] OTHER -> c

\* taken: those of the unobserved ones that it takes.
HostValue(text, taken) ==
  IF \E i \in DOMAIN text : text[i] \in Refused \cup (Unobserved \ taken) THEN <<"refused">>
  ELSE [i \in DOMAIN text |-> Denotes(text[i])]

----------------------------------------------------------------------------
CdataStart == "<![CDATA["

CdataWrapWhole(text) == <<CdataStart>> \o text \o <<"]", "]", ">">>  \* faulty: not split

\* cdataWrap: a section ends at the first "]]>", so one in the text is split
\* between two sections.
CdataWrap(text) ==
  LET ends(i) == i > 2 /\ SubSeq(text, i - 2, i) = <<"]", "]", ">">>
      safe == FlattenSeq([i \in DOMAIN text |->
                IF ends(i) THEN <<"]", "]", ">", CdataStart, ">">> ELSE <<text[i]>>])
  IN <<CdataStart>> \o safe \o <<"]", "]", ">">>

\* What an XML parser takes from a sequence of sections.
Section(r, c) ==
  IF ~r.open
    THEN [r EXCEPT !.open = TRUE, !.brackets = 0, !.ok = r.ok /\ c = CdataStart]
  ELSE IF c = ">" /\ r.brackets >= 2
    THEN [r EXCEPT !.open = FALSE, !.text = SubSeq(r.text, 1, Len(r.text) - 2)]
  ELSE [r EXCEPT !.text = Append(r.text, c),
                 !.brackets = IF c = "]" THEN r.brackets + 1 ELSE 0]

Sections(text) ==
  FoldLeft(Section, [text |-> <<>>, open |-> FALSE, brackets |-> 0, ok |-> TRUE], text)

----------------------------------------------------------------------------
\* strings.ReplaceAll for a single character.
Replaced(text, c, r) ==
  FlattenSeq([i \in DOMAIN text |-> IF text[i] = c THEN r ELSE <<text[i]>>])

\* wmiPathValueEscape: backslashes first, then quotes.
WmiPathValueEscape(text) ==
  Replaced(Replaced(text, "\\", <<"\\", "\\">>), Quote, <<"\\", Quote>>)

\* wmiObjectPath: the class, then the keys in order of their names, quoted.
Keys(values) ==
  FlattenSeq([k \in DOMAIN values |->
    (IF k = 1 THEN <<".">> ELSE <<",">>)
      \o <<"key", Quote>> \o WmiPathValueEscape(values[k]) \o <<Quote>>])

WmiObjectPath(values) == <<"class">> \o Keys(values)

\* How the host reads the quoted values of a path.
Unquote(r, c) ==
  IF r.escaped THEN [r EXCEPT !.escaped = FALSE, !.value = Append(r.value, c)]
  ELSE IF r.inside /\ c = "\\" THEN [r EXCEPT !.escaped = TRUE]
  ELSE IF r.inside /\ c = Quote
    THEN [r EXCEPT !.inside = FALSE, !.values = Append(r.values, r.value)]
  ELSE IF r.inside THEN [r EXCEPT !.value = Append(r.value, c)]
  ELSE IF c = Quote THEN [r EXCEPT !.inside = TRUE, !.value = <<>>]
  ELSE r

PathValues(path) ==
  FoldLeft(Unquote, [values |-> <<>>, value |-> <<>>, inside |-> FALSE,
                     escaped |-> FALSE], path).values

----------------------------------------------------------------------------
Marker == "InstanceID=\"Microsoft:"

\* ParentSnapshotID: what stands between the marker and the next quote.

ParentSnapshotID(parent) ==
  LET i == SelectInSeq(parent, LAMBDA c : c = Marker)
      rest == SubSeq(parent, i + 1, Len(parent))
      j == SelectInSeq(rest, LAMBDA c : c = Quote)
  IN IF i = 0 \/ j = 0 THEN <<>> ELSE SubSeq(rest, 1, j - 1)
=============================================================================
