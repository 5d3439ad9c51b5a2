------------------------------ MODULE ShellScan ------------------------------
(***************************************************************************)
(* The scanners of shell-style substitution, internal/shell, that the      *)
(* lexer shares: escapes, and where an expansion ends.  A text is a        *)
(* sequence of characters and a position in it counts from one.            *)
(*                                                                         *)
(* A result is a record: ok says that there is no error, set that the      *)
(* variable exists, out is the text, next the position after what was read.*)
(***************************************************************************)
EXTENDS Names, FiniteSetsExt

CONSTANT Byte  \* the character of each byte, 0..255

Quotes == {"\"", "'"}

Numerals == <<"0", "1", "2", "3", "4", "5", "6", "7", "8", "9",
              "a", "b", "c", "d", "e", "f">>

IsNumeral(ch, base) == \E n \in 1..base : Numerals[n] = ch
NumeralValue(ch)    == (CHOOSE n \in 1..16 : Numerals[n] = ch) - 1

\* The value of a text of numerals.
NumberIn(text, base) ==
    LET value[n \in 0..Len(text)] ==
            IF n = 0 THEN 0 ELSE value[n - 1] * base + NumeralValue(text[n])
    IN  value[Len(text)]

Failed == [ok |-> FALSE, set |-> FALSE, out |-> <<>>, next |-> 0]
Unset  == [ok |-> TRUE, set |-> FALSE, out |-> <<>>, next |-> 0]

Read(out, next) == [ok |-> TRUE, set |-> TRUE, out |-> out, next |-> next]

At2(raw, i, text) == i + 1 <= Len(raw) /\ <<raw[i], raw[i + 1]>> = text

From(raw, i) == SubSeq(raw, i, Len(raw))

\* The first position from i on, and at most limit, that is not in S.
After(raw, i, limit, S) ==
    CHOOSE k \in i..limit : /\ k < limit => raw[k] \notin S
                            /\ \A j \in i..(k - 1) : raw[j] \in S

-----------------------------------------------------------------------------
(* Escapes                                                                 *)

ControlOf == [n |-> "\n", s |-> " ", r |-> "\r", t |-> "\t", v |-> "VT",
              f |-> "\f", b |-> "BS", a |-> "BEL", e |-> "ESC"]

OctalDigits == {Numerals[n] : n \in 1..8}

OctalEnd(raw, i) ==
    After(raw, i, IF Len(raw) + 1 < i + 3 THEN Len(raw) + 1 ELSE i + 3,
          OctalDigits)

\* The backslash is at i.
ReadStringEscape(raw, i) ==
    IF i + 1 > Len(raw) THEN Failed
    ELSE LET c == raw[i + 1]
             hex == /\ c = "x" /\ i + 3 <= Len(raw)
                    /\ IsNumeral(raw[i + 2], 16) /\ IsNumeral(raw[i + 3], 16)
             octal == SubSeq(raw, i + 1, OctalEnd(raw, i + 1) - 1)
         IN  CASE c \in DOMAIN ControlOf -> Read(<<ControlOf[c]>>, i + 2)
               [] hex ->
                    Read(<<Byte[NumberIn(SubSeq(raw, i + 2, i + 3), 16)]>>, i + 4)
               [] c \in OctalDigits ->
                    IF NumberIn(octal, 8) > 255 THEN Failed
                    ELSE Read(<<Byte[NumberIn(octal, 8)]>>, OctalEnd(raw, i + 1))
               [] OTHER -> Read(<<c>>, i + 2)

ReadSingleQuotedEscape(raw, i) ==
    IF i + 1 > Len(raw) THEN Failed
    ELSE IF raw[i + 1] \in {"\\", "'"} THEN Read(<<raw[i + 1]>>, i + 2)
    ELSE Read(<<raw[i], raw[i + 1]>>, i + 2)

-----------------------------------------------------------------------------
(* The extent of an expansion                                              *)

\* A quote that an odd number of backslashes precedes does not close.
SkipQuoted(raw, i) ==
    LET run(j) == j - 1 - Max({k \in i..(j - 1) : raw[k] # "\\"})
        closing == {j \in (i + 1)..Len(raw) : raw[j] = raw[i] /\ run(j) % 2 = 0}
    IN  IF closing = {} THEN Failed ELSE Read(<<>>, Min(closing) + 1)

\* MUTANT of ClosingFrom: a brace in quotes closes.
ClosingOfAnyFrom(raw, k, d, closing) ==
    IF k > Len(raw) THEN Failed
    ELSE CASE raw[k] = "\\" -> closing[k + 2][d]
           [] At2(raw, k, <<"$", "{">>) -> closing[k + 2][d + 1]
           [] raw[k] = "}" -> IF d = 1 THEN Read(<<>>, k + 1)
                              ELSE closing[k + 1][d - 1]
           [] OTHER -> closing[k + 1][d]

\* The brace that closes the expansion at depth d, from k on; closing[j] is the
\* same of later positions, at each depth.
ClosingFrom(raw, k, d, closing) ==
    IF k > Len(raw) THEN Failed
    ELSE CASE raw[k] = "\\" -> closing[k + 2][d]
           [] raw[k] \in Quotes ->
                  LET q == SkipQuoted(raw, k)
                  IN  IF q.ok THEN closing[q.next][d] ELSE Failed
           [] At2(raw, k, <<"$", "{">>) -> closing[k + 2][d + 1]
           [] raw[k] = "}" -> IF d = 1 THEN Read(<<>>, k + 1)
                              ELSE closing[k + 1][d - 1]
           [] OTHER -> closing[k + 1][d]

ClosingBrace(raw, i) ==
    LET closing[k \in 1..(Len(raw) + 2)] ==
            [d \in Nat \ {0} |-> ClosingFrom(raw, k, d, closing)]
    IN  closing[i][1]

\* The dollar is at i; the caller has seen to a second one.
ReadExpansion(raw, i) ==
    CASE i + 1 > Len(raw) -> Failed
      [] i + 1 <= Len(raw) /\ IsStart(raw[i + 1]) ->
             LET stop == After(raw, i + 2, Len(raw) + 1,
                               Letters \cup Digits \cup {"."})
             IN  Read(SubSeq(raw, i, stop - 1), stop)
      [] At2(raw, i, <<"$", "{">>) ->
             LET c == ClosingBrace(raw, i + 2)
             IN  IF c.ok THEN Read(SubSeq(raw, i, c.next - 1), c.next)
                 ELSE Failed
      [] OTHER -> Failed
=============================================================================
