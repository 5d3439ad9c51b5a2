------------------------------ MODULE ShellText ------------------------------
(***************************************************************************)
(* Shell-style substitution, internal/shell, from the text on: what an     *)
(* expansion is made of and what it evaluates to, nested words included.   *)
(***************************************************************************)
EXTENDS ShellScan

CONSTANT MaxInt  \* the largest value of the type int

ASSUME MaxIntAssumption == MaxInt \in Nat

\* The positions of the colons that are in no expansion and no quotes.
RECURSIVE Colons(_, _, _)
Colons(raw, i, depth) ==
    IF i > Len(raw) THEN <<>>
    ELSE CASE raw[i] = "\\" -> Colons(raw, i + 2, depth)
           [] raw[i] \in Quotes ->
                  LET q == SkipQuoted(raw, i)
                  IN  Colons(raw, IF q.ok THEN q.next ELSE i + 1, depth)
           [] At2(raw, i, <<"$", "{">>) -> Colons(raw, i + 2, depth + 1)
           [] raw[i] = "}" /\ depth > 0 -> Colons(raw, i + 1, depth - 1)
           [] raw[i] = ":" /\ depth = 0 -> <<i>> \o Colons(raw, i + 1, depth)
           [] OTHER -> Colons(raw, i + 1, depth)

\* MUTANT of ContainsExpansionFrom: only the first dollar is looked at.
ContainsExpansionAtFirst(raw, i) ==
    \E k \in i..Len(raw) : /\ raw[k] = "$" /\ ReadExpansion(raw, k).ok
                           /\ \A j \in i..(k - 1) : raw[j] # "$"

RECURSIVE ContainsExpansionFrom(_, _)
ContainsExpansionFrom(raw, i) ==
    /\ i <= Len(raw)
    /\ CASE At2(raw, i, <<"$", "$">>) -> ContainsExpansionFrom(raw, i + 2)
         [] raw[i] = "$" /\ ~At2(raw, i, <<"$", "$">>) ->
                \/ ReadExpansion(raw, i).ok
                \/ ContainsExpansionFrom(raw, i + 1)
         [] raw[i] = "\\" ->
                LET e == ReadStringEscape(raw, i)
                IN  ContainsExpansionFrom(raw, IF e.ok THEN e.next ELSE i + 1)
         [] OTHER -> ContainsExpansionFrom(raw, i + 1)

\* A text whose value depends on the environment, or that holds a $$.
ContainsTemplate(raw) == \/ \E i \in 1..Len(raw) : At2(raw, i, <<"$", "$">>)
                         \/ ContainsExpansionFrom(raw, 1)

-----------------------------------------------------------------------------
(* The value of an expansion in env, a function from names to texts        *)

Lookup(name, env) == IF name \in DOMAIN env THEN Read(env[name], 0) ELSE Unset

NameEnd(text) == After(text, 1, Len(text) + 1, Letters \cup Digits)

Named(text) == text # <<>> /\ IsStart(text[1])

Blank == {" ", "\t", "\n", "\r", "\f", "VT"}

TrimSpace(text) ==
    LET ink == {i \in 1..Len(text) : text[i] \notin Blank}
    IN  IF ink = {} THEN <<>> ELSE SubSeq(text, Min(ink), Max(ink))

\* The integer a text stands for, within the range of the type.
ParseInteger(text) ==
    LET minus  == text # <<>> /\ text[1] = "-"
        digits == IF minus THEN Tail(text) ELSE text
        value  == IF minus THEN -NumberIn(digits, 10) ELSE NumberIn(digits, 10)
    IN  IF /\ digits # <<>>
           /\ \A i \in 1..Len(digits) : IsNumeral(digits[i], 10)
           /\ value \in (-MaxInt - 1)..MaxInt
        THEN [ok |-> TRUE, n |-> value] ELSE [ok |-> FALSE, n |-> 0]

\* MUTANT of Plus: integers without a bound.
PlusUnbounded(x, y) == x + y

\* The sum of two integers of the type.
Plus(x, y) == ((x + y + MaxInt + 1) % (2 * MaxInt + 2)) - MaxInt - 1

\* The offset that x stands for: a negative one counts from the end.
Offset(text, x) == IF x >= 0 THEN x ELSE Max({0, Len(text) + x})

\* MUTANT of EndAfter: a negative length is added to the offset.
EndAfterOffset(text, from, y) == Plus(from, y)

\* The end of y characters, or of all but the last -y.
EndAfter(text, from, y) == IF y < 0 THEN Len(text) + y ELSE Plus(from, y)

\* The characters from an offset to an end, as far as there are any.
Cut(text, from, end) ==
    IF from >= Len(text) THEN <<>>
    ELSE SubSeq(text, from + 1, Max({from, Min({Len(text), end})}))

RECURSIVE EvalFrom(_, _, _, _)

EvalString(raw, env) == EvalFrom(raw, 1, "", env)

IntegerOf(v) ==
    IF v.ok THEN ParseInteger(TrimSpace(v.out)) ELSE [ok |-> FALSE, n |-> 0]

EvalInteger(raw, env) == IntegerOf(EvalString(raw, env))

\* The length y is evaluated only if it is given and something is left to cut.
Substring(base, x, given, y) ==
    LET from == Offset(base.out, x.n)
        cut  == given /\ from < Len(base.out)
    IN  CASE ~x.ok -> Failed
          [] x.ok /\ ~base.set -> Unset
          [] x.ok /\ base.set /\ cut /\ ~y.ok -> Failed
          [] OTHER -> Read(Cut(base.out, from,
                               IF cut THEN EndAfter(base.out, from, y.n)
                               ELSE Len(base.out)), 0)

SubstringAt(colons, name, raw, env) ==
    LET given == colons # <<>>
        end   == IF given THEN colons[1] - 1 ELSE Len(raw)
    IN  IF Len(colons) > 1 THEN Failed
        ELSE Substring(Lookup(name, env),
                       EvalInteger(SubSeq(raw, 1, end), env),
                       given, EvalInteger(From(raw, end + 2), env))

EvalSubstring(name, raw, env) ==
    SubstringAt(Colons(raw, 1, 0), name, raw, env)

Operator(op, base, set, value) ==
    CASE op = "?" -> IF set THEN base ELSE Failed
      [] op = "+" -> IF set THEN value ELSE Read(<<>>, 0)
      [] op = "-" -> IF set THEN base ELSE value
      [] OTHER    -> Failed

\* What the word of an operator adds; colon makes an empty value count as unset.
EvalOperator(name, op, colon, word, env) ==
    LET base == Lookup(name, env)
    IN  Operator(op, base, base.set /\ (colon => base.out # <<>>),
                 EvalString(word, env))

EvalBraced(inner, env) ==
    LET name == SubSeq(inner, 1, NameEnd(inner) - 1)
        rest == From(inner, NameEnd(inner))
        colon == rest[1] = ":"
        operator(i) == i <= Len(rest) /\ rest[i] \in {"-", "+", "?"}
    IN  CASE ~Named(inner) -> Failed
          [] Named(inner) /\ rest = <<>> -> Lookup(name, env)
          [] Named(inner) /\ rest # <<>> /\ colon /\ ~operator(2) ->
                 EvalSubstring(name, Tail(rest), env)
          [] OTHER ->
                 LET at == IF colon THEN 2 ELSE 1
                 IN  EvalOperator(name, rest[at], colon, From(rest, at + 1), env)

\* A name may be followed by text that begins with a dot.
EvalRaw(raw, env) ==
    LET inner == Tail(raw)
        name  == SubSeq(inner, 1, NameEnd(inner) - 1)
        rest  == From(inner, NameEnd(inner))
        value == Lookup(name, env)
    IN  CASE At2(raw, 1, <<"$", "{">>) /\ raw[Len(raw)] = "}" ->
                 EvalBraced(SubSeq(raw, 3, Len(raw) - 1), env)
          [] inner[1] # "{" /\ Named(inner) ->
                 IF rest = <<>> THEN value ELSE Read(value.out \o rest, 0)
          [] OTHER -> Failed

\* What an expansion x at i adds; v is its value.
Expanded(i, x, v) == CASE ~x.ok         -> Read(<<"$">>, i + 1)
                       [] x.ok /\ v.ok  -> Read(v.out, x.next)
                       [] x.ok /\ ~v.ok -> Failed

\* The piece of a text that begins at i: an expansion that is unset adds
\* nothing.  quote is the quote that i is in, "" for none.
PieceAt(raw, i, quote, env) ==
    LET x == ReadExpansion(raw, i)
    IN  CASE quote = "'" /\ raw[i] = "\\" -> ReadSingleQuotedEscape(raw, i)
          [] quote = "'" /\ raw[i] # "\\" -> Read(<<raw[i]>>, i + 1)
          [] quote = "" /\ raw[i] \in Quotes -> EvalFrom(raw, i + 1, raw[i], env)
          [] quote # "'" /\ At2(raw, i, <<"$", "$">>) -> Read(<<"$">>, i + 2)
          [] quote # "'" /\ raw[i] = "$" /\ ~At2(raw, i, <<"$", "$">>) ->
                 Expanded(i, x, EvalRaw(x.out, env))
          [] quote # "'" /\ raw[i] = "\\" -> ReadStringEscape(raw, i)
          [] OTHER -> Read(<<raw[i]>>, i + 1)

Joined(p, rest) == IF p.ok /\ rest.ok THEN Read(p.out \o rest.out, rest.next)
                   ELSE Failed

EvalFrom(raw, i, quote, env) ==
    IF i > Len(raw) THEN IF quote = "" THEN Read(<<>>, i) ELSE Failed
    ELSE IF raw[i] = quote THEN Read(<<>>, i + 1)
    ELSE LET p == PieceAt(raw, i, quote, env)
         IN  Joined(p, EvalFrom(raw, p.next, quote, env))
=============================================================================
