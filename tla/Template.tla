------------------------------ MODULE Template ------------------------------
(***************************************************************************)
(* What a user writes with shell-style substitution, and what is meant: a  *)
(* template is a sequence of pieces, Written as a text and given a Meaning *)
(* without looking at that text.  The text is an operand or the inside of  *)
(* a string; the lexer reads one token from it, the evaluator its value in *)
(* some environment.  A text of any other kind is read to its end and not  *)
(* evaluated.                                                              *)
(*                                                                         *)
(* The fields of a piece, after its type t:                                *)
(*   text     s                       plain text                           *)
(*   escaped  c, s                    a backslash and c, which mean s      *)
(*   dollars                          $$                                   *)
(*   plain    name, s                 $name, and s that begins with a dot  *)
(*   braced   name, op, colon, word   ${name}, ${name:-word} and so on     *)
(*   sub      name, x, y              ${name:x} or ${name:x:y}             *)
(*   quoted   q, word                 a word in quotes q                   *)
(***************************************************************************)
EXTENDS Lexemes, ShellText

LOCAL INSTANCE SequencesExt

CONSTANTS Operands, Strings,  \* the templates of each place
          Environments        \* the variables there may be

VARIABLES template, place, env, result

tvars == <<template, place, env, result, lvars>>

Text(s)          == [t |-> "text", s |-> s]
Escaped(c, s)    == [t |-> "escaped", c |-> c, s |-> s]
Dollars          == [t |-> "dollars"]
Plain(name, s)   == [t |-> "plain", name |-> name, s |-> s]
Quoted(q, word)  == [t |-> "quoted", q |-> q, word |-> word]
Sub(name, x, y)  == [t |-> "sub", name |-> name, x |-> x, y |-> y]
Braced(name, op, colon, word) ==
    [t |-> "braced", name |-> name, op |-> op, colon |-> colon, word |-> word]

\* The length of ${name:x} is left out.
NoLength == <<>>

RECURSIVE Written(_)
Written(word) ==
    LET written(p) ==
            CASE p.t = "text"    -> p.s
              [] p.t = "escaped" -> <<"\\", p.c>>
              [] p.t = "dollars" -> <<"$", "$">>
              [] p.t = "plain"   -> <<"$">> \o p.name \o p.s
              [] p.t = "quoted"  -> <<p.q>> \o Written(p.word) \o <<p.q>>
              [] p.t = "braced"  ->
                     <<"$", "{">> \o p.name \o (IF p.colon THEN <<":">> ELSE <<>>)
                         \o p.op \o Written(p.word) \o <<"}">>
              [] p.t = "sub" ->
                     <<"$", "{">> \o p.name \o <<":">> \o Written(p.x)
                         \o (IF p.y = NoLength THEN <<>>
                             ELSE <<":">> \o Written(p.y)) \o <<"}">>
    IN  FlattenSeq([i \in 1..Len(word) |-> written(word[i])])

-----------------------------------------------------------------------------
(* What a template means                                                   *)

\* The characters of text at the places, counted from zero, that are at or
\* after the offset x and before the end; none if the end is out of range.
InRange(n, x, y, p) ==
    LET start == IF x < 0 THEN IF n + x < 0 THEN 0 ELSE n + x ELSE x
    IN  /\ p >= start
        /\ y < 0  => p < n + y
        /\ y >= 0 => p < start + y /\ start + y <= MaxInt

RangeOf(text, x, y) ==
    LET places == SelectSeq([i \in 1..Len(text) |-> i],
                            LAMBDA i : InRange(Len(text), x, y, i - 1))
    IN  [i \in 1..Len(places) |-> text[places[i]]]

RECURSIVE Meaning(_, _)

MeaningOfSub(p, e) ==
    LET x == Meaning(p.x, e)
        y == Meaning(p.y, e)
        v == Lookup(p.name, e)
        n(r) == ParseInteger(TrimSpace(r.out))
        good(r) == r.ok /\ n(r).ok
        rest == RangeOf(v.out, n(x).n, Len(v.out))
    IN  IF ~good(x) THEN Failed
        ELSE IF ~v.set THEN Unset
        ELSE IF p.y = NoLength \/ rest = <<>> THEN Read(rest, 0)
        ELSE IF good(y) THEN Read(RangeOf(v.out, n(x).n, n(y).n), 0)
        ELSE Failed

MeaningOfBraced(p, e) ==
    LET v      == Lookup(p.name, e)
        usable == v.set /\ ~(p.colon /\ v.out = <<>>)
        word   == Meaning(p.word, e)
    IN  CASE p.op = <<>> -> v
          [] p.op # <<>> /\ usable -> IF p.op = <<"+">> THEN word ELSE v
          [] OTHER -> CASE p.op = <<"+">> -> Read(<<>>, 0)
                        [] p.op = <<"-">> -> word
                        [] p.op = <<"?">> -> Failed

MeaningOf(p, e) ==
    CASE p.t \in {"text", "escaped"} -> Read(p.s, 0)
      [] p.t = "dollars" -> Read(<<"$">>, 0)
      [] p.t = "quoted" -> Meaning(p.word, e)
      [] p.t = "plain" -> LET v == Lookup(p.name, e)
                          IN  IF p.s = <<>> THEN v ELSE Read(v.out \o p.s, 0)
      [] p.t = "braced" -> MeaningOfBraced(p, e)
      [] p.t = "sub" -> MeaningOfSub(p, e)

\* A piece that is unset adds nothing, one that fails fails them all.
Meaning(word, e) ==
    LET m == [i \in 1..Len(word) |-> MeaningOf(word[i], e)]
    IN  IF \E i \in 1..Len(word) : ~m[i].ok THEN Failed
        ELSE Read(FlattenSeq([i \in 1..Len(word) |-> m[i].out]), 0)

-----------------------------------------------------------------------------
(* What the evaluator makes of it                                          *)

Pending == [Failed EXCEPT !.next = 1]

\* A double-quoted literal is evaluated again, from its text, if it needs it.
EvalStringLiteral(raw, lit, e) ==
    IF ContainsTemplate(raw) THEN EvalString(raw, e) ELSE Read(lit, 0)

ValueOf(text, tok, e) ==
    CASE tok.type = "SHELL"  -> EvalRaw(tok.lit, e)
      [] tok.type = "STRING" ->
             EvalStringLiteral(SubSeq(text, tok.first + 1, tok.next - 2),
                               tok.lit, e)
      [] OTHER -> Failed

NoTemplate == <<>>

TInit == /\ \/ /\ place = "operand" /\ template \in Operands
               /\ StartOf(Written(template))
            \/ /\ place = "string" /\ template \in Strings
               /\ StartOf(<<"\"">> \o Written(template) \o <<"\"">>)
            \/ /\ place = "any" /\ template = NoTemplate
               /\ New
         /\ env = <<>>
         /\ result = Pending

ReadToken == NextToken /\ UNCHANGED <<template, place, env, result>>

\* The first token of a template is evaluated.
Evaluate == /\ place # "any" /\ result = Pending
            /\ before = 1 /\ token # NoToken
            /\ env' \in Environments
            /\ result' = [ValueOf(input, token, env') EXCEPT !.next = 0]
            /\ UNCHANGED <<template, place, lvars>>

TNext == ReadToken \/ Evaluate

TSpec == TInit /\ [][TNext]_tvars /\ WF_lvars(NextToken)

-----------------------------------------------------------------------------
(* Properties                                                              *)

\* The value is that of the first token, the last one read.
Evaluated == result # Pending /\ before = 1

Meant == IF place = "operand" THEN MeaningOf(template[1], env)
         ELSE Meaning(template, env)

\* An expansion, and a string with expansions in it, is one token that ends
\* where it was written to end, and its value is what its pieces mean.
EvaluatesToMeaning ==
    Evaluated => /\ token.first = 1 /\ token.next = End(input)
                 /\ result = [Meant EXCEPT !.next = 0]

\* A double-quoted string interpolates what is written in it: an apostrophe
\* is a character of the string, wherever there is an expansion too.
DoubleQuotedStringsInterpolate ==
    Evaluated /\ place = "string" => result.ok /\ result.out = Meant.out

\* A string that the static checks take for constant, for it holds no
\* expansion, has the same value in every environment.
StaticStringsAreConstant ==
    Evaluated /\ place = "string"
              /\ ~ContainsExpansionFrom(Written(template), 1) =>
        \A e \in Environments : ValueOf(input, token, e).out = result.out
=============================================================================
