-------------------------------- MODULE Lexer --------------------------------
(***************************************************************************)
(* The lexer, internal/lexer, one call of NextToken at a time.  The        *)
(* character at the cursor is NUL at the end of the text; a text may hold  *)
(* that character too.                                                     *)
(*                                                                         *)
(*   input     the text                                                    *)
(*   position  the cursor, at most one past the text                       *)
(*   before    the cursor before the last call of NextToken                *)
(*   token     what that call returned: the type, the positions of its     *)
(*             first character and of the character after its last, and    *)
(*             the text of its literal, escapes replaced                   *)
(***************************************************************************)
EXTENDS ShellScan

CONSTANTS Inputs,  \* the texts
          NUL      \* the character whose code is zero

VARIABLES input, position, before, token

lvars == <<input, position, before, token>>

Min2(i, j) == IF i < j THEN i ELSE j

Tok(type, first, next, lit) ==
    [type |-> type, first |-> first, next |-> next, lit |-> lit]

Char(text, p) == IF p \in 1..Len(text) THEN text[p] ELSE NUL

End(text) == Len(text) + 1

Whitespace == {" ", "\t", "\n", "\r"}

ASSUME InputsAssumption == Inputs \subseteq Seq(STRING)

\* What an operator begins with.
OperatorCharacters == {"=", "!", "&", "|", ",", ".", "?", ":", "(", ")", "[", "]"}

ASSUME CharactersAssumption ==
    /\ NUL \notin Whitespace \cup Quotes \cup {"$", "/", "\\"}
                     \cup OperatorCharacters \cup {Numerals[n] : n \in 1..16}
    /\ (Letters \cup Digits) \cap (Whitespace \cup Quotes \cup {"$", "{", "/", NUL}
                                       \cup OperatorCharacters) = {}
    /\ Letters \cap Digits = {}

-----------------------------------------------------------------------------
(* What is between the tokens                                              *)

SkipWhitespace(text, p) == After(text, p, End(text), Whitespace)

EndOfLine(text, p) ==
    CHOOSE q \in p..End(text) : /\ Char(text, q) \in {"\n", NUL}
                               /\ \A i \in p..(q - 1) : text[i] \notin {"\n", NUL}

IsComment(text, p) == Char(text, p) = "/" /\ Char(text, p + 1) = "/"

\* MUTANT of SkipComment: a comment is all that is left of the text.
SkipCommentToEnd(text, p) == IF IsComment(text, p) THEN End(text) ELSE p

\* A comment ends at the end of its line; more comments may follow.
SkipComment(text, p) ==
    LET skip[q \in 1..End(text)] ==
            IF ~IsComment(text, q) THEN q
            ELSE skip[SkipWhitespace(text, EndOfLine(text, q))]
    IN  skip[p]

-----------------------------------------------------------------------------
(* Each kind of token, from its first character on                         *)

Pairs   == {<<"=", "=">>, <<"=", "~">>, <<"!", "=">>, <<"!", "~">>,
            <<"&", "&">>, <<"|", "|">>}
Singles == {"!", ",", ".", "?", ":", "(", ")", "[", "]"}

\* MUTANT of ReadEscape: the quote after a backslash ends the string.
ReadEscapeOfQuote(text, p, quote) ==
    IF Char(text, p + 1) = quote THEN Read(<<"\\">>, p + 1)
    ELSE ReadStringEscape(text, p)

ReadEscape(text, p, quote) == IF quote = "'" THEN ReadSingleQuotedEscape(text, p)
                              ELSE ReadStringEscape(text, p)

Unterminated(q) == [ok |-> FALSE, out |-> <<>>, next |-> q]

\* The rest of a string from p on, given the rest from later positions on: ok
\* says that it is terminated.  An escape that cannot be read takes the rest of
\* the text with it.
StringFrom(text, p, quote, rest) ==
    LET e == ReadEscape(text, p, quote)
        after(out, q) == [rest[q] EXCEPT !.out = out \o @]
    IN  CASE Char(text, p) = NUL   -> Unterminated(Min2(p + 1, End(text)))
          [] Char(text, p) = quote -> [ok |-> TRUE, out |-> <<>>, next |-> p + 1]
          [] Char(text, p) = "\\" -> IF e.ok THEN after(e.out, e.next)
                                     ELSE Unterminated(End(text))
          [] OTHER -> after(<<text[p]>>, p + 1)

\* The literal of a string that is not terminated, its raw text in the code,
\* is read by nobody: the parser has no use for an illegal token.
ReadString(text, p) ==
    LET rest[q \in 1..End(text)] == StringFrom(text, q, text[p], rest)
        s == rest[p + 1]
    IN  Tok(IF s.ok THEN "STRING" ELSE "ILLEGAL", p, s.next, s.out)

\* The slash that ends a regular expression, or the NUL that cuts it off.
RegexEnd(text, p) ==
    LET end[q \in 1..End(text)] ==
            [escaped \in BOOLEAN |->
                IF Char(text, q) = NUL \/ (text[q] = "/" /\ ~escaped) THEN q
                ELSE end[q + 1][text[q] = "\\" /\ ~escaped]]
    IN  end[p][FALSE]

ReadRegex(text, p) ==
    LET q     == RegexEnd(text, p + 1)
        flags == After(text, q + 1, End(text), Letters)
        lit   == SubSeq(text, p + 1, q - 1)
    IN  IF Char(text, q) = NUL
        THEN Tok("ILLEGAL", p, Min2(q + 1, End(text)), lit)
        ELSE Tok("REGEXP", p, flags, lit)

\* MUTANT of InvalidShellEnd: the cursor is left at the dollar.
InvalidShellEndAtDollar(text, p) == p

\* MUTANT of InvalidShellEnd: the end within the token, not within the text.
InvalidShellEndInToken(text, p) ==
    IF p + 1 > Len(text) \/ Char(text, p + 1) = "{" THEN End(text) ELSE 3

\* How much of a text is a dollar that begins no expansion.
InvalidShellEnd(text, p) ==
    IF p + 1 > Len(text) \/ Char(text, p + 1) = "{" THEN End(text) ELSE p + 2

ReadShell(text, p) ==
    LET x == ReadExpansion(text, p)
        next == IF x.ok THEN x.next ELSE InvalidShellEnd(text, p)
    IN  Tok(IF x.ok THEN "SHELL" ELSE "ILLEGAL", p, next,
            SubSeq(text, p, next - 1))

\* The four keywords are types of their own, here one.
ReadIdentifier(text, p) ==
    LET next == After(text, p, End(text), Letters \cup Digits \cup {"."})
        word == SubSeq(text, p, next - 1)
    IN  Tok(IF word \in Keywords THEN "KEYWORD" ELSE "IDENT", p, next, word)

ReadNumber(text, p) ==
    LET next == After(text, p, End(text), Digits)
    IN  Tok("INT", p, next, SubSeq(text, p, next - 1))

ReadOperator(text, p) ==
    LET pair == \E s \in Pairs : At2(text, p, s)
        next == IF pair THEN p + 2 ELSE p + 1
    IN  Tok(IF pair \/ text[p] \in Singles THEN "OPERATOR" ELSE "ILLEGAL",
            p, next, SubSeq(text, p, next - 1))

TokenAt(text, p) ==
    LET ch == Char(text, p)
    IN  CASE ch = NUL           -> Tok("EOF", p, Min2(p + 1, End(text)), <<>>)
          [] ch = "$"           -> ReadShell(text, p)
          [] ch \in Quotes      -> ReadString(text, p)
          [] ch = "/"           -> ReadRegex(text, p)
          [] IsStart(ch)        -> ReadIdentifier(text, p)
          [] ch \in Digits      -> ReadNumber(text, p)
          [] OTHER              -> ReadOperator(text, p)

\* The first token at or after p.
TokenFrom(text, p) ==
    TokenAt(text, SkipComment(text, SkipWhitespace(text, p)))

-----------------------------------------------------------------------------
NoToken == Tok("none", 1, 1, <<>>)

StartOf(text) == /\ input = text
                 /\ position = 1 /\ before = 1
                 /\ token = NoToken

New == \E text \in Inputs : StartOf(text)

NextToken == /\ token' = TokenFrom(input, position)
             /\ position' = token'.next
             /\ before' = position
             /\ UNCHANGED input

\* The parser calls NextToken until it has seen the end of the text.
LexerSpec == New /\ [][NextToken]_lvars /\ WF_lvars(NextToken)
=============================================================================
