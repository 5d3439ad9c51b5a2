------------------------------- MODULE Lexemes -------------------------------
(***************************************************************************)
(* What the lexer is to return: the lexemes of the language, declared      *)
(* without a scanner, and the longest of them at each place of a text.     *)
(***************************************************************************)
EXTENDS Lexer

AllIn(text, S) == \A i \in 1..Len(text) : text[i] \in S

\* An odd number of backslashes stands right before position i.
IsEscaped(text, i) ==
    LET other == {0} \cup {j \in 1..(i - 1) : text[j] # "\\"}
    IN  (i - 1 - Max(other)) % 2 = 1

\* The character that began the text comes back at i, for the first time.
ClosesAt(text, i) ==
    LET closes(j) == text[j] = text[1] /\ ~IsEscaped(text, j)
    IN  closes(i) /\ \A j \in 2..(i - 1) : ~closes(j)

\* An octal escape of a value that no byte has.
IsNoByte(text, i) ==
    /\ text[i] = "\\" /\ ~IsEscaped(text, i) /\ i + 3 <= Len(text)
    /\ text[i + 1] \in {"4", "5", "6", "7"}
    /\ text[i + 2] \in OctalDigits /\ text[i + 3] \in OctalDigits

\* A NUL ends a string unless it is escaped.
IsString(text) ==
    /\ Len(text) > 1 /\ text[1] \in Quotes
    /\ ClosesAt(text, Len(text))
    /\ \A i \in 2..Len(text) : /\ text[i] = NUL => IsEscaped(text, i)
                               /\ text[1] = "\"" => ~IsNoByte(text, i)

\* Two slashes are a comment; a NUL ends a pattern even if it is escaped.
IsRegex(text) ==
    /\ Len(text) > 2 /\ text[1] = "/" /\ text[2] # "/"
    /\ \E i \in 3..Len(text) : /\ ClosesAt(text, i)
                               /\ AllIn(From(text, i + 1), Letters)
                               /\ NUL \notin {text[j] : j \in 2..i}

IsName(text) == /\ IsStart(text[1])
                /\ AllIn(text, Letters \cup Digits \cup {"."})

IsOperator(text) == text \in Pairs \/ (Len(text) = 1 /\ text[1] \in Singles)

IsShell(text) == LET x == ReadExpansion(text, 1)
                 IN  text[1] = "$" /\ x.ok /\ x.next = End(text)

LexemeType(text) ==
    IF text = <<>> THEN "ILLEGAL"
    ELSE CASE IsName(text) -> IF text \in Keywords THEN "KEYWORD" ELSE "IDENT"
           [] AllIn(text, Digits) -> "INT"
           [] IsString(text)      -> "STRING"
           [] IsRegex(text)       -> "REGEXP"
           [] IsOperator(text)    -> "OPERATOR"
           [] IsShell(text)       -> "SHELL"
           [] OTHER               -> "ILLEGAL"

TokenText == SubSeq(input, token.first, token.next - 1)

\* What is left of the text, cut after n characters.
Prefix(n) == SubSeq(input, token.first, token.first + n - 1)

InComment(i) ==
    \E j \in before..i : /\ j + 1 < token.first
                         /\ At2(input, j, <<"/", "/">>)
                         /\ \A k \in j..i : input[k] # "\n"

-----------------------------------------------------------------------------
(* Properties                                                              *)

\* The cursor stays on the text, and a token is a part of it, of at least one
\* character unless it is the end.
LexerTypeOK == /\ position \in 1..End(input) /\ before \in 1..position
               /\ before <= token.first /\ token.next = position
               /\ token.first < token.next \/ token.first = End(input)
                                          \/ token = NoToken

\* A token is the longest lexeme that begins where it begins, and it is
\* illegal only where no lexeme begins.
LongestLexeme ==
    token.type \notin {"none", "EOF"} =>
        LET longer == (token.next - token.first + 1)..(Len(input) - token.first + 1)
        IN  /\ token.type = LexemeType(TokenText)
            /\ \A n \in longer : LexemeType(Prefix(n)) = "ILLEGAL"
            /\ token.type = "ILLEGAL" =>
                   \A n \in 1..Len(TokenText) : LexemeType(Prefix(n)) = "ILLEGAL"

\* Nothing but whitespace and comments is skipped before a token, and what
\* follows the last one is not read only if a NUL in the text hides it.
NothingIsLost ==
    /\ \A i \in before..(token.first - 1) :
           input[i] \in Whitespace \/ InComment(i)
    /\ token.type = "EOF" =>
           token.first = End(input) \/ input[token.first] = NUL

\* A function may be registered under a name just when the lexer reads that
\* name as one identifier, the only callee the parser accepts.
RegisteredNamesAreCallable ==
    before = 1 /\ token # NoToken =>
        (ValidFunctionName(input)
           <=> /\ token.type = "IDENT" /\ TokenText = input
               /\ ~BadlyDotted(TokenText))

\* Every text comes to its end.
EveryTextEnds == <>(token.type = "EOF")
=============================================================================
