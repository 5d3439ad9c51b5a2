----------------------------- MODULE MCTemplate -----------------------------
(***************************************************************************)
(* Templates two expansions deep, and the variables they may meet; and     *)
(* every text of at most four characters, for the lexer alone.  Here nn    *)
(* stands for the four keywords, and a byte that is none of the characters *)
(* is called by its code.                                                  *)
(***************************************************************************)
EXTENDS Template, TLC

MCLetters == {"a", "b", "n", "x"}

MCKeywords == {<<"n", "n">>}

MCByte == [b \in 0..255 |-> ToString(b)]

A == <<"a">>
B == <<"b">>

SeqsOf(S, n) == UNION {[1..k -> S] : k \in 0..n}

\* A name that a letter follows would be a longer name.
Apart(words) ==
    {w \in words : \A i \in 1..(Len(w) - 1) :
                       w[i].t = "plain" => w[i + 1].t # "text"}

\* A value may hold what would be an expansion or a quote if it were read.
Values == {<<>>, <<"b">>, <<"$", "a">>, <<"'", "}">>}

TextEnvironments ==
    UNION {[dom -> Values] : dom \in {{}, {A}}}
        \cup [{A, B} -> {<<>>, <<"n">>}] \cup [{B} -> {<<"\"">>}]

Atoms == {Text(<<"b">>), Text(<<":">>), Escaped("}", <<"}">>),
          Escaped("'", <<"'">>), Escaped("n", <<"\n">>), Dollars,
          Plain(A, <<>>), Plain(A, <<".", "b">>)}

SingleQuoted == {Quoted("'", <<>>)} \cup
    {Quoted("'", <<w>>) : w \in {Text(<<"}">>), Text(<<"$", "a">>)}}

DoubleQuoted == {Quoted("'", <<Text(<<"\"">>)>>)} \cup
    {Quoted("\"", <<w>>) :
        w \in {Text(<<"}">>), Text(<<"'">>), Escaped("\"", <<"\"">>),
               Plain(A, <<>>)}}

BracedOf(names, words) ==
    {Braced(n, op, c, w) : n \in names, op \in {<<"-">>, <<"+">>, <<"?">>},
                           c \in BOOLEAN, w \in words}

Shallow(quoted) ==
    {Braced(n, <<>>, FALSE, <<>>) : n \in {A, B}}
        \cup BracedOf({A, B}, Apart(SeqsOf(Atoms \cup quoted, 2)))

Deep(quoted) ==
    BracedOf({A}, {<<p>> : p \in BracedOf({B}, SeqsOf(Atoms \cup quoted, 1))})

\* A double quote in a string would end it.
TextOperands == {<<p>> : p \in Shallow(SingleQuoted \cup DoubleQuoted)
                               \cup Deep(SingleQuoted \cup DoubleQuoted)
                               \cup {Plain(A, <<>>), Plain(A, <<".", "b">>)}}

StringAtoms == Atoms \cup {Text(<<"}">>), Text(<<"{">>), Text(<<"$", " ">>)}

TextStrings ==
    Apart(SeqsOf(StringAtoms, 3))
        \cup {<<p>> : p \in Deep(SingleQuoted)}
        \cup {<<p, q>> : p \in Shallow(SingleQuoted),
                         q \in {Text(<<"}">>), Plain(A, <<>>)}}

\* Strings of English, where an apostrophe is text.
ApostropheStrings ==
    SeqsOf({Text(<<"b">>), Text(<<"'">>), Plain(A, <<>>), Dollars}, 3)

-----------------------------------------------------------------------------
(* Substrings: every offset and length of the type, and some that are the  *)
(* value of another expansion, or no integers.                             *)

Numeral(n) == Text(IF n < 0 THEN <<"-", Numerals[-n + 1]>>
                   ELSE <<Numerals[n + 1]>>)

Integers4Bit == {<<Numeral(n)>> : n \in -8..8}

\* A minus right after the colon would be an operator.
Offsets == {IF n < 0 THEN <<Text(<<" ">>), Numeral(n)>> ELSE <<Numeral(n)>> :
                n \in -8..8}

Computed == {<<Braced(B, <<"-">>, TRUE, <<Numeral(1)>>)>>,
             <<Text(<<" ">>), Numeral(1), Text(<<" ">>)>>,
             <<Plain(B, <<>>)>>, <<Sub(B, <<Numeral(0)>>, <<Numeral(1)>>)>>,
             <<Quoted("'", <<Numeral(1)>>)>>, <<Text(<<"n">>)>>}

Substrings == {<<Sub(A, x, y)>> : x \in Offsets \cup Computed,
                   y \in Integers4Bit \cup Computed \cup {NoLength}}

SubstringEnvironments ==
    {(A :> v) @@ e : v \in {<<>>, <<"n">>, <<"n", "a", "b", "a">>},
                     e \in {<<>>, (B :> <<>>), (B :> <<"2">>), (B :> <<"a">>)}}
        \cup {<<>>}

-----------------------------------------------------------------------------
(* Texts for the lexer alone                                               *)

Alphabet == {"a", "n", "x", "1", ".", " ", "\n", "/", "\\", "'", "\"", "$",
             "{", "}", "=", "!"}

\* Texts in which the character NUL may stand.
NulTexts == {<<"a">> \o t : t \in SeqsOf({"a", " ", "1", "NUL"}, 3)}
                \cup {<<q>> \o t : q \in {"/", "'", "\""},
                                   t \in SeqsOf({"NUL", "\\", "/", "'", "\""}, 3)}

\* Octal escapes, of which a byte has the values up to \377.
OctalTexts == {<<q, "\\">> \o t : q \in {"'", "\""},
                                  t \in SeqsOf({"1", "4", "\"", "'"}, 4)}

MCInputs == SeqsOf(Alphabet, 4) \cup NulTexts \cup OctalTexts

MCOperands     == TextOperands \cup Substrings
MCStrings      == TextStrings \cup Substrings
MCEnvironments == TextEnvironments \cup SubstringEnvironments
=============================================================================
