------------------------------- MODULE Grammar -------------------------------
(***************************************************************************)
(* The grammar that the precedences of the parser stand for, written down  *)
(* as one: ternaries of disjunctions of conjunctions of comparisons of     *)
(* negations of calls, with the tree of every sentence.                    *)
(*                                                                         *)
(*   expr   ::=  or  |  or ? expr : expr                                   *)
(*   or     ::=  and  |  or || and                                         *)
(*   and    ::=  eq  |  and && eq                                          *)
(*   eq     ::=  unary  |  eq == unary                                     *)
(*   unary  ::=  call  |  ! unary                                          *)
(*   call   ::=  literal | ( expr ) | [ list ] | callee ( list )           *)
(*                                                                         *)
(* A callee is a call that is a name.  Sentences of the grammar are made   *)
(* in the order of their lengths: a phrase is a sentence with its tree.    *)
(***************************************************************************)
EXTENDS Parser

Tree(op, tok, kids) == [op |-> op, tok |-> tok, kids |-> kids]

Phrase(toks, tree) == [toks |-> toks, tree |-> tree]

Accepted(words, types) == {t \in words.tokens \ Refused : t.type \in types}

Symbol(x) == [type |-> x, lit |-> x]

Literals(words) == {Phrase(<<t>>, Tree(LeafOf(t.type), t.lit, <<>>)) :
                        t \in Accepted(words, LeafTypes)}

\* P[i] holds the phrases of i tokens, by sort; this adds those of one more.
NextLength(words, P) ==
    LET n == Len(P) + 1
        Of(sort, i) == IF i \in 1..Len(P) THEN P[i][sort] ELSE {}
        List(i)     == IF i = 0 THEN {Phrase(<<>>, <<>>)} ELSE Of("list", i)
        Infix(a, types, b) ==
            UNION {{Phrase(l.toks \o <<t>> \o r.toks,
                           Tree("Infix", t.lit, <<l.tree, r.tree>>)) :
                        l \in Of(a, i), t \in Accepted(words, types),
                        r \in Of(b, n - 1 - i)} : i \in 1..(n - 2)}
        Between(open, p, close) ==
            <<Symbol(open)>> \o p.toks \o <<Symbol(close)>>
        callees(i) == {c \in Of("call", i) : c.tree.op = "Identifier"}
        call ==
            (IF n = 1 THEN Literals(words) ELSE {})
            \cup {Phrase(Between("(", e, ")"), e.tree) : e \in Of("expr", n - 2)}
            \cup {Phrase(Between("[", l, "]"), Tree("Array", "[", l.tree)) :
                      l \in List(n - 2)}
            \cup UNION {{Phrase(c.toks \o Between("(", l, ")"),
                                Tree("Call", c.tree.tok, l.tree)) :
                            c \in callees(i), l \in List(n - 2 - i)} :
                        i \in 1..(n - 2)}
        unary == call \cup {Phrase(<<Symbol("!")>> \o p.toks,
                                   Tree("Prefix", "!", <<p.tree>>)) :
                               p \in Of("unary", n - 1)}
        eq    == unary \cup Infix("eq", BinaryTypes \ LogicalOperators, "unary")
        and   == eq    \cup Infix("and", {"&&"}, "eq")
        or    == and   \cup Infix("or", {"||"}, "and")
        expr  == or \cup
            UNION {{Phrase(c.toks \o <<Symbol("?")>> \o a.toks
                                  \o <<Symbol(":")>> \o b.toks,
                           Tree("Ternary", "?", <<c.tree, a.tree, b.tree>>)) :
                        c \in Of("or", i), a \in Of("expr", j),
                        b \in Of("expr", n - 2 - i - j)} :
                   i \in 1..n, j \in 1..n}
        list  == {Phrase(e.toks, <<e.tree>>) : e \in expr} \cup
            UNION {{Phrase(l.toks \o <<Symbol(",")>> \o e.toks,
                           Append(l.tree, e.tree)) :
                        l \in Of("list", i), e \in Of("expr", n - 1 - i)} :
                   i \in 1..(n - 2)}
    IN  Append(P, [call |-> call, unary |-> unary, eq |-> eq, and |-> and,
                   or |-> or, expr |-> expr, list |-> list])

RECURSIVE PhrasesUpTo(_, _)
PhrasesUpTo(words, n) ==
    IF n = 0 THEN <<>> ELSE NextLength(words, PhrasesUpTo(words, n - 1))

AllWords == UNION {{words[g] : g \in DOMAIN words} : words \in Scenarios}

\* The sentences of these words, and the texts that begin one.
LanguageOf(words) ==
    LET P == PhrasesUpTo(words, words.max)
        S == UNION {P[n].expr : n \in 1..words.max}
    IN  [words |-> words, phrases |-> S,
         beginnings |-> UNION {{SubSeq(p.toks, 1, k) : k \in 0..Len(p.toks)} :
                                   p \in S}]

Languages == {LanguageOf(words) : words \in AllWords}

Language(words) == CHOOSE l \in Languages : l.words = words

TreesOf(language, toks) ==
    {p.tree : p \in {q \in language.phrases : q.toks = toks}}

\* The tree at node n of a table.
RECURSIVE TreeAt(_, _)
TreeAt(t, n) == Tree(t[n].op, t[n].tok,
                     [k \in 1..Len(t[n].kids) |-> TreeAt(t, t[n].kids[k])])

-----------------------------------------------------------------------------
(* Properties                                                              *)

TextOf(s)  == SelectSeq(s.text, LAMBDA t : t # EOF)
ReadAll(s) == Peek(s) = EOF

\* The parser accepts the sentences of the grammar and nothing else, and the
\* tree it builds is the only one the grammar gives the text; when it reports
\* an error, what it has read cannot be completed to a sentence.
ParsesTheGrammar ==
    \A g \in DOMAIN parser :
        LET s == parser[g]
            trees == TreesOf(Language(s.words), TextOf(s))
        IN  At(g, "done") =>
                IF s.errors = {}
                THEN ReadAll(s) /\ trees = {TreeAt(s.nodes, s.left)}
                ELSE IF ReadAll(s) THEN trees = {}
                ELSE TextOf(s) \notin Language(s.words).beginnings
=============================================================================
