-------------------------------- MODULE Parser --------------------------------
(***************************************************************************)
(* The parser, internal/parser: precedence climbing over the tokens of a   *)
(* lexer, one step for each call of parseExpression and each return from   *)
(* one.  A Parser belongs to the goroutine that made it; the trace level   *)
(* is a package variable that every parse increments and decrements.       *)
(*                                                                         *)
(*   pc      where the goroutine is                                        *)
(*   text    the tokens read so far; the last two are curToken, peekToken  *)
(*   prec    the precedence of the parseExpression that runs               *)
(*   left    its leftExp, a position in nodes, or 0 for nil                *)
(*   stack   the calls that wait for a parseExpression to return           *)
(*   nodes   the nodes made so far, a table as in Ast                      *)
(*   errors  the kinds of error reported                                   *)
(*   loaded  the trace level as this goroutine last loaded it              *)
(*   words   the tokens its text is made of, and how many at most          *)
(*   reads   the calls of nextToken that the lexer has still to answer     *)
(***************************************************************************)
EXTENDS Ast, FiniteSets

CONSTANTS Goroutines,  \* each parses one text
          Scenarios,   \* for each goroutine that parses, its words
          Refused      \* the tokens whose literal the parser refuses

Token == [type : STRING, lit : STRING]

EOF == [type |-> "EOF", lit |-> ""]

\* What texts are made of, the end included; max is a bound on their tokens.
Words == [tokens : SUBSET Token, max : Nat]

ASSUME ScenariosAssumption ==
    \A words \in Scenarios :
        /\ DOMAIN words \subseteq Goroutines
        /\ \A g \in DOMAIN words : words[g] \in Words /\ EOF \in words[g].tokens

VARIABLES parser, traceLevel

pvars == <<parser, traceLevel>>

-----------------------------------------------------------------------------
(* The tables of parse functions and of precedences.                       *)

LOWEST  == 1
TERNARY == 2
OR      == 3
AND     == 4
EQUALS  == 5
PREFIX  == 6
CALL    == 7
DOT     == 8

LeafOf(type) == CASE type = "IDENT"           -> "Identifier"
                  [] type = "INT"             -> "Integer"
                  [] type = "STRING"          -> "String"
                  [] type = "REGEXP"          -> "Regexp"
                  [] type = "SHELL"           -> "Shell"
                  [] type \in {"TRUE","FALSE"} -> "Boolean"
                  [] type = "NULL"            -> "Null"

LeafTypes == {"IDENT", "INT", "STRING", "REGEXP", "SHELL", "TRUE", "FALSE",
              "NULL"}

PrefixTypes == LeafTypes \cup {"!", "(", "["}

BinaryTypes == InfixOperators

InfixTypes == BinaryTypes \cup {"?", "("}

\* MUTANT of Precedence: equality binds no tighter than the logical and.
PrecedenceOfEquals(type) == CASE type \in BinaryTypes \ {"||"} -> AND
                              [] type = "||" -> OR
                              [] type = "?"  -> TERNARY
                              [] type = "("  -> CALL
                              [] type = "."  -> DOT
                              [] OTHER       -> LOWEST

\* A dot has a precedence, but no infix function.
Precedence(type) == CASE type \in BinaryTypes \ LogicalOperators -> EQUALS
                      [] type = "&&" -> AND
                      [] type = "||" -> OR
                      [] type = "?"  -> TERNARY
                      [] type = "("  -> CALL
                      [] type = "."  -> DOT
                      [] OTHER       -> LOWEST

-----------------------------------------------------------------------------
(* What the parse functions do to the parser s of their goroutine.         *)

Cur(s)  == s.text[Len(s.text) - 1]
Peek(s) == s.text[Len(s.text)]
Top(s)  == s.stack[Len(s.stack)]

\* The token that may follow a text.  After a NUL in a text the lexer would
\* read on, but a parse that reads past an end has that end as its current
\* token, for which there is no parse function: it has an error either way.
Offered(s, text) == IF \/ Len(text) >= s.words.max
                       \/ text # <<>> /\ text[Len(text)] = EOF
                    THEN {EOF} ELSE s.words.tokens

NextToken(s)     == [s EXCEPT !.reads = 1]
NextTwoTokens(s) == [s EXCEPT !.reads = 2]

Report(s, e) == [s EXCEPT !.errors = @ \cup {e}]

Nil(s)      == [s EXCEPT !.left = 0]
Goto(s, pc) == [s EXCEPT !.pc = pc]

\* A call of parseExpression, and what its caller goes on with.
ParseExpression(s, prec, at, tok, kids) ==
    [s EXCEPT !.pc = "expression", !.prec = prec,
              !.stack = Append(@, [at |-> at, prec |-> s.prec,
                                   tok |-> tok, kids |-> kids])]

\* The caller has its operand, and is itself called from a parseExpression.
Resume(s, pc) == [s EXCEPT !.pc = pc, !.prec = Top(s).prec,
                           !.stack = SubSeq(@, 1, Len(@) - 1)]

\* The nodes, when kids have become the operands of node n.
Adopt(nodes, kids, n) ==
    [k \in 1..Len(nodes) |->
        IF \E i \in 1..Len(kids) : kids[i] = k
        THEN [nodes[k] EXCEPT !.up = n] ELSE nodes[k]]

Build(s, op, tok, kids) ==
    LET n == Len(s.nodes) + 1
    IN  [s EXCEPT !.left = n,
                  !.nodes = Append(Adopt(s.nodes, kids, n),
                                   [op |-> op, tok |-> tok, kids |-> kids,
                                    up |-> 0])]

\* The name of a called function is part of the call, not a node of its own.
DropCallee(s) == [s EXCEPT !.left = 0, !.nodes = SubSeq(@, 1, Len(@) - 1)]

IsFunctionName(s) == s.left # 0 /\ s.nodes[s.left].op = "Identifier"

CanContinue(s) == /\ Peek(s) # EOF
                  /\ s.prec < Precedence(Peek(s).type)
                  /\ Peek(s).type \in InfixTypes

EndOf(at)   == IF at = "Call" THEN ")" ELSE "]"
AfterOf(at) == IF at = "Call" THEN "untrace" ELSE "loop"

\* parseExpressionList: the end of an empty list, or its first element.
StartList(s, at, tok) ==
    IF Peek(s).type = EndOf(at)
    THEN NextToken(Goto(Build(s, at, tok, <<>>), AfterOf(at)))
    ELSE NextToken(ParseExpression(s, LOWEST, at, tok, <<>>))

\* MUTANT of ContinueList: a list that ends too early keeps on waiting.
ContinueListForever(s, at, tok, elems) ==
    CASE Peek(s).type = "," ->
             NextTwoTokens(ParseExpression(Resume(s, "loop"), LOWEST, at, tok,
                                           elems))
      [] Peek(s).type = EndOf(at) ->
             NextToken(Build(Resume(s, AfterOf(at)), at, tok, elems))
      [] OTHER -> s

\* A list that is not closed is nil, but the call or array it is for is not.
ContinueList(s, at, tok, elems) ==
    CASE Peek(s).type = "," ->
             NextTwoTokens(ParseExpression(Resume(s, "loop"), LOWEST, at, tok,
                                           elems))
      [] Peek(s).type = EndOf(at) ->
             NextToken(Build(Resume(s, AfterOf(at)), at, tok, elems))
      [] OTHER ->
             Report(Build(Resume(s, AfterOf(at)), at, tok, <<>>), "expected")

-----------------------------------------------------------------------------
(* The steps of a goroutine.  To(g, s) moves its parser to s.              *)

At(g, pc) == parser[g].pc = pc /\ parser[g].reads = 0

To(g, s) == parser' = [parser EXCEPT ![g] = s] /\ UNCHANGED traceLevel

Init == /\ \E words \in Scenarios :
               parser = [g \in DOMAIN words |->
                           [pc |-> "new", text |-> <<>>, prec |-> LOWEST,
                            left |-> 0, stack |-> <<>>, nodes |-> <<>>,
                            errors |-> {}, loaded |-> 0, words |-> words[g],
                            reads |-> 0]]
        /\ traceLevel = 0

\* The lexer answers a call of nextToken.
ReadToken(g) ==
    LET s == parser[g]
    IN  /\ s.reads > 0
        /\ \E t \in Offered(s, s.text) :
               To(g, [s EXCEPT !.text = Append(@, t), !.reads = @ - 1])

New(g) ==
    /\ At(g, "new")
    /\ To(g, NextTwoTokens(Goto(parser[g], "parse")))

Parse(g) ==
    LET s == parser[g]
    IN  /\ At(g, "parse")
        /\ To(g, IF Cur(s) = EOF
                 THEN Goto(Report(s, "empty expression"), "done")
                 ELSE ParseExpression(s, LOWEST, "Parse", Cur(s).lit, <<>>))

NoPrefixParseFn(g) ==
    LET s == parser[g]
    IN  /\ At(g, "expression")
        /\ Cur(s).type \notin PrefixTypes
        /\ To(g, Goto(Nil(Report(s, "no prefix parse function")), "returned"))

\* Identifiers, integers, strings, booleans, null, shell expansions, regexps.
ParseLiteral(g) ==
    LET s == parser[g]
    IN  /\ At(g, "expression")
        /\ Cur(s).type \in LeafTypes
        /\ To(g, IF Cur(s) \in Refused
                 THEN Goto(Nil(Report(s, "invalid literal")), "loop")
                 ELSE Goto(Build(s, LeafOf(Cur(s).type), Cur(s).lit, <<>>),
                           "loop"))

ParsePrefixExpression(g) ==
    LET s == parser[g]
    IN  /\ At(g, "expression")
        /\ Cur(s).type = "!"
        /\ To(g, NextToken(ParseExpression(s, PREFIX, "Prefix", Cur(s).lit,
                                           <<>>)))

ParseGroupedExpression(g) ==
    LET s == parser[g]
    IN  /\ At(g, "expression")
        /\ Cur(s).type = "("
        /\ To(g, NextToken(ParseExpression(s, LOWEST, "Group", Cur(s).lit,
                                           <<>>)))

ParseArrayLiteral(g) ==
    LET s == parser[g]
    IN  /\ At(g, "expression")
        /\ Cur(s).type = "["
        /\ To(g, StartList(s, "Array", Cur(s).lit))

\* Operators of one precedence associate to the left.
RightPrecedence(type) == Precedence(type)

ParseInfixExpression(g) ==
    LET s == parser[g]
    IN  /\ At(g, "loop")
        /\ CanContinue(s)
        /\ Peek(s).type \in BinaryTypes
        /\ To(g, NextTwoTokens(
                     ParseExpression(s, RightPrecedence(Peek(s).type), "Infix",
                                     Peek(s).lit, <<s.left>>)))

ParseConditionalExpression(g) ==
    LET s == parser[g]
    IN  /\ At(g, "loop")
        /\ CanContinue(s)
        /\ Peek(s).type = "?"
        /\ To(g, NextTwoTokens(
                     ParseExpression(s, LOWEST, "Consequence", Peek(s).lit,
                                     <<s.left>>)))

LeaveLoop(g) ==
    /\ At(g, "loop")
    /\ ~CanContinue(parser[g])
    /\ To(g, Goto(parser[g], "returned"))

\* A call of parseExpression returns to the caller that waits "at" for it.
Returned(g, at) == At(g, "returned") /\ Top(parser[g]).at = at

EndParse(s) ==
    LET r == Goto([s EXCEPT !.stack = <<>>], "done")
    IN  IF s.left # 0 /\ Peek(s) # EOF
        THEN Report(r, "unexpected token after expression") ELSE r

ReturnToParse(g) ==
    /\ Returned(g, "Parse")
    /\ To(g, EndParse(parser[g]))

ReturnToPrefix(g) ==
    LET s == parser[g]
    IN  /\ Returned(g, "Prefix")
        /\ To(g, Build(Resume(s, "loop"), "Prefix", Top(s).tok, <<s.left>>))

ReturnToInfix(g) ==
    LET s == parser[g]
    IN  /\ Returned(g, "Infix")
        /\ To(g, Build(Resume(s, "loop"), "Infix", Top(s).tok,
                       Append(Top(s).kids, s.left)))

\* MUTANT of Unexpected: without its colon a ternary is its consequence.
UnexpectedIgnored(s) == Resume(s, "loop")

\* MUTANT of Unexpected: nil is returned without a word.
UnexpectedSilently(s) == Nil(Resume(s, "loop"))

\* expectPeek fails: the parse function reports it and returns nil.
Unexpected(s) == Nil(Report(Resume(s, "loop"), "expected"))

\* MUTANT of AlternativePrecedence: a ternary in the alternative is cut off.
AlternativePrecedenceOfTernary == TERNARY

\* MUTANT of AlternativePrecedence: one less than the lowest.
AlternativePrecedenceTooLow == LOWEST - 1

\* Ternaries associate to the right.
AlternativePrecedence == TERNARY - 1

ReturnToConsequence(g) ==
    LET s == parser[g]
    IN  /\ Returned(g, "Consequence")
        /\ To(g, IF Peek(s).type = ":"
                 THEN NextTwoTokens(
                          ParseExpression(Resume(s, "loop"),
                              AlternativePrecedence, "Alternative",
                              Top(s).tok, Append(Top(s).kids, s.left)))
                 ELSE Unexpected(s))

ReturnToAlternative(g) ==
    LET s == parser[g]
    IN  /\ Returned(g, "Alternative")
        /\ To(g, Build(Resume(s, "loop"), "Ternary", Top(s).tok,
                       Append(Top(s).kids, s.left)))

ReturnToGroup(g) ==
    LET s == parser[g]
    IN  /\ Returned(g, "Group")
        /\ To(g, IF Peek(s).type = ")"
                 THEN NextToken(Resume(s, "loop")) ELSE Unexpected(s))

ReturnToList(g) ==
    LET s == parser[g]
    IN  /\ At(g, "returned")
        /\ Top(s).at \in {"Call", "Array"}
        /\ To(g, ContinueList(s, Top(s).at, Top(s).tok,
                              Append(Top(s).kids, s.left)))

-----------------------------------------------------------------------------
(* parseCallExpression, and the trace level that only it changes.  The     *)
(* load and the store of an increment are two steps.  Nothing is printed,  *)
(* for traceEnabled is false and no code sets it.                          *)

BeginCall(g) ==
    LET s == parser[g]
    IN  /\ At(g, "loop")
        /\ CanContinue(s)
        /\ Peek(s).type = "("
        /\ To(g, NextToken(Goto(s, "trace")))

LoadTraceLevel(g) ==
    /\ At(g, "trace") \/ At(g, "untrace")
    /\ To(g, [parser[g] EXCEPT !.loaded = traceLevel,
                 !.pc = IF At(g, "trace") THEN "increment" ELSE "decrement"])

StoreTraceLevel(g) ==
    /\ At(g, "increment") \/ At(g, "decrement")
    /\ traceLevel' = parser[g].loaded + (IF At(g, "increment") THEN 1 ELSE -1)
    /\ parser' = [parser EXCEPT ![g].pc = IF At(g, "increment") THEN "call"
                                          ELSE "loop"]

\* MUTANT of RefuseCallee: the parse function returns before it defers untrace.
RefuseCalleeUntraced(s) == Goto(Nil(Report(s, "callee")), "loop")

\* The callee may only be a name; its arguments are not read otherwise.
RefuseCallee(s) == Goto(Nil(Report(s, "callee")), "untrace")

ParseCallExpression(g) ==
    LET s == parser[g]
    IN  /\ At(g, "call")
        /\ To(g, IF IsFunctionName(s)
                 THEN StartList(DropCallee(s), "Call", s.nodes[s.left].tok)
                 ELSE RefuseCallee(s))

-----------------------------------------------------------------------------
ParseStep(g) ==
    \/ ReadToken(g) \/ New(g) \/ Parse(g)
    \/ NoPrefixParseFn(g) \/ ParseLiteral(g) \/ ParsePrefixExpression(g)
    \/ ParseGroupedExpression(g) \/ ParseArrayLiteral(g)
    \/ ParseInfixExpression(g) \/ ParseConditionalExpression(g) \/ LeaveLoop(g)
    \/ ReturnToParse(g) \/ ReturnToPrefix(g) \/ ReturnToInfix(g)
    \/ ReturnToConsequence(g) \/ ReturnToAlternative(g) \/ ReturnToGroup(g)
    \/ ReturnToList(g)
    \/ BeginCall(g) \/ LoadTraceLevel(g) \/ StoreTraceLevel(g)
    \/ ParseCallExpression(g)

\* Nothing is left to do; any other state without a step is a deadlock.
AllReturned == (\A g \in DOMAIN parser : At(g, "done")) /\ UNCHANGED pvars

Next == AllReturned \/ \E g \in DOMAIN parser : ParseStep(g)

\* A goroutine that can take a step of its parse eventually does.
Spec == Init /\ [][Next]_pvars
             /\ \A g \in Goroutines :
                    WF_pvars(g \in DOMAIN parser /\ ParseStep(g))

-----------------------------------------------------------------------------
(* Properties                                                              *)

Locations == {"new", "parse", "expression", "loop", "returned", "trace",
              "increment", "call", "untrace", "decrement", "done"}

Errors == {"empty expression", "no prefix parse function", "invalid literal",
           "expected", "callee", "unexpected token after expression"}

\* The parser and the trace level have their types.
ParserTypeOK ==
    /\ traceLevel \in Int
    /\ \A g \in DOMAIN parser :
         LET s == parser[g]
         IN  /\ s.pc \in Locations
             /\ s.text \in Seq(Token)
             /\ s.errors \subseteq Errors
             /\ s.prec \in LOWEST..DOT
             /\ s.left \in 0..Len(s.nodes)
             /\ s.nodes \in Seq(Node)

\* A parse function that returns nil has reported an error: a tree without
\* one has no nil in it (a nil operand would be dereferenced by the checks).
NilIsReported ==
    \A g \in DOMAIN parser :
        LET s == parser[g]
        IN  At(g, "done") /\ s.errors = {} =>
                /\ s.left # 0
                /\ \A n \in 1..Len(s.nodes) :
                     \A k \in 1..Len(s.nodes[n].kids) : s.nodes[n].kids[k] # 0

\* What the parser returns without an error is a tree: the checks and the
\* evaluator, whose constants assume it, visit every node once.
ParsedIsWellFormed ==
    \A g \in DOMAIN parser :
        At(g, "done") /\ parser[g].errors = {} =>
            /\ WellFormed(parser[g].nodes)
            /\ parser[g].left = Len(parser[g].nodes)

\* The calls that are traced and not yet untraced: those whose arguments are
\* parsed, and the one a goroutine is about to begin or to leave.
OpenCalls ==
    UNION {{<<g, i>> : i \in {i \in 1..Len(parser[g].stack) :
                                 parser[g].stack[i].at = "Call"}} :
              g \in DOMAIN parser}
    \cup {<<g, 0>> : g \in {g \in DOMAIN parser :
                              parser[g].pc \in {"call", "untrace", "decrement"}}}

Drift == traceLevel - Cardinality(OpenCalls)

\* The trace level counts the open calls of all goroutines, however they nest
\* and fail: it goes wrong only when a goroutine stores a level that another
\* has changed since it was loaded (tracing.go:22-23).
TraceLevelDriftsOnlyInRaces ==
    [][Drift' # Drift =>
          \E g \in DOMAIN parser :
              /\ At(g, "increment") \/ At(g, "decrement")
              /\ parser[g].loaded # traceLevel]_pvars

\* Every parse ends, whatever the text and whoever else parses.
EveryParseReturns ==
    \A g \in Goroutines : <>(g \in DOMAIN parser => At(g, "done"))
=============================================================================
