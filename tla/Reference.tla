------------------------------ MODULE Reference ------------------------------
(***************************************************************************)
(* What an expression means: the set of the values it may have (a set,     *)
(* because the regular expression engine and a caller's functions are not  *)
(* under the evaluator's control), node by node from what its operands     *)
(* mean, with no order of evaluation and no state.  The step-by-step       *)
(* modules are checked against it.                                         *)
(***************************************************************************)
EXTENDS Evaluator, TypeCheck

\* What the operands of node n mean, m being what every node of t means.
OfOperands(t, n, m) == [k \in DOMAIN t[n].kids |-> m[t[n].kids[k]]]

\* The values the operands may have together when none of them fails ...
OperandValues(ms) ==
    {vs \in [DOMAIN ms -> UNION {ms[k] : k \in DOMAIN ms}] :
        \A k \in DOMAIN ms : vs[k] \in ms[k] /\ ~IsError(vs[k])}

\* ... and the errors when one does: that of the first which fails.
OperandErrors(ms) ==
    {e \in UNION {ms[k] : k \in DOMAIN ms} :
        /\ IsError(e)
        /\ \E k \in DOMAIN ms :
             /\ e \in ms[k]
             /\ \A j \in 1..(k - 1) : \E v \in ms[j] : ~IsError(v)}

\* The results of a node that evaluates all its operands, of their values vs;
\* a leaf has none.
Results(node, vs, s) ==
    CASE node.op \in DOMAIN LiteralKind ->
             {Atom(LiteralKind[node.op], node.tok)}
      [] node.op = "Dollar" -> {Str(Expansions[node.tok].word)}
      [] node.op = "Template" -> {EvalString(Expansions[node.tok], s.env)}
      [] node.op = "Shell" ->
             {EvalShellExpansion(Expansions[node.tok], s.env)}
      [] node.op = "Identifier" ->
             {IF node.tok \in DOMAIN s.vars THEN s.vars[node.tok]
                                            ELSE Error("scope")}
      [] node.op = "Prefix" -> {EvalPrefixExpression(node.tok, vs[1])}
      [] node.op = "Infix" -> EvalInfixExpression(node.tok, vs[1], vs[2])
      [] node.op = "Call" -> EvalCallExpression(s, node.tok, vs)
      [] node.op = "Array" -> {Array(vs)}

\* Whether the left side v of && or || leaves the result to the right.
Undecided(op, v) == ~IsError(v) /\ IsTruthy(v) = (op = "&&")

\* What a node means, of what its operands mean.
NodeMeaning(node, ms, s) ==
    IF node.op = "Ternary"
    THEN UNION {IF IsError(v) THEN {v} ELSE ms[IF IsTruthy(v) THEN 2 ELSE 3] :
                v \in ms[1]}
    ELSE IF IsLogical(node)
    THEN UNION {IF Undecided(node.tok, v) THEN ms[2] ELSE {v} : v \in ms[1]}
    ELSE OperandErrors(ms)
         \cup UNION {Results(node, vs, s) : vs \in OperandValues(ms)}

Meanings(t, s) ==
    LET m[n \in DOMAIN t] == NodeMeaning(t[n], OfOperands(t, n, m), s) IN m

Meaning(t, n, s) == Meanings(t, s)[n]

\* The evaluator, one call of Eval and one return at a time, computes a value
\* that the expression means, and no other.
AgreesWithMeaning == cur = 0 => val[Root] \in Meaning(ast, Root, scope)
=============================================================================
