------------------------------ MODULE Evaluator ------------------------------
(***************************************************************************)
(* The tree-walking evaluator, internal/evaluator: Eval and the functions  *)
(* it calls, one step for each call and one for each return.               *)
(*                                                                         *)
(* A tree has no cycles and no sharing, so every node is evaluated at most *)
(* once, and val holds what has become of each: None before the call of    *)
(* Eval on it, Open during the call, and the value it returned.  The Go    *)
(* call stack is the path of Open nodes from the root to the node cur.     *)
(* The scope is                                                            *)
(*   scope.vars       the bound names, those of functions included         *)
(*   scope.env        the environment that LookupEnv reads                 *)
(*   scope.functions  for each name the caller registered, its declared    *)
(*                    args and ret, and the outcomes of its callback       *)
(***************************************************************************)
EXTENDS Ast, Shell, Environment

CONSTANTS Trees,      \* the expressions of the instance
          Scopes,     \* the scopes Eval may be called with
          Expansions  \* the shell expansions, by the text they stand for

\* What newRootScope binds: values, and of functions the two built-in ones and
\* those the caller registered, whose callbacks return values.
Bound(s) ==
    /\ \A x \in DOMAIN s.vars :
         /\ IsValue(s.vars[x])
         /\ s.vars[x].kind = "FUNCTION" =>
                s.vars[x] \in {Function(f) : f \in {"env", "build.env"}
                                                 \cup DOMAIN s.functions}
    /\ \A f \in DOMAIN s.functions :
         \A r \in s.functions[f].outcomes : IsValue(r)

ASSUME TreesAssumption == \A t \in Trees : WellFormed(t)

ASSUME ScopesAssumption == \A s \in Scopes : Bound(s)

VARIABLES ast, scope, cur, val

evalVars == <<ast, scope, cur, val>>

Root == Len(ast)

\* The call of Eval on the root of t.
Started(t) == [n \in DOMAIN t |-> IF n = Len(t) THEN Open ELSE None]

Init ==
    /\ ast \in Trees
    /\ scope \in Scopes
    /\ cur = Root
    /\ val = Started(ast)

Operand(n, k) == val[ast[n].kids[k]]

Operands(n) == [k \in DOMAIN ast[n].kids |-> Operand(n, k)]

\* MUTANT of Failed: only the first operand is looked at.
FailedOnFirst(n) ==
    \E k \in DOMAIN ast[n].kids : k = 1 /\ Operand(n, k).kind = "ERROR"

\* isError after the evaluation of each operand.
Failed(n) == \E k \in DOMAIN ast[n].kids : Operand(n, k).kind = "ERROR"

\* MUTANT of Chosen: && and || evaluate both of their operands.
ChosenEagerly(n, k) ==
    IF ast[n].op = "Ternary"
    THEN k # 1 => /\ IsValue(Operand(n, 1))
                  /\ k = IF IsTruthy(Operand(n, 1)) THEN 2 ELSE 3
    ELSE \A j \in 1..(k - 1) : IsValue(Operand(n, j))

\* Operand k is the next that node n evaluates.  Most nodes go through all
\* their operands; a ternary takes one branch, and a logical operator goes on
\* to the right only when the left does not decide.
Chosen(n, k) ==
    CASE ast[n].op = "Ternary" ->
             k # 1 => /\ IsValue(Operand(n, 1))
                      /\ k = IF IsTruthy(Operand(n, 1)) THEN 2 ELSE 3
      [] IsLogical(ast[n]) ->
             k # 1 => /\ IsValue(Operand(n, 1))
                      /\ IsTruthy(Operand(n, 1)) = (ast[n].tok = "&&")
      [] OTHER -> \A j \in 1..(k - 1) : IsValue(Operand(n, j))

\* MUTANT of Wants: an operand that is null counts as not evaluated yet.
WantsAgain(n, k) ==
    Operand(n, k).kind \in {"NONE", "NULL"} /\ ~Failed(n) /\ Chosen(n, k)

Wants(n, k) == Operand(n, k) = None /\ ~Failed(n) /\ Chosen(n, k)

\* The recursive call on an operand.
EvalOperand ==
    /\ cur # 0
    /\ \E k \in DOMAIN ast[cur].kids :
           /\ Wants(cur, k)
           /\ cur' = ast[cur].kids[k]
           /\ val' = [val EXCEPT ![cur'] = Open]
    /\ UNCHANGED <<ast, scope>>

Ready(op) ==
    /\ cur # 0
    /\ ast[cur].op = op
    /\ ~Failed(cur)
    /\ \A k \in DOMAIN ast[cur].kids : ~Wants(cur, k)

\* MUTANT of Return: back to the next node instead of the caller.
ReturnToNext(r) ==
    /\ val' = [val EXCEPT ![cur] = r]
    /\ cur' = cur + 1
    /\ UNCHANGED <<ast, scope>>

Return(r) ==
    /\ val' = [val EXCEPT ![cur] = r]
    /\ cur' = ast[cur].up
    /\ UNCHANGED <<ast, scope>>

\* Every caller of Eval hands an operand's error on unchanged.
PropagateError ==
    /\ cur # 0
    /\ \E k \in DOMAIN ast[cur].kids :
           Operand(cur, k).kind = "ERROR" /\ Return(Operand(cur, k))

LiteralKind == [Boolean |-> "BOOLEAN", Null |-> "NULL", Integer |-> "INTEGER",
                String |-> "STRING", Regexp |-> "REGEXP"]

EvalLiteral == \E op \in DOMAIN LiteralKind :
    Ready(op) /\ Return(Atom(LiteralKind[op], ast[cur].tok))

EvalDollar == Ready("Dollar") /\ Return(Str(Expansions[ast[cur].tok].word))

EvalTemplate == Ready("Template")
             /\ Return(EvalString(Expansions[ast[cur].tok], scope.env))

EvalShell == Ready("Shell")
          /\ Return(EvalShellExpansion(Expansions[ast[cur].tok], scope.env))

EvalIdentifier ==
    /\ Ready("Identifier")
    /\ Return(IF ast[cur].tok \in DOMAIN scope.vars
              THEN scope.vars[ast[cur].tok] ELSE Error("scope"))

EvalPrefix == Ready("Prefix")
           /\ Return(EvalPrefixExpression(ast[cur].tok, Operand(cur, 1)))

EvalInfix ==
    /\ Ready("Infix")
    /\ ~IsLogical(ast[cur])
    /\ \E r \in EvalInfixExpression(ast[cur].tok, Operand(cur, 1),
                                    Operand(cur, 2)) : Return(r)

\* MUTANT of EvalLogical: a boolean instead of the operand that decides.
EvalLogicalAsBoolean ==
    /\ Ready("Infix")
    /\ IsLogical(ast[cur])
    /\ Return(Bool(IsTruthy(IF IsValue(Operand(cur, 2)) THEN Operand(cur, 2)
                                                       ELSE Operand(cur, 1))))

EvalLogical ==
    /\ Ready("Infix")
    /\ IsLogical(ast[cur])
    /\ Return(IF IsValue(Operand(cur, 2)) THEN Operand(cur, 2)
                                            ELSE Operand(cur, 1))

\* MUTANT of EvalConditional: the result is the first branch, evaluated or not.
EvalConditionalFirst == Ready("Ternary") /\ Return(Operand(cur, 2))

EvalConditional ==
    /\ Ready("Ternary")
    /\ Return(IF IsValue(Operand(cur, 2)) THEN Operand(cur, 2)
                                            ELSE Operand(cur, 3))

\* A callback may answer with a null or a value of the declared type; another
\* value, or an error of its own, makes the call an error.
ObjectFunction(f) ==
    {IF r.kind \in {"NULL", RuntimeKind[f.ret]} THEN r ELSE Error("function") :
        r \in f.outcomes}

ApplyFunction(s, fn, args) ==
    CASE fn.kind # "FUNCTION" -> {Error("callee")}
      [] fn = Function("env") -> {EnvFunction(s.env, args)}
      [] fn = Function("build.env") -> {NullableEnvFunction(s.env, args)}
      [] OTHER -> ObjectFunction(s.functions[fn.v])

EvalCallExpression(s, name, args) ==
    IF name \in DOMAIN s.vars THEN ApplyFunction(s, s.vars[name], args)
                              ELSE {Error("scope")}

\* The arguments come first, the name is looked up after them.
EvalCall ==
    /\ Ready("Call")
    /\ \E r \in EvalCallExpression(scope, ast[cur].tok, Operands(cur)) :
           Return(r)

EvalArray == Ready("Array") /\ Return(Array(Operands(cur)))

EvalReturn ==
    \/ PropagateError \/ EvalLiteral \/ EvalDollar \/ EvalTemplate \/ EvalShell
    \/ EvalIdentifier \/ EvalPrefix \/ EvalInfix \/ EvalLogical
    \/ EvalConditional \/ EvalCall \/ EvalArray

Eval == EvalOperand \/ EvalReturn

Terminated == cur = 0 /\ UNCHANGED evalVars

Next == Eval \/ Terminated

Spec == Init /\ [][Next]_evalVars /\ WF_evalVars(Eval)

-----------------------------------------------------------------------------

\* The type invariant.
TypeOK ==
    /\ WellFormed(ast)
    /\ Bound(scope)
    /\ cur \in 0..Len(ast)
    /\ DOMAIN val = 1..Len(ast)
    /\ \A n \in 1..Len(ast) : val[n] \in {None, Open} \/ IsValue(val[n])

\* The Open nodes are a path from the root to cur: the call stack.  When it is
\* empty the root has a value.
CallStack ==
    /\ IF cur = 0 THEN IsValue(val[Root]) ELSE val[cur] = Open
    /\ \A n \in 1..Len(ast) :
         /\ val[n] = Open /\ ast[n].up # 0 => val[ast[n].up] = Open
         /\ val[n] = None => \A k \in DOMAIN ast[n].kids : Operand(n, k) = None
         /\ \A k \in DOMAIN ast[n].kids :
              Operand(n, k) = Open =>
                  /\ n # cur
                  /\ \A j \in DOMAIN ast[n].kids :
                        Operand(n, j) = Open => j = k

\* No operation ever computes with an error: once an operand has returned
\* one, no other operand is evaluated and the operation returns that very
\* error.  Every call of Eval in the evaluator is followed by its own isError
\* check, and forgetting one of them breaks this.
ErrorsPropagate ==
    \A n \in 1..Len(ast) : \A k \in DOMAIN ast[n].kids :
        IsError(Operand(n, k)) =>
            /\ val[n] = Operand(n, k) \/ cur = n
            /\ \A j \in DOMAIN ast[n].kids \ {k} :
                  Operand(n, j) # Open /\ ~IsError(Operand(n, j))

\* Laziness: a ternary evaluates at most one of its branches, the one its
\* condition picks, and the right of && or || is evaluated only when the left
\* leaves the result open.  So a guard such as x != null ? ... : ... protects
\* its branch from errors, and a callback behind it is not called.
OnlyChosenOperands ==
    \A n \in 1..Len(ast) :
        /\ ast[n].op = "Ternary" /\ Operand(n, 2) # None =>
               /\ Operand(n, 3) = None
               /\ IsValue(Operand(n, 1)) /\ IsTruthy(Operand(n, 1))
        /\ ast[n].op = "Ternary" /\ Operand(n, 3) # None =>
               /\ Operand(n, 2) = None
               /\ IsValue(Operand(n, 1)) /\ ~IsTruthy(Operand(n, 1))
        /\ IsLogical(ast[n]) /\ Operand(n, 2) # None =>
               /\ IsValue(Operand(n, 1))
               /\ IsTruthy(Operand(n, 1)) = (ast[n].tok = "&&")

\* Every evaluation returns.
EveryEvaluationReturns == <>(cur = 0)
=============================================================================
