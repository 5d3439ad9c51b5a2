-------------------------- MODULE ConditionalProofs --------------------------
(***************************************************************************)
(* Proofs about the public API, for every set of calls.                    *)
(*                                                                         *)
(* The main results are the soundness of the static checks, and that       *)
(* Validate and Evaluate implement the abstract API: every step of         *)
(* Conditional is a step of ConditionalAPI or leaves the request and the   *)
(* answer alone.  The first needs to know what the checks have established *)
(* when the evaluation begins, and that the evaluation keeps to its own    *)
(* invariant.                                                              *)
(***************************************************************************)
EXTENDS ConditionalRefinement, EvaluatorProofs

\* The first m nodes are accepted, each with the type the checker gives it.
TypedBelow(m) ==
    /\ DOMAIN ty = Nodes
    /\ \A n \in 1..m :
         /\ ty[n] # Unknown
         /\ ty[n].enum # {} => ty[n].kind = "string"
         /\ ty[n] = CheckNode(ast, n, ty, Names, call.options.functions)

\* What each phase relies on.
CInv ==
    /\ phase # "idle" => call \in Calls
    /\ phase \in {"validate", "check", "scope", "eval"} => WellFormed(ast)
    /\ phase \in {"check", "scope", "eval"} =>
           checked \in 0..Len(ast) /\ TypedBelow(checked)
    /\ phase \in {"scope", "eval"} =>
           checked = Len(ast) /\ ty[Root].kind = "boolean"
    /\ phase = "eval" =>
           /\ IInv
           /\ scope = ScopeOf(call.ctx, ContextEntryPoint(call),
                              call.options.functions)
    /\ Sound

-----------------------------------------------------------------------------
(* What the operators return. *)

\* An infix operator that is not logical yields a boolean or an error.
LEMMA InfixKind ==
    ASSUME NEW op, NEW l, NEW r, NEW v \in EvalInfixExpression(op, l, r)
    PROVE  \/ v.kind = "BOOLEAN"
           \/ v = Error("type") \/ v = Error("regexp")
<1>1. \A b : Bool(b).kind = "BOOLEAN"
  BY DEF Bool, True, False, Atom
<1>2. True.kind = "BOOLEAN" /\ False.kind = "BOOLEAN"
  BY DEF True, False, Atom
<1>3. CASE v \in EvalStringRegexp(op, l, r)
  BY <1>1, <1>3 DEF EvalStringRegexp
<1>4. CASE v = EvalNullRegexp(op)
  BY <1>2, <1>4 DEF EvalNullRegexp
<1>5. CASE v \in ArrayContains(l.elems, r)
  BY <1>2, <1>5 DEF ArrayContains
<1>6. CASE v = False
  BY <1>2, <1>6
<1>7. CASE v = Comparison(op, l, r)
  BY <1>1, <1>7 DEF Comparison
<1>8. \/ v \in EvalStringRegexp(op, l, r) \/ v = EvalNullRegexp(op)
      \/ v \in ArrayContains(l.elems, r) \/ v = False \/ v = Comparison(op, l, r)
  BY DEF EvalInfixExpression
<1> QED
  BY <1>3, <1>4, <1>5, <1>6, <1>7, <1>8

\* Which values have a type: only the kind of the type matters.
LEMMA TypedKinds ==
    ASSUME NEW o, NEW t
    PROVE  /\ o.kind = "NULL" => HasType(o, t)
           /\ o.kind = "ERROR" => (HasType(o, t) <=> o.v \notin {"scope", "callee"})
           /\ o.kind = "BOOLEAN" /\ t.kind = "boolean" => HasType(o, t)
           /\ o.kind = "STRING" /\ t.kind = "string" => HasType(o, t)
           /\ o.kind = "INTEGER" /\ t.kind = "number" => HasType(o, t)
           /\ o.kind = "REGEXP" /\ t.kind = "regexp" => HasType(o, t)
           /\ \A u : HasType(o, t) /\ u.kind = t.kind => HasType(o, u)
           /\ HasType(o, t) /\ t.kind = "null" => o.kind \in {"NULL", "ERROR"}
           /\ HasType(o, t) /\ t.kind = "string" =>
                  o.kind \in {"NULL", "ERROR", "STRING"}
           /\ HasType(o, t) /\ t.kind = "boolean" =>
                  o.kind \in {"NULL", "ERROR", "BOOLEAN"}
           /\ HasType(o, t) => IsValue(o) /\ o.kind # "FUNCTION"
BY DEF HasType, RuntimeKind, IsValue, Kinds

\* A shell expansion yields a string, a null or a shell error.
LEMMA ShellTyped ==
    ASSUME NEW x, NEW env, NEW t, t.kind = "string"
    PROVE  /\ HasType(EvalShellExpansion(x, env), t)
           /\ HasType(EvalString(x, env), t)
<1>1. \A u : HasType(Str(u), t)
  BY TypedKinds DEF Str, Atom
<1>2. HasType(Error("shell"), t) /\ HasType(Null, t)
  BY TypedKinds DEF Error, Null, Atom
<1>3. HasType(EvalBraced(x, env), t)
  BY <1>1, <1>2 DEF EvalBraced
<1> QED
  BY <1>1, <1>3 DEF EvalShellExpansion, EvalString

-----------------------------------------------------------------------------
(* The scope that buildScope makes. *)

\* No function has a variable's name.
LEMMA FunctionNames ==
    ASSUME NEW c \in Calls, NEW f \in Callable(c.options.functions)
    PROVE  f \notin AllVariables
<1>1. f \in {"env", "build.env"} \/ f \in DOMAIN c.options.functions
  BY DEF Callable
<1>2. "env" \notin AllVariables /\ "build.env" \notin AllVariables
  BY DEF AllVariables, EnumVariables, BoolVariables, NumberVariables,
         ArrayVariables, StringVariables, PresenceVariables
<1> QED
  BY <1>1, <1>2, FunctionsAssumption

\* The value column of the assignment table agrees with the type column.
LEMMA ValueTyped ==
    ASSUME NEW c \in Calls, NEW x \in AllVariables
    PROVE  HasType(Value(c.ctx, x), VariableType(x))
<1>1. HasType(Null, VariableType(x))
  BY TypedKinds DEF Null, Atom
<1>2. HasType(Field(c.ctx, x), VariableType(x))
  BY <1>1, ContextsAssumption DEF Field
<1>3. ASSUME x \in {"build.source_event", "build.source_action"}
      PROVE  \A t : HasType(Str(t), VariableType(x))
  <2>1. VariableType(x).kind = "string"
    BY <1>3 DEF VariableType, EnumVariables, BoolVariables, NumberVariables,
                ArrayVariables, Type
  <2> QED
    BY <2>1, TypedKinds DEF Str, Atom
<1>4. ASSUME x \in {"build.source_event", "build.source_action"}, NEW envName
      PROVE  HasType(FromWebhook(c.ctx, x, envName), VariableType(x))
  BY <1>1, <1>3, <1>4, ContextsAssumption DEF FromWebhook
<1>5. CASE x = "build.source_event"
  <2>1. Value(c.ctx, x) = SourceEvent(c.ctx)
    BY <1>5 DEF Value, PresenceVariables
  <2> QED
    BY <1>4, <1>5, <2>1 DEF SourceEvent
<1>6. CASE x = "build.source_action"
  <2>1. Value(c.ctx, x) = SourceAction(c.ctx)
    BY <1>6 DEF Value, PresenceVariables
  <2> QED
    BY <1>4, <1>6, <2>1 DEF SourceAction
<1>7. CASE x = "build.pull_request.label"
  <2>1. Value(c.ctx, x) = PullRequestLabel(c.ctx)
    BY <1>7 DEF Value, PresenceVariables
  <2> QED
    BY <1>1, <1>2, <1>7, <2>1 DEF PullRequestLabel
<1>8. CASE x \in PresenceVariables
  <2>1. Value(c.ctx, x) = PresenceStringValue(Field(c.ctx, x))
    BY <1>8 DEF Value, PresenceVariables
  <2> QED
    BY <1>1, <1>2, <2>1 DEF PresenceStringValue
<1>9. CASE /\ x \notin PresenceVariables
           /\ x \notin {"build.source_event", "build.source_action",
                       "build.pull_request.label"}
  BY <1>2, <1>9 DEF Value
<1> QED
  BY <1>5, <1>6, <1>7, <1>8, <1>9

\* What the scope binds: to a variable a value of its type, to a function itself.
LEMMA ScopeTyped ==
    ASSUME NEW c \in Calls, NEW entryPoint,
           NEW s, s = ScopeOf(c.ctx, entryPoint, c.options.functions)
    PROVE  /\ DOMAIN s.vars = Assigned(entryPoint)
                                 \cup Callable(c.options.functions)
           /\ s.functions = c.options.functions
           /\ \A x \in Assigned(entryPoint) :
                  HasType(s.vars[x], VariableType(x))
           /\ \A f \in Callable(c.options.functions) :
                  s.vars[f] = Function(f)
           /\ Bound(s)
<1> DEFINE functions == c.options.functions
<1>1. Assigned(entryPoint) \subseteq AllVariables
  BY VariablesAssumption DEF Assigned
<1>2. /\ DOMAIN s.vars = Assigned(entryPoint) \cup Callable(functions)
      /\ \A x \in Assigned(entryPoint) : s.vars[x] = Value(c.ctx, x)
      /\ \A f \in Callable(functions) \ Assigned(entryPoint) :
             s.vars[f] = Function(f)
      /\ s.functions = functions
  BY DEF ScopeOf, FlatAssignments
<1>3. \A x \in Assigned(entryPoint) : HasType(s.vars[x], VariableType(x))
  BY <1>1, <1>2, ValueTyped
<1>4. \A f \in Callable(functions) : s.vars[f] = Function(f)
  BY <1>1, <1>2, FunctionNames
<1>5. Bound(s)
  <2>1. ASSUME NEW x \in Assigned(entryPoint)
        PROVE  IsValue(s.vars[x]) /\ s.vars[x].kind # "FUNCTION"
    BY <1>3, TypedKinds
  <2>2. ASSUME NEW f \in Callable(functions)
        PROVE  /\ IsValue(s.vars[f])
               /\ s.vars[f] \in {Function(g) : g \in {"env", "build.env"}
                                                 \cup DOMAIN s.functions}
    <3>1. f \in {"env", "build.env"} \cup DOMAIN s.functions
      BY <1>2 DEF Callable
    <3>2. s.vars[f] = Function(f) /\ IsValue(Function(f))
      BY <1>4 DEF Function, Atom, IsValue, Kinds
    <3> QED
      BY <3>1, <3>2
  <2>3. ASSUME NEW f \in DOMAIN s.functions, NEW r \in s.functions[f].outcomes
        PROVE  IsValue(r)
    BY <1>2, FunctionsAssumption
  <2> QED
    BY <1>2, <2>1, <2>2, <2>3 DEF Bound
<1> QED
  BY <1>2, <1>3, <1>4, <1>5

\* A call of a function that may be called yields a value of its result's type.
LEMMA CallTyped ==
    ASSUME NEW c \in Calls, NEW entryPoint,
           NEW s, s = ScopeOf(c.ctx, entryPoint, c.options.functions),
           NEW f \in Callable(c.options.functions), NEW args,
           NEW v \in EvalCallExpression(s, f, args)
    PROVE  HasType(v, Type(Signature(c.options.functions, f).ret))
<1> DEFINE functions == c.options.functions
           t == Type(Signature(functions, f).ret)
<1>1. /\ f \in DOMAIN s.vars /\ s.vars[f] = Function(f)
      /\ s.functions = functions
  BY ScopeTyped
<1>2. /\ \A g : Function(g).kind = "FUNCTION" /\ Function(g).v = g
      /\ \A g, h : Function(g) = Function(h) => g = h
  BY DEF Function, Atom
<1>3. v \in ApplyFunction(s, Function(f), args)
  BY <1>1 DEF EvalCallExpression
<1>4. CASE f \in {"env", "build.env"}
  <2>1. f \notin DOMAIN functions
    BY <1>4, FunctionsAssumption
  <2>2. t.kind = "string"
    BY <2>1 DEF Signature, BuiltinSignature, Type
  <2>3. \A u : HasType(Str(u), t)
    BY <2>2, TypedKinds DEF Str, Atom
  <2>4. HasType(Error("env"), t) /\ HasType(Null, t)
    BY <2>2, TypedKinds DEF Error, Null, Atom
  <2>5. v \in {EnvFunction(s.env, args), NullableEnvFunction(s.env, args)}
    <3>1. CASE f = "env"
      BY <1>2, <1>3, <3>1 DEF ApplyFunction
    <3>2. CASE f = "build.env"
      BY <1>2, <1>3, <3>2 DEF ApplyFunction
    <3> QED
      BY <1>4, <3>1, <3>2
  <2>6. HasType(EnvFunction(s.env, args), t)
    BY <2>3, <2>4 DEF EnvFunction
  <2>7. HasType(NullableEnvFunction(s.env, args), t)
    BY <2>3, <2>4 DEF NullableEnvFunction
  <2> QED
    BY <2>5, <2>6, <2>7
<1>5. CASE f \notin {"env", "build.env"}
  <2>1. f \in DOMAIN functions /\ t = Type(functions[f].ret)
    BY <1>5 DEF Callable, Signature
  <2>2. v \in ObjectFunction(functions[f])
    BY <1>1, <1>2, <1>3, <1>5 DEF ApplyFunction
  <2>3. CASE v = Error("function")
    BY <2>3, TypedKinds DEF Error, Atom
  <2>4. CASE v \in functions[f].outcomes
               /\ v.kind \in {"NULL", RuntimeKind[functions[f].ret]}
    <3>1. /\ functions[f].ret \in DOMAIN RuntimeKind
          /\ v.kind = "ARRAY" => HasType(v, Type("array"))
      BY <2>1, <2>4, FunctionsAssumption
    <3>2. CASE v.kind = "ARRAY"
      <4>1. t.kind = "array"
        BY <2>1, <2>4, <3>1, <3>2 DEF RuntimeKind, Type
      <4> QED
        BY <3>1, <3>2, <4>1, TypedKinds DEF Type
    <3>3. CASE v.kind # "ARRAY"
      BY <2>1, <2>4, <3>1, <3>3 DEF HasType, RuntimeKind, Type
    <3> QED
      BY <3>2, <3>3
  <2> QED
    BY <2>2, <2>3, <2>4 DEF ObjectFunction
<1> QED
  BY <1>4, <1>5

-----------------------------------------------------------------------------
(* What the evaluator returns. *)

\* The node that returns, what the checker knows of it and of its operands.
LEMMA CheckedCurrent ==
    ASSUME CInv, phase = "eval", cur # 0
    PROVE  /\ cur \in Nodes /\ ast[cur].op \in Ops
           /\ call \in Calls
           /\ ty[cur] # Unknown
           /\ ty[cur] = CheckNode(ast, cur, ty, Names, call.options.functions)
           /\ \A k \in Slots(cur) :
                LET t == ty[ast[cur].kids[k]]
                IN  /\ t.enum # {} => t.kind = "string"
                    /\ IsValue(Operand(cur, k)) => HasType(Operand(cur, k), t)
<1>1. /\ IInv /\ call \in Calls /\ checked = Len(ast)
      /\ TypedBelow(Len(ast))
  BY DEF CInv
<1>2. cur \in Nodes /\ WellFormed(ast)
  BY <1>1 DEF IInv, TypeOK, Nodes
<1>3. ast[cur].op \in Ops
  <2>1. ast[cur] \in Node
    BY <1>2 DEF WellFormed, Nodes
  <2> QED
    BY <2>1 DEF Node
<1>4. \A k \in Slots(cur) : ast[cur].kids[k] \in Nodes
  BY <1>2, TreeShape
<1>5. DOMAIN ast = Nodes
  BY <1>2 DEF WellFormed, Nodes
<1>6. \A n \in Nodes : IsValue(val[n]) => HasType(val[n], ty[n])
  BY <1>5 DEF CInv, Sound
<1> QED
  BY <1>1, <1>2, <1>3, <1>4, <1>6 DEF TypedBelow, Operand, Nodes

\* Whatever Eval returns for a node has the type the checker gave the node.
LEMMA ReturnTyped ==
    ASSUME CInv, phase = "eval", EvalReturn
    PROVE  HasType(val'[cur], ty[cur])
<1> DEFINE node == ast[cur]
           Arg(k) == ty[node.kids[k]]
           right == ast[node.kids[Len(node.kids)]]
           functions == call.options.functions
<1>1. IInv /\ TypeOK /\ CallStack /\ cur # 0
  BY ReturnsValue DEF CInv, IInv
<1>2. /\ cur \in Nodes /\ node.op \in Ops /\ call \in Calls
      /\ ty[cur] # Unknown
      /\ ty[cur] = CheckNode(ast, cur, ty, Names, functions)
      /\ \A k \in Slots(cur) :
            /\ Arg(k).enum # {} => Arg(k).kind = "string"
            /\ IsValue(Operand(cur, k)) => HasType(Operand(cur, k), Arg(k))
  BY <1>1, CheckedCurrent DEF Slots
<1>3. /\ node.op \in DOMAIN LiteralType =>
             ty[cur] = Type(LiteralType[node.op])
      /\ node.op = "Identifier" =>
             node.tok \in Names /\ ty[cur] = VariableType(node.tok)
      /\ node.op = "Prefix" => node.tok = "!" /\ ty[cur] = Type("boolean")
      /\ node.op = "Infix" =>
             /\ InfixAccepts(node.tok, Arg(1), Arg(2), right)
             /\ ty[cur] = Type("boolean")
      /\ node.op = "Ternary" => ty[cur] = CompatibleType(Arg(2), Arg(3), right)
      /\ node.op = "Call" =>
             /\ node.tok \in Callable(functions)
             /\ ty[cur] = Type(Signature(functions, node.tok).ret)
      /\ node.op = "Array" =>
             /\ \A k \in DOMAIN node.kids : Is(Arg(k), {"string"})
             /\ ty[cur] = Type("array")
  BY <1>1, <1>2, CheckedNode DEF TypeOK, Nodes
<1> HIDE DEF Arg, right, functions
<1>4. \A v : Return(v) => val'[cur] = v
  BY <1>1, <1>2 DEF Return, TypeOK, Nodes
<1>5. scope = ScopeOf(call.ctx, ContextEntryPoint(call), functions)
  BY DEF CInv, functions
<1>6. \A op : Ready(op) => /\ node.op = op /\ ~Failed(cur)
                           /\ \A k \in Slots(cur) : ~Wants(cur, k)
  BY DEF Ready, Slots
<1>7. \A t : Type(t).kind = t
  BY DEF Type
<1>8. CASE PropagateError
  <2>1. PICK k \in Slots(cur) : /\ Operand(cur, k).kind = "ERROR"
                               /\ Return(Operand(cur, k))
    BY <1>8 DEF PropagateError, Slots
  <2>2. HasType(Operand(cur, k), Arg(k))
    BY <1>2, <2>1 DEF IsValue, Kinds
  <2> QED
    BY <1>4, <2>1, <2>2, TypedKinds
<1>9. CASE EvalLiteral
  <2>1. PICK op \in DOMAIN LiteralKind :
            node.op = op /\ val'[cur] = Atom(LiteralKind[op], node.tok)
    BY <1>4, <1>6, <1>9 DEF EvalLiteral
  <2>2. ty[cur].kind = LiteralType[op]
    BY <1>3, <1>7, <2>1 DEF LiteralKind, LiteralType
  <2>3. /\ val'[cur].kind = LiteralKind[op]
        /\ op \in {"Boolean", "Null", "Integer", "String", "Regexp"}
    BY <2>1 DEF Atom, LiteralKind
  <2> QED
    BY <2>2, <2>3, TypedKinds DEF LiteralKind, LiteralType
<1>10. CASE EvalDollar \/ EvalTemplate \/ EvalShell
  <2>1. node.op \in {"Dollar", "Template", "Shell"}
    BY <1>6, <1>10 DEF EvalDollar, EvalTemplate, EvalShell
  <2>2. ty[cur].kind = "string"
    BY <1>3, <1>7, <2>1 DEF LiteralType
  <2>3. \A u : HasType(Str(u), ty[cur])
    BY <2>2, TypedKinds DEF Str, Atom
  <2> QED
    BY <1>4, <1>10, <2>2, <2>3, ShellTyped
       DEF EvalDollar, EvalTemplate, EvalShell
<1>11. CASE EvalIdentifier
  <2>1. /\ node.tok \in Assigned(ContextEntryPoint(call))
        /\ ty[cur] = VariableType(node.tok)
    BY <1>3, <1>6, <1>11 DEF EvalIdentifier, Names
  <2>2. /\ node.tok \in DOMAIN scope.vars
        /\ HasType(scope.vars[node.tok], VariableType(node.tok))
    BY <1>2, <1>5, <2>1, ScopeTyped DEF functions
  <2> QED
    BY <1>4, <1>11, <2>1, <2>2 DEF EvalIdentifier
<1>12. CASE EvalPrefix
  <2>1. ty[cur].kind = "boolean" /\ node.tok = "!"
    BY <1>3, <1>6, <1>7, <1>12 DEF EvalPrefix
  <2>2. val'[cur] = EvalBangOperatorExpression(Operand(cur, 1))
    BY <1>4, <1>12, <2>1 DEF EvalPrefix, EvalPrefixExpression
  <2>3. val'[cur].kind = "BOOLEAN"
    BY <2>2 DEF EvalBangOperatorExpression, Bool, True, False, Atom
  <2> QED
    BY <2>1, <2>3, TypedKinds
<1>13. CASE EvalInfix
  <2>1. ty[cur].kind = "boolean"
    BY <1>3, <1>6, <1>7, <1>13 DEF EvalInfix
  <2>2. PICK v \in EvalInfixExpression(node.tok, Operand(cur, 1),
                                       Operand(cur, 2)) : Return(v)
    BY <1>13 DEF EvalInfix
  <2>3. v.kind = "BOOLEAN" \/ v = Error("type") \/ v = Error("regexp")
    BY <2>2, InfixKind
  <2>4. /\ HasType(Error("type"), ty[cur])
        /\ HasType(Error("regexp"), ty[cur])
    BY TypedKinds DEF Error, Atom
  <2> QED
    BY <1>4, <2>1, <2>2, <2>3, <2>4, TypedKinds
<1>14. CASE EvalLogical
  <2>1. /\ IsLogical(node) /\ Slots(cur) = 1..2
        /\ ~Failed(cur) /\ \A k \in Slots(cur) : ~Wants(cur, k)
    BY <1>1, <1>2, <1>6, <1>14, LazySlots DEF EvalLogical, TypeOK
  <2>2. ty[cur].kind = "boolean"
    BY <1>3, <1>6, <1>7, <1>14 DEF EvalLogical
  <2>3. Arg(1).kind = "boolean" /\ Arg(2).kind = "boolean"
    <3>1. InfixAccepts(node.tok, Arg(1), Arg(2), right)
      BY <1>3, <1>6, <1>14 DEF EvalLogical
    <3>2. node.tok \in LogicalOperators
      BY <2>1 DEF IsLogical
    <3> QED
      BY <3>1, <3>2 DEF InfixAccepts, LogicalOperators, Is
  <2>4. PICK k \in {1, 2} : IsValue(Operand(cur, k)) /\ Return(Operand(cur, k))
    BY <1>1, <1>14, <2>1, DecidedValue, LazySlots, <1>2 DEF EvalLogical, TypeOK
  <2> QED
    BY <1>2, <1>4, <2>1, <2>2, <2>3, <2>4, TypedKinds
<1>15. CASE EvalConditional
  <2>1. /\ node.op = "Ternary" /\ Slots(cur) = 1..3
        /\ ~Failed(cur) /\ \A k \in Slots(cur) : ~Wants(cur, k)
    BY <1>1, <1>2, <1>6, <1>15, LazySlots DEF EvalConditional, TypeOK
  <2>2. PICK k \in {2, 3} : IsValue(Operand(cur, k)) /\ Return(Operand(cur, k))
    BY <1>1, <1>2, <1>15, <2>1, DecidedValue, LazySlots
       DEF EvalConditional, TypeOK
  <2>3. HasType(Operand(cur, k), Arg(k))
    BY <1>2, <2>1, <2>2
  <2>4. /\ Operand(cur, k).kind # "ERROR"
    BY <2>1, <2>2 DEF Failed, Slots
  <2>5. \/ Arg(k).kind = ty[cur].kind
        \/ Arg(k).kind = "null"
    <3>1. ty[cur] = CompatibleType(Arg(2), Arg(3), right)
      BY <1>3, <2>1
    <3>2. /\ Compatible(Arg(2), Arg(3), right)
          /\ ty[cur] = IF Arg(2).kind = "null" THEN Arg(3) ELSE Arg(2)
      BY <1>2, <3>1 DEF CompatibleType
    <3>3. Arg(2).enum # {} => Arg(2).kind = "string"
      BY <1>2, <2>1
    <3> QED
      BY <3>2, <3>3 DEF Compatible, Is
  <2> QED
    BY <1>4, <2>2, <2>3, <2>4, <2>5, TypedKinds
<1>16. CASE EvalCall
  <2>1. /\ node.tok \in Callable(functions)
        /\ ty[cur] = Type(Signature(functions, node.tok).ret)
    BY <1>3, <1>6, <1>16 DEF EvalCall
  <2>2. PICK v \in EvalCallExpression(scope, node.tok, Operands(cur)) :
            Return(v)
    BY <1>16 DEF EvalCall
  <2>3. HasType(v, Type(Signature(functions, node.tok).ret))
    BY <1>2, <1>5, <2>1, <2>2, CallTyped DEF functions
  <2> QED
    BY <1>4, <2>1, <2>2, <2>3
<1>17. CASE EvalArray
  <2>1. /\ node.op = "Array" /\ ~Failed(cur)
        /\ \A k \in Slots(cur) : ~Wants(cur, k)
    BY <1>6, <1>17 DEF EvalArray
  <2>2. \A k \in Slots(cur) : /\ IsValue(Operand(cur, k))
                             /\ Operand(cur, k).kind # "ERROR"
    BY <1>1, <2>1, AllOperands DEF IsLogical
  <2>3. \A k \in Slots(cur) : Arg(k).kind = "string"
    BY <1>2, <1>3, <2>1 DEF Is, Slots
  <2>4. \A k \in Slots(cur) : Operand(cur, k).kind \in {"STRING", "NULL"}
    BY <1>2, <2>2, <2>3, TypedKinds
  <2>5. val'[cur] = Array(Operands(cur)) /\ ty[cur].kind = "array"
    BY <1>3, <1>4, <1>7, <1>17, <2>1 DEF EvalArray
  <2>6. \A es : \/ HasType(Array(es), ty[cur])
               \/ \E k \in DOMAIN es : es[k].kind \notin {"STRING", "NULL"}
    BY <2>5 DEF HasType, Array
  <2>7. /\ DOMAIN Operands(cur) = Slots(cur)
        /\ \A k \in Slots(cur) : Operands(cur)[k] = Operand(cur, k)
    BY DEF Operands, Slots
  <2> QED
    BY <2>4, <2>5, <2>6, <2>7
<1> QED
  BY <1>8, <1>9, <1>10, <1>11, <1>12, <1>13, <1>14, <1>15, <1>16, <1>17
     DEF EvalReturn

-----------------------------------------------------------------------------
(* The static checks. *)

\* Only strings are enumerated.
LEMMA EnumIsString ==
    ASSUME NEW t, WellFormed(t), NEW n \in 1..Len(t), NEW names, NEW functions,
           NEW tys,
           \A k \in 1..(n - 1) : tys[k].enum # {} => tys[k].kind = "string",
           CheckNode(t, n, tys, names, functions) # Unknown,
           CheckNode(t, n, tys, names, functions).enum # {}
    PROVE  CheckNode(t, n, tys, names, functions).kind = "string"
<1> DEFINE type == CheckNode(t, n, tys, names, functions)
           node == t[n]
           Arg(k) == tys[node.kids[k]]
<1>1. node \in Node /\ Len(node.kids) = Arity(node)
  BY DEF WellFormed
<1>2. /\ node.op \in Ops
      /\ DOMAIN node.kids = 1..Len(node.kids)
  BY <1>1 DEF Node
<1>3. \/ \E kind : type = Type(kind)
      \/ type = VariableType(node.tok)
      \/ /\ node.op = "Ternary"
         /\ type = CompatibleType(Arg(2), Arg(3), t[node.kids[Len(node.kids)]])
  BY <1>2, CheckedNode DEF Ops, LeafOps, LiteralType
<1>4. CASE \E kind : type = Type(kind)
  BY <1>4 DEF Type
<1>5. CASE type = VariableType(node.tok)
  BY <1>5 DEF VariableType, Enum, Type
<1>6. CASE /\ node.op = "Ternary"
           /\ type = CompatibleType(Arg(2), Arg(3), t[node.kids[Len(node.kids)]])
  <2>1. type \in {Arg(2), Arg(3)}
    BY <1>6 DEF CompatibleType
  <2>2. node.kids[2] \in 1..(n - 1) /\ node.kids[3] \in 1..(n - 1)
    <3>1. Len(node.kids) = 3
      BY <1>1, <1>6 DEF Arity, LeafOps
    <3>2. \A k \in 1..Len(node.kids) : node.kids[k] \in 1..(n - 1)
      BY DEF WellFormed
    <3> QED
      BY <3>1, <3>2
  <2> HIDE DEF type
  <2> QED
    BY <2>1, <2>2 DEF type
<1> QED
  BY <1>3, <1>4, <1>5, <1>6

-----------------------------------------------------------------------------
(* The steps preserve the invariant. *)

\* A step to a phase that relies only on the call.
LEMMA PlainStep ==
    ASSUME CInv, phase # "idle", call' = call,
           phase' \notin {"validate", "check", "scope", "eval"}
    PROVE  CInv'
BY DEF CInv, Sound

\* Every reply ends the call.
LEMMA AnswerStep ==
    ASSUME CInv, phase # "idle", NEW r, Answer(r)
    PROVE  CInv'
BY PlainStep DEF Answer

LEMMA FailStep ==
    ASSUME CInv, phase # "idle", NEW kind, Fail(kind) \/ FailEarly(kind)
    PROVE  CInv'
BY AnswerStep DEF Fail, FailEarly

LEMMA InvokeStep ==
    ASSUME CInv, Invoke
    PROVE  CInv'
BY DEF CInv, Sound, Invoke

LEMMA EntryPointStep ==
    ASSUME CInv, EntryPoint
    PROVE  CInv'
<1>1. CASE FailEarly("validation")
  BY <1>1, FailStep DEF EntryPoint
<1>2. CASE Goto("blank") \/ Goto("options")
  BY <1>2, PlainStep DEF EntryPoint, Goto
<1> QED
  BY <1>1, <1>2 DEF EntryPoint

LEMMA ApplyOptionsStep ==
    ASSUME CInv, ApplyOptions
    PROVE  CInv'
<1>1. CASE FailEarly("validation")
  BY <1>1, FailStep DEF ApplyOptions
<1>2. CASE Goto("blank")
  BY <1>2, PlainStep DEF ApplyOptions, Goto
<1> QED
  BY <1>1, <1>2 DEF ApplyOptions

LEMMA BlankStep ==
    ASSUME CInv, Blank
    PROVE  CInv'
<1>1. CASE \E r : Answer(r)
  BY <1>1, AnswerStep DEF Blank
<1>2. CASE Goto("parse")
  BY <1>2, PlainStep DEF Blank, Goto
<1> QED
  BY <1>1, <1>2 DEF Blank

LEMMA ParseStep ==
    ASSUME CInv, Parse
    PROVE  CInv'
<1>1. CASE Fail("parse")
  BY <1>1, FailStep DEF Parse
<1>2. CASE /\ call.expr.form = "parsed"
           /\ Goto("validate") /\ ast' = call.expr.tree
  <2>1. call \in Calls /\ call' = call /\ phase' = "validate"
    BY <1>2 DEF CInv, Parse, Goto
  <2>2. WellFormed(ast')
    BY <1>2, <2>1, CallsAssumption
  <2> QED
    BY <2>1, <2>2 DEF CInv, Sound, WellFormed
<1> QED
  BY <1>1, <1>2 DEF Parse

LEMMA ValidateStep ==
    ASSUME CInv, ValidateExpression
    PROVE  CInv'
<1>1. CASE Fail("validation")
  BY <1>1, FailStep DEF ValidateExpression
<1>2. CASE /\ Goto("check")
           /\ ty' = [n \in DOMAIN ast |-> Unknown]
           /\ checked' = 0
  <2>1. /\ call \in Calls /\ call' = call /\ phase' = "check"
        /\ ast' = ast /\ WellFormed(ast)
    BY <1>2 DEF CInv, ValidateExpression, Goto
  <2>2. DOMAIN ast = 1..Len(ast) /\ Len(ast) \in Nat
    BY <2>1 DEF WellFormed
  <2>3. TypedBelow(0)' /\ checked' \in 0..Len(ast')
    BY <1>2, <2>1, <2>2 DEF TypedBelow, Nodes
  <2> QED
    BY <1>2, <2>1, <2>3 DEF CInv, Sound, WellFormed, TypedBelow
<1> QED
  BY <1>1, <1>2 DEF ValidateExpression

\* The checker visits one more node; what it said of the others stands.
LEMMA CheckStep ==
    ASSUME CInv, Check
    PROVE  CInv'
<1> DEFINE n == checked + 1
           functions == call.options.functions
           type == CheckNode(ast, n, ty, Names, functions)
<1>1. CASE Fail("validation")
  BY <1>1, FailStep DEF Check
<1>2. CASE /\ type # Unknown
           /\ Goto("check")
           /\ ty' = [ty EXCEPT ![n] = type]
           /\ checked' = n
  <2>1. /\ call \in Calls /\ call' = call /\ phase' = "check"
        /\ ast' = ast /\ WellFormed(ast) /\ Names' = Names
        /\ checked \in 0..Len(ast) /\ checked < Len(ast)
        /\ TypedBelow(checked)
    BY <1>2 DEF CInv, Check, Goto, Names, ContextEntryPoint
  <2>2. DOMAIN ty = Nodes /\ Len(ast) \in Nat /\ n \in Nodes
    BY <2>1, TreeShape DEF TypedBelow, Nodes
  <2>3. \A m \in Nodes : ty'[m] = IF m = n THEN type ELSE ty[m]
    BY <1>2, <2>2
  <2>4. \A m \in 1..n :
            CheckNode(ast, m, ty', Names, functions)
              = CheckNode(ast, m, ty, Names, functions)
    <3> TAKE m \in 1..n
    <3>1. m \in 1..Len(ast) /\ \A k \in 1..(m - 1) : ty'[k] = ty[k]
      BY <2>1, <2>2, <2>3 DEF Nodes
    <3> HIDE DEF n, functions
    <3> QED
      BY <2>1, <3>1, CheckLocal
  <2>5. type.enum # {} => type.kind = "string"
    <3>1. \A k \in 1..(n - 1) : ty[k].enum # {} => ty[k].kind = "string"
      BY <2>1 DEF TypedBelow
    <3>2. n \in 1..Len(ast)
      BY <2>2 DEF Nodes
    <3> HIDE DEF n, functions
    <3> QED
      BY <1>2, <2>1, <3>1, <3>2, EnumIsString
  <2>6. /\ DOMAIN ty' = Nodes
        /\ \A m \in 1..n :
             /\ ty'[m] # Unknown
             /\ ty'[m].enum # {} => ty'[m].kind = "string"
             /\ ty'[m] = CheckNode(ast, m, ty', Names, functions)
    <3>1. DOMAIN ty' = Nodes
      BY <1>2, <2>2
    <3>2. ASSUME NEW m \in 1..n
          PROVE  /\ ty'[m] # Unknown
                 /\ ty'[m].enum # {} => ty'[m].kind = "string"
                 /\ ty'[m] = CheckNode(ast, m, ty, Names, functions)
      <4>1. m \in Nodes
        BY <2>1, <2>2 DEF Nodes
      <4>2. CASE m = n
        BY <1>2, <2>3, <2>5, <4>1, <4>2
      <4>3. CASE m # n
        <5>1. m \in 1..checked
          BY <2>1, <4>3
        <5> QED
          BY <2>1, <2>3, <4>1, <4>3, <5>1 DEF TypedBelow
      <4> QED
        BY <4>2, <4>3
    <3> QED
      BY <2>4, <3>1, <3>2
  <2>7. checked' \in 0..Len(ast') /\ TypedBelow(checked)'
    <3>1. checked' \in 0..Len(ast')
      BY <1>2, <2>1, <2>2
    <3>2. Nodes' = Nodes /\ checked' = n /\ call' = call
      BY <1>2, <2>1 DEF Nodes
    <3> HIDE DEF n
    <3> QED
      BY <2>1, <2>6, <3>1, <3>2 DEF TypedBelow, functions
  <2> QED
    BY <2>1, <2>7, SMTT(20) DEF CInv, Sound, WellFormed
<1> QED
  BY <1>1, <1>2 DEF Check

LEMMA CheckResultStep ==
    ASSUME CInv, CheckResult
    PROVE  CInv'
<1>1. CASE Fail("result")
  BY <1>1, FailStep DEF CheckResult
<1>2. CASE \E r : Answer(r)
  BY <1>2, AnswerStep DEF CheckResult
<1>3. CASE ty[Root].kind = "boolean" /\ Goto("scope")
  <2>1. /\ call \in Calls /\ call' = call /\ phase' = "scope"
        /\ ast' = ast /\ ty' = ty /\ checked' = checked
        /\ WellFormed(ast) /\ TypedBelow(checked)
        /\ checked \in 0..Len(ast) /\ checked = Len(ast)
    BY <1>3 DEF CInv, CheckResult, Goto, Idle
  <2>2. TypedBelow(checked)' /\ Root' = Root
    BY <2>1 DEF TypedBelow, Nodes, Names, ContextEntryPoint, Root
  <2> QED
    BY <1>3, <2>1, <2>2 DEF CInv, Sound, WellFormed
<1> QED
  BY <1>1, <1>2, <1>3 DEF CheckResult

\* The evaluation begins in the scope that was built, with nothing evaluated.
LEMMA BuildScopeStep ==
    ASSUME CInv, BuildScope
    PROVE  CInv'
<1>1. /\ call \in Calls /\ call' = call /\ phase' = "eval"
      /\ ast' = ast /\ ty' = ty /\ checked' = checked
      /\ WellFormed(ast) /\ TypedBelow(checked)
      /\ checked = Len(ast) /\ checked \in 0..Len(ast)
      /\ ty[Root].kind = "boolean"
      /\ scope' = ScopeOf(call.ctx, ContextEntryPoint(call),
                          call.options.functions)
      /\ cur' = Root /\ val' = Started(ast)
  BY DEF CInv, BuildScope, Goto
<1>2. TypedBelow(checked)' /\ Root' = Root
  BY <1>1 DEF TypedBelow, Nodes, Names, ContextEntryPoint, Root
<1>3. Bound(scope')
  BY <1>1, ScopeTyped
<1>4. IInv'
  <2>1. (WellFormed(ast) /\ Bound(scope) /\ cur = Root /\ val = Started(ast)
           => IInv)'
    BY StartIInv, PTL
  <2> QED
    BY <1>1, <1>2, <1>3, <2>1
<1>5. Sound'
  <2>1. \A n \in DOMAIN ast : val'[n] \in {None, Open}
    BY <1>1 DEF Started
  <2>2. ~IsValue(None) /\ ~IsValue(Open)
    BY DEF None, Open, Atom, IsValue, Kinds
  <2> QED
    BY <1>1, <2>1, <2>2 DEF Sound, IsValue
<1> QED
  BY <1>1, <1>2, <1>4, <1>5 DEF CInv, WellFormed

\* The evaluator stores values of the types that the checker promised.
LEMMA EvaluatingStep ==
    ASSUME CInv, Evaluating
    PROVE  CInv'
<1>1. /\ phase = "eval" /\ Eval
      /\ UNCHANGED <<phase, call, ty, checked>>
      /\ ast' = ast /\ scope' = scope
      /\ IInv /\ Sound
  BY DEF CInv, Evaluating, Eval, EvalOperand, EvalReturn, PropagateError,
         EvalLiteral, EvalDollar, EvalTemplate, EvalShell, EvalIdentifier,
         EvalPrefix, EvalInfix, EvalLogical, EvalConditional, EvalCall,
         EvalArray, Return, callVars
<1>2. IInv'
  BY <1>1, NextIInv DEF Next
<1>3. DOMAIN ast = Nodes /\ DOMAIN val = Nodes
  BY <1>1 DEF IInv, TypeOK, WellFormed, Nodes
<1>4. Sound'
  <2>1. CASE EvalOperand
    <3>1. \A n \in Nodes : val'[n] \in {val[n], Open}
      BY <1>3, <2>1 DEF EvalOperand
    <3>2. ~IsValue(Open)
      BY DEF Open, Atom, IsValue, Kinds
    <3> QED
      BY <1>1, <1>3, <3>1, <3>2 DEF Sound, IsValue
  <2>2. CASE EvalReturn
    <3>1. HasType(val'[cur], ty[cur])
      BY <1>1, <2>2, ReturnTyped
    <3>2. \A n \in Nodes : n = cur \/ val'[n] = val[n]
      <4>1. PICK r : Return(r)
        BY <1>1, <2>2, ReturnsValue DEF IInv
      <4> QED
        BY <1>3, <4>1 DEF Return
    <3> QED
      BY <1>1, <1>3, <3>1, <3>2 DEF Sound, IsValue
  <2> QED
    BY <1>1, <2>1, <2>2 DEF Eval
<1>5. TypedBelow(checked)' = TypedBelow(checked) /\ Root' = Root
  BY <1>1 DEF TypedBelow, Nodes, Names, ContextEntryPoint, Root
<1>6. /\ call \in Calls /\ WellFormed(ast)
      /\ checked = Len(ast) /\ checked \in 0..Len(ast) /\ TypedBelow(checked)
      /\ ty[Root].kind = "boolean"
      /\ scope = ScopeOf(call.ctx, ContextEntryPoint(call),
                         call.options.functions)
  BY <1>1 DEF CInv
<1> QED
  BY <1>1, <1>2, <1>4, <1>5, <1>6 DEF CInv, WellFormed

LEMMA ResultStep ==
    ASSUME CInv, Result
    PROVE  CInv'
<1>1. phase # "idle"
  BY DEF Result
<1>2. (\E r : Answer(r)) \/ (\E kind : Fail(kind))
  BY DEF Result
<1> QED
  BY <1>1, <1>2, AnswerStep, FailStep

LEMMA FinishStep ==
    ASSUME CInv, Finish
    PROVE  CInv'
BY DEF CInv, Sound, Finish

-----------------------------------------------------------------------------
(* The theorems. *)

LEMMA NextCInv == CInv /\ [CNext]_vars => CInv'
<1> SUFFICES ASSUME CInv, [CNext]_vars PROVE CInv'
  OBVIOUS
<1>1. CASE UNCHANGED vars
  <2>1. UNCHANGED evalVars
    BY <1>1 DEF vars, evalVars
  <2>2. IInv => IInv'
    BY <2>1, NextIInv
  <2>3. /\ TypedBelow(checked)' = TypedBelow(checked) /\ Root' = Root
        /\ Sound' = Sound
    BY <1>1 DEF vars, TypedBelow, Nodes, Names, ContextEntryPoint, Root, Sound,
                IsValue
  <2> QED
    BY <1>1, <2>2, <2>3 DEF vars, CInv, WellFormed
<1> QED
  BY <1>1, InvokeStep, EntryPointStep, ApplyOptionsStep, BlankStep, ParseStep,
     ValidateStep, CheckStep, CheckResultStep, BuildScopeStep, EvaluatingStep,
     ResultStep, FinishStep DEF CNext, Serve

LEMMA InitCInv == CInit => CInv
BY DEF CInit, CInv, Sound

THEOREM InvariantHolds == CSpec => []CInv
BY InitCInv, NextCInv, PTL DEF CSpec

\* The static checks are sound: during every evaluation every value computed
\* has the type that the checker gave its node.
THEOREM ChecksAreSound == CSpec => []Sound
BY InvariantHolds, PTL DEF CInv

LEMMA SoundResult == CInv => ResultIsBoolean
<1> SUFFICES ASSUME CInv, phase = "eval", cur = 0
             PROVE  val[Root].kind \in {"BOOLEAN", "NULL", "ERROR"}
  BY DEF ResultIsBoolean
<1>1. IsValue(val[Root]) /\ ty[Root].kind = "boolean" /\ WellFormed(ast)
  BY DEF CInv, IInv, CallStack
<1>2. Root \in DOMAIN ast
  <2>1. DOMAIN ast = Nodes
    BY <1>1 DEF WellFormed, Nodes
  <2> QED
    BY <1>1, <2>1, TreeShape
<1>3. HasType(val[Root], ty[Root])
  BY <1>1, <1>2 DEF CInv, Sound
<1> QED
  BY <1>1, <1>3, TypedKinds

\* The last case of the switch in evaluate is dead code: an expression that
\* was accepted yields a boolean, a null or an error.
THEOREM AcceptedYieldsBoolean == CSpec => []ResultIsBoolean
BY SoundResult, InvariantHolds, PTL

\* Whatever is wrong with an expression, a notification has no error.
THEOREM NotificationsNeverFail == CSpec => []NotificationsSwallowErrors
<1>1. CInit => NotificationsSwallowErrors
  BY DEF CInit, NotificationsSwallowErrors
<1>2. ASSUME NotificationsSwallowErrors, [CNext]_vars
      PROVE  NotificationsSwallowErrors'
  <2> DEFINE Loud == /\ call.api = "Evaluate" /\ call.options.ok
                     /\ IsNotificationEntryPoint(call.entryPoint)
  <2>1. Loud => /\ IsNotificationEntryPoint(NormalizeEntryPoint(call.entryPoint))
                /\ NormalizeEntryPoint(call.entryPoint) \in EntryPoints
    BY DEF IsNotificationEntryPoint, NormalizeEntryPoint, EntryPoints
  <2>2. \/ UNCHANGED <<phase, call, reply>>
        \/ phase' # "done"
        \/ call' = call /\ reply'.err = ""
        \/ ~Loud /\ call' = call
    <3>1. ASSUME NEW b, Answer(Reply(b, ""))
          PROVE  call' = call /\ reply'.err = ""
      BY <3>1 DEF Answer, Reply
    <3>2. ASSUME NEW kind, Fail(kind)
          PROVE  call' = call /\ (Loud => reply'.err = "")
      <4>1. call' = call /\ (Loud => Answer(Reply(FALSE, "")))
        BY <2>1, <3>2 DEF Fail, Answer
      <4> HIDE DEF Loud
      <4> QED
        BY <3>1, <4>1
    <3>3. ASSUME NEW kind, FailEarly(kind) PROVE call' = call
      BY <3>3 DEF FailEarly, Answer
    <3>4. CASE EntryPoint
      BY <2>1, <3>3, <3>4 DEF EntryPoint, Goto
    <3>5. CASE ApplyOptions
      BY <3>3, <3>5 DEF ApplyOptions, Goto
    <3>6. CASE Blank
      BY <3>1, <3>6 DEF Blank, Goto
    <3>7. CASE Parse \/ ValidateExpression \/ Check
      BY <3>2, <3>7 DEF Parse, ValidateExpression, Check, Goto
    <3>8. CASE CheckResult
      BY <3>1, <3>2, <3>8 DEF CheckResult, Goto
    <3>9. CASE Result
      BY <3>1, <3>2, <3>9 DEF Result
    <3>10. CASE Invoke \/ Finish \/ BuildScope
      BY <3>10 DEF Invoke, Finish, BuildScope, Goto
    <3>11. CASE Evaluating \/ UNCHANGED vars
      BY <3>11 DEF Evaluating, callVars, vars
    <3> HIDE DEF Loud
    <3> QED
      BY <1>2, <3>4, <3>5, <3>6, <3>7, <3>8, <3>9, <3>10, <3>11 DEF CNext, Serve
  <2> QED
    BY <1>2, <2>2 DEF NotificationsSwallowErrors, IsNotificationEntryPoint
<1> QED
  BY <1>1, <1>2, PTL DEF CSpec

-----------------------------------------------------------------------------
(* Where type errors come from. *)

\* A value that is neither null nor an error tells its type.
LEMMA KindTellsType ==
    ASSUME NEW o, NEW t, HasType(o, t), o.kind \notin {"NULL", "ERROR"}
    PROVE  /\ o.kind = "STRING" <=> t.kind = "string"
           /\ o.kind = "REGEXP" <=> t.kind = "regexp"
           /\ o.kind = "ARRAY" <=> t.kind = "array"
           /\ o.kind = "ARRAY" =>
                \A i \in DOMAIN o.elems : o.elems[i].kind \in {"STRING", "NULL"}
           /\ t.kind # "null"
BY DEF HasType, RuntimeKind

\* An infix operator that the checker accepted computes with all its operands
\* but a null, or an array with a null in it.
LEMMA InfixOfTyped ==
    ASSUME NEW op, op \notin LogicalOperators, NEW tl, NEW tr, NEW right,
           InfixAccepts(op, tl, tr, right),
           NEW l, HasType(l, tl), l.kind \notin {"NULL", "ERROR"},
           NEW r, HasType(r, tr), r.kind \notin {"NULL", "ERROR"},
           Error("type") \in EvalInfixExpression(op, l, r)
    PROVE  \E i \in DOMAIN l.elems : l.elems[i].kind = "NULL"
<1>1. \A b : Bool(b) # Error("type")
  BY DEF Bool, True, False, Error, Atom
<1>2. /\ True # Error("type") /\ False # Error("type")
      /\ Error("regexp") # Error("type")
  BY DEF True, False, Error, Atom
<1>3. \/ op \in {"=~", "!~"} \/ op = "includes" \/ op \in {"==", "!="}
  BY DEF InfixAccepts
<1>4. CASE op \in {"=~", "!~"}
  <2>1. l.kind = "STRING" /\ r.kind = "REGEXP"
    BY <1>4, KindTellsType DEF InfixAccepts, Is
  <2>2. Error("type") \in EvalStringRegexp(op, l, r)
    BY <2>1 DEF EvalInfixExpression
  <2> QED
    BY <1>1, <1>2, <1>4, <2>2 DEF EvalStringRegexp
<1>5. CASE op = "includes"
  <2>1. l.kind = "ARRAY" /\ r.kind \in {"STRING", "REGEXP"}
    BY <1>5, KindTellsType DEF InfixAccepts, Is
  <2>2. Error("type") \in ArrayContains(l.elems, r)
    BY <1>5, <2>1 DEF EvalInfixExpression
  <2>3. PICK i \in DOMAIN l.elems : ~Comparable(l.elems[i], r)
    BY <1>2, <2>1, <2>2 DEF ArrayContains
  <2>4. l.elems[i].kind # "STRING"
    BY <2>1, <2>3 DEF Comparable
  <2> QED
    BY <2>1, <2>4, KindTellsType
<1>6. CASE op \in {"==", "!="}
  <2>1. Compatible(tl, tr, right)
    BY <1>6 DEF InfixAccepts
  <2>2. ~(l.kind = "STRING" /\ r.kind = "REGEXP")
    BY <2>1, KindTellsType DEF Compatible, Is
  <2>3. Error("type") = Comparison(op, l, r)
    BY <1>6, <2>2 DEF EvalInfixExpression
  <2> QED
    BY <1>1, <1>6, <2>3 DEF Comparison
<1> QED
  BY <1>3, <1>4, <1>5, <1>6

\* Whatever else fails, an expansion, a function or a lookup of a name in the
\* environment, is not an error of a type.
LEMMA OtherErrors ==
    ASSUME NEW x, NEW env, NEW args
    PROVE  /\ EvalShellExpansion(x, env) # Error("type")
           /\ EvalString(x, env) # Error("type")
           /\ EnvFunction(env, args) # Error("type")
           /\ NullableEnvFunction(env, args) # Error("type")
<1>1. \A s : Str(s) # Error("type")
  BY DEF Str, Error, Atom
<1>2. /\ Error("shell") # Error("type") /\ Error("env") # Error("type")
      /\ Null # Error("type")
  BY DEF Error, Null, Atom
<1>3. EvalBraced(x, env) # Error("type")
  BY <1>1, <1>2 DEF EvalBraced
<1> QED
  BY <1>1, <1>2, <1>3
     DEF EvalShellExpansion, EvalString, EnvFunction, NullableEnvFunction

\* No variable is bound to an error.
LEMMA VariablesAreNoErrors ==
    ASSUME NEW c \in Calls, NEW entryPoint, NEW x \in Assigned(entryPoint),
           NEW s, s = ScopeOf(c.ctx, entryPoint, c.options.functions)
    PROVE  s.vars[x] # Error("type")
<1>1. /\ \A t : Str(t).kind # "ERROR"
      /\ Null.kind # "ERROR" /\ Error("type").kind = "ERROR"
  BY DEF Str, Null, Error, Atom
<1>2. x \in AllVariables
  BY VariablesAssumption DEF Assigned
<1>3. \A f \in AllVariables : Field(c.ctx, f).kind # "ERROR"
  BY <1>1, ContextsAssumption DEF Field, IsError
<1>4. "build.pull_request.label" \in AllVariables
  BY DEF AllVariables, StringVariables
<1>5. \A f \in AllVariables : \A e : FromWebhook(c.ctx, f, e).kind # "ERROR"
  BY <1>1, ContextsAssumption DEF FromWebhook, IsError
<1>6. \A o : o.kind # "ERROR" => PresenceStringValue(o).kind # "ERROR"
  BY <1>1 DEF PresenceStringValue
<1>7. "build.source_event" \in AllVariables /\ "build.source_action" \in AllVariables
  BY DEF AllVariables, StringVariables
<1>8. Value(c.ctx, x).kind # "ERROR"
  BY <1>1, <1>2, <1>3, <1>4, <1>5, <1>6, <1>7
     DEF Value, SourceEvent, SourceAction, PullRequestLabel
<1>9. s.vars[x] = Value(c.ctx, x)
  BY DEF ScopeOf, FlatAssignments
<1> QED
  BY <1>1, <1>8, <1>9

\* No function that may be called answers with a type error.
LEMMA CallsAreNoTypeErrors ==
    ASSUME NEW c \in Calls, NEW entryPoint,
           NEW s, s = ScopeOf(c.ctx, entryPoint, c.options.functions),
           NEW f \in Callable(c.options.functions), NEW args,
           NEW v \in EvalCallExpression(s, f, args)
    PROVE  v # Error("type")
<1> DEFINE functions == c.options.functions
<1>1. /\ f \in DOMAIN s.vars /\ s.vars[f] = Function(f)
      /\ s.functions = functions
  BY ScopeTyped
<1>2. /\ \A g : Function(g).kind = "FUNCTION" /\ Function(g).v = g
      /\ \A g, h : Function(g) = Function(h) => g = h
  BY DEF Function, Atom
<1>3. v \in ApplyFunction(s, Function(f), args)
  BY <1>1 DEF EvalCallExpression
<1>4. CASE f \in {"env", "build.env"}
  <2>1. v \in {EnvFunction(s.env, args), NullableEnvFunction(s.env, args)}
    <3>1. CASE f = "env"
      BY <1>2, <1>3, <3>1 DEF ApplyFunction
    <3>2. CASE f = "build.env"
      BY <1>2, <1>3, <3>2 DEF ApplyFunction
    <3> QED
      BY <1>4, <3>1, <3>2
  <2> QED
    BY <2>1, OtherErrors
<1>5. CASE f \notin {"env", "build.env"}
  <2>1. f \in DOMAIN functions
    BY <1>5 DEF Callable
  <2>2. v \in ObjectFunction(functions[f])
    BY <1>1, <1>2, <1>3, <1>5 DEF ApplyFunction
  <2>3. functions[f].ret \in DOMAIN RuntimeKind
    BY <2>1, FunctionsAssumption
  <2>4. Error("function") # Error("type") /\ Error("type").kind = "ERROR"
    BY DEF Error, Atom
  <2>5. v.kind \in {"NULL", RuntimeKind[functions[f].ret]}
          \/ v = Error("function")
    BY <2>2 DEF ObjectFunction
  <2> QED
    BY <2>3, <2>4, <2>5 DEF RuntimeKind
<1> QED
  BY <1>4, <1>5

\* A return of Eval that is a new type error is that of an infix operator.
LEMMA ReturnOfTyped ==
    ASSUME CInv, phase = "eval", EvalReturn, ~Failed(cur),
           val'[cur] = Error("type")
    PROVE  \E k \in DOMAIN ast[cur].kids : NullOperand(Operand(cur, k))
<1> DEFINE node == ast[cur]
           Arg(k) == ty[node.kids[k]]
           right == ast[node.kids[Len(node.kids)]]
           functions == call.options.functions
<1>1. IInv /\ TypeOK /\ CallStack /\ cur # 0
  BY ReturnsValue DEF CInv, IInv
<1>2. /\ cur \in Nodes /\ node.op \in Ops /\ call \in Calls
      /\ ty[cur] # Unknown
      /\ ty[cur] = CheckNode(ast, cur, ty, Names, functions)
      /\ \A k \in Slots(cur) :
            IsValue(Operand(cur, k)) => HasType(Operand(cur, k), Arg(k))
  BY <1>1, CheckedCurrent DEF Slots
<1>3. /\ node.op = "Identifier" => node.tok \in Names
      /\ node.op = "Prefix" => node.tok = "!"
      /\ node.op = "Infix" => InfixAccepts(node.tok, Arg(1), Arg(2), right)
      /\ node.op = "Call" => node.tok \in Callable(functions)
  BY <1>1, <1>2, CheckedNode DEF TypeOK, Nodes
<1> HIDE DEF Arg, right, functions
<1>4. \A v : Return(v) => val'[cur] = v
  BY <1>1, <1>2 DEF Return, TypeOK, Nodes
<1>5. scope = ScopeOf(call.ctx, ContextEntryPoint(call), functions)
  BY DEF CInv, functions
<1>6. \A op : Ready(op) => /\ node.op = op
                           /\ \A k \in Slots(cur) : ~Wants(cur, k)
  BY DEF Ready, Slots
<1>7. Error("type").kind = "ERROR"
  BY DEF Error, Atom
<1>8. \A k \in Slots(cur) : Operand(cur, k).kind # "ERROR"
  BY DEF Failed, Slots
<1>9. ASSUME EvalInfix
      PROVE  \E k \in Slots(cur) : NullOperand(Operand(cur, k))
  <2>1. /\ node.op = "Infix" /\ ~IsLogical(node)
        /\ \A k \in Slots(cur) : ~Wants(cur, k)
    BY <1>6, <1>9 DEF EvalInfix
  <2>2. Error("type") \in EvalInfixExpression(node.tok, Operand(cur, 1),
                                             Operand(cur, 2))
    BY <1>4, <1>9 DEF EvalInfix
  <2>3. Slots(cur) = 1..2
    <3>1. node \in Node /\ Len(node.kids) = Arity(node)
      BY <1>1, <1>2 DEF TypeOK, WellFormed, Nodes
    <3>2. Arity(node) = 2
      BY <2>1 DEF Arity, LeafOps
    <3> QED
      BY <3>1, <3>2 DEF Slots, Node
  <2>4. \A k \in 1..2 : /\ IsValue(Operand(cur, k))
                        /\ HasType(Operand(cur, k), Arg(k))
    BY <1>1, <1>2, <2>1, <2>3, AllOperands
  <2>5. CASE \E k \in 1..2 : Operand(cur, k).kind = "NULL"
    BY <2>3, <2>5 DEF NullOperand
  <2>6. CASE \A k \in 1..2 : Operand(cur, k).kind # "NULL"
    <3>1. node.tok \notin LogicalOperators
      BY <2>1 DEF IsLogical
    <3>2. /\ Operand(cur, 1).kind \notin {"NULL", "ERROR"}
          /\ Operand(cur, 2).kind \notin {"NULL", "ERROR"}
      BY <1>8, <2>3, <2>6
    <3>3. \E i \in DOMAIN Operand(cur, 1).elems :
              Operand(cur, 1).elems[i].kind = "NULL"
      BY <1>3, <2>1, <2>2, <2>4, <3>1, <3>2, InfixOfTyped
    <3> QED
      BY <2>3, <3>3 DEF NullOperand
  <2> QED
    BY <2>5, <2>6
<1>10. ~PropagateError
  BY <1>8 DEF PropagateError, Slots
<1>11. ~EvalLiteral
  <2>1. \A op \in DOMAIN LiteralKind : \A tok : Atom(LiteralKind[op], tok).kind # "ERROR"
    BY DEF Atom, LiteralKind
  <2> QED
    BY <1>4, <1>7, <2>1 DEF EvalLiteral
<1>12. ~(EvalDollar \/ EvalTemplate \/ EvalShell)
  <2>1. \A s : Str(s).kind # "ERROR"
    BY DEF Str, Atom
  <2> QED
    BY <1>4, <1>7, <2>1, OtherErrors DEF EvalDollar, EvalTemplate, EvalShell
<1>13. ~EvalIdentifier
  <2> SUFFICES ASSUME EvalIdentifier PROVE FALSE
    OBVIOUS
  <2>1. node.tok \in Assigned(ContextEntryPoint(call))
    BY <1>3, <1>6 DEF EvalIdentifier, Names
  <2>2. node.tok \in DOMAIN scope.vars
    BY <1>2, <1>5, <2>1, ScopeTyped DEF functions
  <2> QED
    BY <1>2, <1>4, <1>5, <2>1, <2>2, VariablesAreNoErrors
       DEF EvalIdentifier, functions
<1>14. ~EvalPrefix
  <2> SUFFICES ASSUME EvalPrefix PROVE FALSE
    OBVIOUS
  <2>1. val'[cur] = EvalBangOperatorExpression(Operand(cur, 1))
    BY <1>3, <1>4, <1>6 DEF EvalPrefix, EvalPrefixExpression
  <2> QED
    BY <1>7, <2>1 DEF EvalBangOperatorExpression, Bool, True, False, Atom
<1>15. ~EvalLogical
  <2> SUFFICES ASSUME EvalLogical PROVE FALSE
    OBVIOUS
  <2>1. IsLogical(node) /\ Slots(cur) = 1..2
        /\ \A k \in Slots(cur) : ~Wants(cur, k)
    BY <1>1, <1>2, <1>6, LazySlots DEF EvalLogical, TypeOK
  <2>2. PICK k \in {1, 2} : Return(Operand(cur, k))
    BY DEF EvalLogical
  <2> QED
    BY <1>4, <1>7, <1>8, <2>1, <2>2
<1>16. ~EvalConditional
  <2> SUFFICES ASSUME EvalConditional PROVE FALSE
    OBVIOUS
  <2>1. Slots(cur) = 1..3
    BY <1>1, <1>2, <1>6, LazySlots DEF EvalConditional, TypeOK
  <2>2. PICK k \in {2, 3} : Return(Operand(cur, k))
    BY DEF EvalConditional
  <2> QED
    BY <1>4, <1>7, <1>8, <2>1, <2>2
<1>17. ~EvalCall
  <2> SUFFICES ASSUME EvalCall PROVE FALSE
    OBVIOUS
  <2>1. node.tok \in Callable(functions)
    BY <1>3, <1>6 DEF EvalCall
  <2>2. PICK v \in EvalCallExpression(scope, node.tok, Operands(cur)) :
            Return(v)
    BY DEF EvalCall
  <2> QED
    BY <1>2, <1>4, <1>5, <2>1, <2>2, CallsAreNoTypeErrors DEF functions
<1>18. ~EvalArray
  <2>1. \A es : Array(es).kind # "ERROR"
    BY DEF Array
  <2> QED
    BY <1>4, <1>7, <2>1 DEF EvalArray
<1> QED
  BY <1>9, <1>10, <1>11, <1>12, <1>13, <1>14, <1>15, <1>16, <1>17, <1>18
     DEF EvalReturn, Slots

\* An accepted expression meets an operand it cannot compute with only through
\* a null: the checker leaves no other reason for a type error.
THEOREM OnlyNullsMeetTypeErrors == CSpec => TypeErrorsComeFromNull
<1>1. ASSUME CInv, CNext, phase = "eval", cur # 0, ~Failed(cur),
             val'[cur] = Error("type")
      PROVE  \E k \in DOMAIN ast[cur].kids : NullOperand(Operand(cur, k))
  <2>1. Eval
    BY <1>1 DEF CNext, Invoke, Finish, Serve, EntryPoint, ApplyOptions, Blank,
                Parse, ValidateExpression, Check, CheckResult, BuildScope,
                Evaluating, Result
  <2>2. CASE EvalOperand
    <3>1. /\ TypeOK /\ val[cur] = Open /\ WellFormed(ast)
          /\ cur \in Nodes /\ DOMAIN val = Nodes
      BY <1>1 DEF CInv, IInv, CallStack, TypeOK, Nodes
    <3>2. PICK k \in Slots(cur) : val' = [val EXCEPT ![ast[cur].kids[k]] = Open]
      BY <2>2 DEF EvalOperand, Slots
    <3>3. ast[cur].kids[k] # cur /\ val'[cur] = Open
      BY <3>1, <3>2, TreeShape
    <3>4. Open # Error("type")
      BY DEF Open, Error, Atom
    <3> QED
      BY <1>1, <3>3, <3>4
  <2>3. CASE EvalReturn
    BY <1>1, <2>3, ReturnOfTyped
  <2> QED
    BY <2>1, <2>2, <2>3 DEF Eval
<1>2. CInv /\ [CNext]_vars =>
         [phase = "eval" /\ cur # 0 /\ ~Failed(cur) /\ val'[cur] = Error("type")
            => \E k \in DOMAIN ast[cur].kids : NullOperand(Operand(cur, k))]_vars
  BY <1>1
<1> QED
  BY <1>2, InvariantHolds, PTL DEF CSpec, TypeErrorsComeFromNull

-----------------------------------------------------------------------------
(* The types. *)

\* What a phase has not made yet is as Finish left it.
Before ==
    /\ phase \in {"idle", "entry", "options", "blank", "parse"} => ast = <<>>
    /\ phase \in {"idle", "entry", "options", "blank", "parse", "validate"} =>
           ty = <<>> /\ checked = 0
    /\ phase \in {"idle", "entry", "options", "blank", "parse", "validate",
                  "check", "scope"} => val = <<>> /\ cur = 0

DataOK ==
    /\ ast = <<>> \/ WellFormed(ast)
    /\ checked \in 0..Len(ast)
    /\ DOMAIN ty \in {{}, DOMAIN ast}
    /\ DOMAIN val \in {{}, DOMAIN ast}
    /\ cur \in 0..Len(ast)

ReplyOK == reply.value \in BOOLEAN /\ reply.err \in ErrorKinds \cup {"", "none"}

CallOK == phase \in Phases /\ (phase = "idle" <=> call = NoCall)

TInv == CInv /\ Before /\ DataOK /\ ReplyOK /\ CallOK

\* A pending call is a call.
LEMMA PendingCall ==
    ASSUME CInv, phase \in Phases \ {"idle"}
    PROVE  CallOK
<1>1. call.api \in {"Validate", "Evaluate"}
  BY CallsAssumption DEF CInv
<1> QED
  BY <1>1 DEF CallOK, NoCall

\* A step of a pending call.
LEMMA PendingStep ==
    ASSUME TInv, CInv', Before', DataOK', ReplyOK', phase' \in Phases \ {"idle"}
    PROVE  TInv'
<1>1. (CInv /\ phase \in Phases \ {"idle"} => CallOK)'
  BY PendingCall, PTL
<1> QED
  BY <1>1 DEF TInv

\* A reply.
LEMMA AnswerTypes ==
    ASSUME TInv, CInv', NEW b \in BOOLEAN, NEW err \in ErrorKinds \cup {""},
           Answer(Reply(b, err)), DataOK'
    PROVE  TInv'
<1>1. phase' = "done" /\ reply' = Reply(b, err)
  BY DEF Answer
<1>2. Before' /\ phase' \in Phases \ {"idle"} /\ ReplyOK'
  BY <1>1 DEF Before, Phases, ReplyOK, Reply
<1> QED
  BY <1>2, PendingStep

LEMMA FailTypes ==
    ASSUME TInv, CInv', NEW err \in ErrorKinds, Fail(err) \/ FailEarly(err),
           DataOK'
    PROVE  TInv'
<1>1. Answer(Reply(FALSE, err)) \/ Answer(Reply(FALSE, ""))
  BY DEF Fail, FailEarly
<1> QED
  BY <1>1, AnswerTypes

\* A step to a phase, with what it makes.
LEMMA GotoTypes ==
    ASSUME TInv, CInv', NEW next \in Phases \ {"idle"}, Goto(next),
           Before', DataOK'
    PROVE  TInv'
<1>1. ReplyOK' /\ phase' = next
  BY DEF Goto, TInv, ReplyOK
<1> QED
  BY <1>1, PendingStep

\* The steps that make nothing.
LEMMA IdleData ==
    ASSUME TInv, Idle
    PROVE  DataOK'
<1>1. /\ ast' = ast /\ checked' = checked /\ ty' = ty
      /\ val' = val /\ cur' = cur
  BY DEF Idle
<1>2. WellFormed(ast') <=> WellFormed(ast)
  BY <1>1
<1> QED
  BY <1>1, <1>2 DEF TInv, DataOK, WellFormed

LEMMA NextTInv == TInv /\ [CNext]_vars => TInv'
<1> SUFFICES ASSUME TInv, [CNext]_vars PROVE TInv'
  OBVIOUS
<1>1. CInv'
  BY NextCInv DEF TInv
<1>2. CASE UNCHANGED vars
  <2>1. Idle /\ UNCHANGED <<phase, call, reply>>
    BY <1>2 DEF vars, Idle
  <2>2. DataOK'
    BY <2>1, IdleData
  <2>3. Before' /\ ReplyOK' /\ CallOK'
    BY <2>1 DEF Idle, TInv, Before, ReplyOK, CallOK
  <2> QED
    BY <1>1, <2>2, <2>3 DEF TInv
<1>3. ErrorKinds = {"parse", "validation", "evaluation", "result"}
  BY DEF ErrorKinds
<1>4. /\ {"entry", "options", "blank", "parse", "validate", "check", "scope",
          "eval"} \subseteq Phases \ {"idle"}
  BY DEF Phases
<1>5. CASE Invoke
  <2>1. DataOK' /\ phase' = "entry" /\ reply' = reply
    BY <1>5, IdleData DEF Invoke
  <2>2. Before' /\ ReplyOK'
    BY <1>5, <2>1 DEF TInv, Before, ReplyOK, Invoke, Idle
  <2> QED
    BY <1>1, <1>4, <2>1, <2>2, PendingStep
<1>6. CASE EntryPoint
  <2>1. DataOK' /\ phase = "entry"
    BY <1>6, IdleData DEF EntryPoint
  <2>2. CASE FailEarly("validation")
    BY <1>1, <1>3, <2>1, <2>2, FailTypes
  <2>3. CASE Goto("blank") \/ Goto("options")
    <3>1. Before'
      BY <1>6, <2>1, <2>3 DEF EntryPoint, TInv, Before, Goto, Idle
    <3> QED
      BY <1>1, <1>4, <2>1, <2>3, <3>1, GotoTypes
  <2> QED
    BY <1>6, <2>2, <2>3 DEF EntryPoint
<1>7. CASE ApplyOptions
  <2>1. DataOK' /\ phase = "options"
    BY <1>7, IdleData DEF ApplyOptions
  <2>2. CASE FailEarly("validation")
    BY <1>1, <1>3, <2>1, <2>2, FailTypes
  <2>3. CASE Goto("blank")
    <3>1. Before'
      BY <1>7, <2>1, <2>3 DEF ApplyOptions, TInv, Before, Goto, Idle
    <3> QED
      BY <1>1, <1>4, <2>1, <2>3, <3>1, GotoTypes
  <2> QED
    BY <1>7, <2>2, <2>3 DEF ApplyOptions
<1>8. CASE Blank
  <2>1. DataOK' /\ phase = "blank"
    BY <1>8, IdleData DEF Blank
  <2>2. CASE \E b \in BOOLEAN : Answer(Reply(b, ""))
    BY <1>1, <2>1, <2>2, AnswerTypes
  <2>3. CASE Goto("parse")
    <3>1. Before'
      BY <1>8, <2>1, <2>3 DEF Blank, TInv, Before, Goto, Idle
    <3> QED
      BY <1>1, <1>4, <2>1, <2>3, <3>1, GotoTypes
  <2> QED
    BY <1>8, <2>2, <2>3 DEF Blank
<1>9. CASE Parse
  <2>1. /\ ty = <<>> /\ checked = 0 /\ val = <<>> /\ cur = 0 /\ ast = <<>>
        /\ UNCHANGED <<cur, val, ty, checked>>
    BY <1>9 DEF Parse, TInv, Before
  <2>2. CASE Fail("parse") /\ UNCHANGED ast
    <3>1. DataOK'
      BY <2>1, <2>2 DEF DataOK
    <3> QED
      BY <1>1, <1>3, <2>2, <3>1, FailTypes
  <2>3. CASE Goto("validate")
    <3>1. phase' = "validate"
      BY <2>3 DEF Goto
    <3>2. WellFormed(ast')
      BY <1>1, <3>1 DEF CInv, WellFormed
    <3>3. Len(ast') \in Nat
      BY <3>2 DEF WellFormed
    <3>4. DataOK' /\ Before'
      BY <2>1, <3>1, <3>2, <3>3 DEF DataOK, Before, WellFormed
    <3> QED
      BY <1>1, <1>4, <2>3, <3>4, GotoTypes
  <2> QED
    BY <1>9, <2>2, <2>3 DEF Parse
<1>10. CASE ValidateExpression
  <2>1. /\ WellFormed(ast) /\ phase = "validate"
        /\ val = <<>> /\ cur = 0
        /\ UNCHANGED <<ast, cur, val>>
    BY <1>10 DEF ValidateExpression, TInv, CInv, Before
  <2>2. CASE Fail("validation") /\ UNCHANGED <<ty, checked>>
    <3>1. ast' = ast /\ cur' = cur /\ val' = val /\ ty' = ty /\ checked' = checked
      BY <2>1, <2>2
    <3>2. DataOK'
      BY <3>1 DEF TInv, DataOK, WellFormed
    <3> QED
      BY <1>1, <1>3, <2>2, <3>2, FailTypes
  <2>3. CASE /\ Goto("check")
             /\ ty' = [n \in DOMAIN ast |-> Unknown]
             /\ checked' = 0
    <3>1. Len(ast) \in Nat
      BY <2>1 DEF WellFormed
    <3>2. DataOK' /\ Before'
      BY <2>1, <2>3, <3>1 DEF DataOK, Before, WellFormed, Goto
    <3> QED
      BY <1>1, <1>4, <2>3, <3>2, GotoTypes
  <2> QED
    BY <1>10, <2>2, <2>3 DEF ValidateExpression
<1>11. CASE Check
  <2>1. /\ WellFormed(ast) /\ phase = "check"
        /\ val = <<>> /\ cur = 0
        /\ UNCHANGED <<ast, cur, val>>
    BY <1>11 DEF Check, TInv, CInv, Before
  <2>2. CASE Fail("validation") /\ UNCHANGED <<ty, checked>>
    <3>1. DataOK'
      BY <1>11, <2>2, IdleData DEF Idle, Check
    <3> QED
      BY <1>1, <1>3, <2>2, <3>1, FailTypes
  <2>3. CASE Goto("check")
    <3>1. phase' = "check"
      BY <2>3 DEF Goto
    <3>2. checked' \in 0..Len(ast') /\ DOMAIN ty' = DOMAIN ast'
      BY <1>1, <2>1, <3>1 DEF CInv, TypedBelow, Nodes, WellFormed
    <3>3. DataOK' /\ Before'
      BY <2>1, <3>1, <3>2 DEF DataOK, Before, WellFormed
    <3> QED
      BY <1>1, <1>4, <2>3, <3>3, GotoTypes
  <2> QED
    BY <1>11, <2>2, <2>3 DEF Check
<1>12. CASE CheckResult
  <2>1. DataOK' /\ phase = "check"
    BY <1>12, IdleData DEF CheckResult
  <2>2. CASE Fail("result") \/ Answer(Reply(FALSE, ""))
    BY <1>1, <1>3, <2>1, <2>2, FailTypes, AnswerTypes
  <2>3. CASE Goto("scope")
    <3>1. Before'
      BY <1>12, <2>1, <2>3 DEF CheckResult, TInv, Before, Goto, Idle
    <3> QED
      BY <1>1, <1>4, <2>1, <2>3, <3>1, GotoTypes
  <2> QED
    BY <1>12, <2>2, <2>3 DEF CheckResult
<1>13. CASE BuildScope \/ Evaluating
  <2>1. phase' = "eval" /\ reply' = reply
    BY <1>13 DEF BuildScope, Evaluating, Goto, callVars
  <2>2. /\ WellFormed(ast') /\ TypedBelow(checked)'
        /\ checked' \in 0..Len(ast')
        /\ DOMAIN val' = 1..Len(ast') /\ cur' \in 0..Len(ast')
    BY <1>1, <2>1 DEF CInv, IInv, TypeOK, WellFormed
  <2>3. DOMAIN ty' = 1..Len(ast') /\ DOMAIN ast' = 1..Len(ast')
    BY <2>2 DEF TypedBelow, Nodes, WellFormed
  <2>4. DataOK'
    BY <2>2, <2>3 DEF DataOK, WellFormed
  <2>5. Before' /\ ReplyOK'
    BY <2>1 DEF Before, ReplyOK, TInv
  <2> QED
    BY <1>1, <1>4, <2>1, <2>4, <2>5, PendingStep
<1>14. CASE Result
  <2>1. DataOK'
    BY <1>14, IdleData DEF Result
  <2>2. \/ \E b \in BOOLEAN : Answer(Reply(b, ""))
        \/ Fail("evaluation") \/ Fail("result")
    BY <1>14 DEF Result
  <2> QED
    BY <1>1, <1>3, <2>1, <2>2, FailTypes, AnswerTypes
<1>15. CASE Finish
  <2>1. Before' /\ DataOK' /\ ReplyOK' /\ CallOK'
    BY <1>15 DEF Finish, Before, DataOK, ReplyOK, CallOK, NoReply, Reply, Phases
  <2> QED
    BY <1>1, <2>1 DEF TInv
<1> QED
  BY <1>2, <1>5, <1>6, <1>7, <1>8, <1>9, <1>10, <1>11, <1>12, <1>13, <1>14,
     <1>15 DEF CNext, Serve

LEMMA InitTInv == CInit => TInv
BY InitCInv DEF CInit, TInv, Before, DataOK, ReplyOK, CallOK, NoReply, Reply,
                Phases

\* A call and what it has made so far have their types in every phase.
THEOREM CallsAreTyped == CSpec => []CTypeOK
<1>1. TInv => CTypeOK
  BY DEF TInv, DataOK, ReplyOK, CallOK, CTypeOK
<1> QED
  BY <1>1, InitTInv, NextTInv, PTL DEF CSpec

-----------------------------------------------------------------------------
(* Conditional implements ConditionalAPI.  The invariant says in each      *)
(* phase what has been established of the expression: that the checker's   *)
(* types are those of the typing rules, as Agrees, and that the values of  *)
(* the evaluation are among those that the expression means, as EvalMeans. *)
(* What Validate promises a caller who keeps an expression follows from    *)
(* the abstract specification alone.                                       *)

\* The types of the typing rules.
RuledTypes(c) == Types(c.expr.tree, Assigned(NormalizeEntryPoint(c.entryPoint)),
                       c.options.functions)

Notification(c) == IsNotificationEntryPoint(NormalizeEntryPoint(c.entryPoint))

\* What the call has established so far.
Known ==
    /\ phase = "idle" => call = NoCall
    /\ phase # "done" => reply = NoReply
    /\ phase = "options" => NormalizeEntryPoint(call.entryPoint) \in EntryPoints
    /\ phase \in {"blank", "parse", "validate", "check", "scope", "eval"} =>
           ~API!Misused(call)
    /\ phase = "parse" /\ call.expr.form = "blank" =>
           call.api = "Evaluate" /\ ~Notification(call)
    /\ phase \in {"validate", "check", "scope", "eval"} =>
           call.expr.form = "parsed" /\ ast = call.expr.tree
    /\ phase \in {"check", "scope", "eval"} =>
           /\ StepAllowed(ContextEntryPoint(call)) \/ ~ReferencesStep(ast)
           /\ ValidateEnvCalls(ast)
    /\ phase \in {"scope", "eval"} => call.api = "Evaluate"

\* The nodes checked so far have the types of the rules.
Agrees ==
    phase \in {"check", "scope", "eval"} =>
        \A n \in 1..checked : ty[n] = RuledTypes(call)[n]

EvalMeans == phase = "eval" => MInv

\* The reply is one that the abstract specification allows.
Promised ==
    phase = "done" => reply \in API!Answers(call) /\ reply.err # "none"

\* An accepted contract is that of a call whose expression is acceptable.
AcceptedPass ==
    \A k \in accepted : \E c \in Calls :
        /\ k = Contract(c) /\ ~API!Misused(c)
        /\ c.expr.form = "blank" \/ StaticVerdict(c) = ""

RInv == CInv /\ Known /\ Agrees /\ EvalMeans /\ Promised /\ AcceptedPass

apiVars == <<call, reply>>

-----------------------------------------------------------------------------
(* The entry points of a call: the caller's and the normalized one.        *)

LEMMA SameEntryPoint ==
    ASSUME NEW c
    PROVE  /\ API!Misused(c) <=>
                  \/ ~c.options.ok
                  \/ NormalizeEntryPoint(c.entryPoint) \notin EntryPoints
           /\ API!Notification(c) <=> Notification(c)
BY DEF API!Misused, API!Notification, Notification, IsNotificationEntryPoint,
       NormalizeEntryPoint, EntryPoints

\* They give an expression the same variables.
LEMMA SameNames ==
    ASSUME NEW c
    PROVE  /\ StepAllowed(ContextEntryPoint(c))
                = StepAllowed(NormalizeEntryPoint(c.entryPoint))
           /\ Assigned(ContextEntryPoint(c))
                = Assigned(NormalizeEntryPoint(c.entryPoint))
           /\ ScopeOf(c.ctx, ContextEntryPoint(c), c.options.functions)
                = ScopeOf(c.ctx, NormalizeEntryPoint(c.entryPoint),
                          c.options.functions)
<1>1. StepAllowed(ContextEntryPoint(c))
        = StepAllowed(NormalizeEntryPoint(c.entryPoint))
  <2>1. CASE ContextEntryPoint(c) = NormalizeEntryPoint(c.entryPoint)
    BY <2>1
  <2>2. CASE /\ ContextEntryPoint(c) = ""
             /\ NormalizeEntryPoint(c.entryPoint) = "build_condition"
    <3>1. StepAllowed("") = StepAllowed("build_condition")
      BY DEF StepAllowed
    <3>2. /\ StepAllowed(ContextEntryPoint(c)) = StepAllowed("")
          /\ StepAllowed(NormalizeEntryPoint(c.entryPoint))
                = StepAllowed("build_condition")
      BY <2>2, Zenon
    <3> QED
      BY <3>1, <3>2, Zenon
  <2>3. \/ ContextEntryPoint(c) = NormalizeEntryPoint(c.entryPoint)
        \/ /\ ContextEntryPoint(c) = ""
           /\ NormalizeEntryPoint(c.entryPoint) = "build_condition"
    BY DEF ContextEntryPoint, NormalizeEntryPoint
  <2> QED
    BY <2>1, <2>2, <2>3
<1>2. Assigned(ContextEntryPoint(c)) = Assigned(NormalizeEntryPoint(c.entryPoint))
  BY <1>1, Zenon DEF Assigned
<1>3. FlatAssignments(c.ctx, ContextEntryPoint(c))
        = FlatAssignments(c.ctx, NormalizeEntryPoint(c.entryPoint))
  BY <1>2, Zenon DEF FlatAssignments
<1>4. ScopeOf(c.ctx, ContextEntryPoint(c), c.options.functions)
        = ScopeOf(c.ctx, NormalizeEntryPoint(c.entryPoint), c.options.functions)
  BY <1>3, Zenon DEF ScopeOf
<1> QED
  BY <1>1, <1>2, <1>4

-----------------------------------------------------------------------------
(* What the abstract specification allows.                                 *)

LEMMA Misuse ==
    ASSUME NEW c, API!Misused(c)
    PROVE  Reply(FALSE, "validation") \in API!Answers(c)
BY DEF API!Answers, API!Says, Reply

\* The two answers to a blank expression that is not parsed.
LEMMA BlankAnswers ==
    ASSUME NEW c, ~API!Misused(c), c.expr.form = "blank"
    PROVE  /\ c.api = "Validate" => Reply(FALSE, "") \in API!Answers(c)
           /\ c.api = "Evaluate" /\ Notification(c) =>
                  Reply(TRUE, "") \in API!Answers(c)
BY SameEntryPoint DEF API!Answers, API!Says, Reply

\* Validate accepts an acceptable expression, ...
LEMMA ValidateAnswers ==
    ASSUME NEW c, ~API!Misused(c), c.api = "Validate", c.expr.form # "blank"
    PROVE  API!Answers(c) = {Reply(FALSE, StaticVerdict(c))}
BY DEF API!Answers, API!Says, Reply

\* ... and only such.
LEMMA ValidateAccepts ==
    ASSUME NEW c, c.api = "Validate", NEW r \in API!Answers(c), r.err = ""
    PROVE  /\ ~API!Misused(c)
           /\ c.expr.form = "blank" \/ StaticVerdict(c) = ""
<1>1. ~API!Misused(c)
  <2>1. API!Misused(c) => r = Reply(FALSE, "validation")
    BY DEF API!Answers, API!Says, Reply
  <2>2. Reply(FALSE, "validation").err # ""
    BY DEF Reply
  <2> QED
    BY <2>1, <2>2
<1>2. ASSUME c.expr.form # "blank" PROVE StaticVerdict(c) = ""
  <2>1. r = Reply(FALSE, StaticVerdict(c))
    BY <1>1, <1>2, ValidateAnswers
  <2> QED
    BY <2>1 DEF Reply
<1> QED
  BY <1>1, <1>2

\* What Evaluate answers to an expression that may have outcome o.
LEMMA EvaluateAnswers ==
    ASSUME NEW c, ~API!Misused(c), c.api = "Evaluate",
           NEW o \in API!Outcomes(c),
           c.expr.form = "blank" => ~Notification(c)
    PROVE  /\ Notification(c) => Reply(o.value, "") \in API!Answers(c)
           /\ ~Notification(c) => o \in API!Answers(c)
<1>1. CASE Notification(c)
  BY <1>1, SameEntryPoint DEF API!Answers, API!Says, Reply
<1>2. CASE ~Notification(c)
  BY <1>2, SameEntryPoint DEF API!Answers
<1> QED
  BY <1>1, <1>2

\* A refusal is the only outcome of an expression that is not acceptable.
LEMMA RefusedOutcome ==
    ASSUME NEW c, StaticVerdict(c) # ""
    PROVE  API!Outcomes(c) = {Reply(FALSE, StaticVerdict(c))}
BY DEF API!Outcomes, API!Says, Reply

-----------------------------------------------------------------------------
(* The steps, by what they do to the call.                                 *)

LEMMA CallFacts ==
    ASSUME RInv, phase # "idle"
    PROVE  /\ call \in Calls /\ call.api \in {"Validate", "Evaluate"}
           /\ call # API!Nobody
           /\ call.expr.form = "parsed" => WellFormed(call.expr.tree)
           /\ call.reused => call.options.ok
<1>1. call \in Calls /\ call.api \in {"Validate", "Evaluate"}
      /\ (call.expr.form = "parsed" => WellFormed(call.expr.tree))
      /\ (call.reused => call.options.ok)
  BY CallsAssumption DEF RInv, CInv
<1>2. API!Nobody.api = "none"
  BY DEF API!Nobody
<1> QED
  BY <1>1, <1>2

\* A call goes on to its next phase.
LEMMA GotoStep ==
    ASSUME RInv, CInv', NEW next, Goto(next), next \notin {"idle", "done"},
           Known', Agrees', EvalMeans'
    PROVE  RInv' /\ UNCHANGED apiVars
BY DEF RInv, Goto, Promised, AcceptedPass, apiVars

\* A call is answered with what the abstract specification allows.
LEMMA TellStep ==
    ASSUME RInv, CInv', phase \notin {"idle", "done"}, NEW r, Answer(r),
           r \in API!Answers(call), r.err # "none"
    PROVE  RInv' /\ API!Tell
<1>1. /\ phase' = "done" /\ reply' = r /\ call' = call
      /\ accepted' = IF call.api = "Validate" /\ r.err = ""
                     THEN {Contract(call)} ELSE accepted
  BY DEF Answer
<1>2. API!Tell
  <2>1. reply = API!Pending
    BY DEF RInv, Known, NoReply, Reply, API!Pending
  <2> QED
    BY <1>1, <2>1, CallFacts DEF API!Tell
<1>3. AcceptedPass'
  <2>1. CASE call.api = "Validate" /\ r.err = ""
    BY <1>1, <2>1, CallFacts, ValidateAccepts DEF AcceptedPass
  <2>2. CASE ~(call.api = "Validate" /\ r.err = "")
    BY <1>1, <2>2 DEF RInv, AcceptedPass
  <2> QED
    BY <2>1, <2>2
<1>4. Known' /\ Agrees' /\ EvalMeans' /\ Promised'
  BY <1>1 DEF Known, Agrees, EvalMeans, Promised
<1> QED
  BY <1>2, <1>3, <1>4 DEF RInv

\* A call fails before evaluateWithOptions takes over.
LEMMA FailEarlyStep ==
    ASSUME RInv, CInv', phase \notin {"idle", "done"}, FailEarly("validation"),
           API!Misused(call)
    PROVE  RInv' /\ API!Tell
<1>1. Reply(FALSE, "validation").err # "none"
  BY DEF Reply
<1> QED
  BY <1>1, TellStep, Misuse DEF FailEarly

\* A call fails inside it.
LEMMA FailStep2 ==
    ASSUME RInv, CInv', phase \notin {"idle", "done"}, NEW kind, Fail(kind),
           kind # "none", ~API!Misused(call),
           call.expr.form = "blank" =>
               call.api = "Evaluate" /\ ~Notification(call),
           Reply(FALSE, kind) \in API!Outcomes(call),
           call.api = "Validate" => StaticVerdict(call) = kind
    PROVE  RInv' /\ API!Tell
<1>1. /\ Reply(FALSE, kind).err # "none" /\ Reply(FALSE, "").err # "none"
      /\ Reply(FALSE, kind).value = FALSE
  BY DEF Reply
<1>2. CASE call.api = "Validate"
  <2>1. Answer(Reply(FALSE, kind))
    BY <1>2 DEF Fail
  <2>2. Reply(FALSE, kind) \in API!Answers(call)
    BY <1>2, ValidateAnswers
  <2> QED
    BY <1>1, <2>1, <2>2, TellStep
<1>3. CASE call.api = "Evaluate" /\ Notification(call)
  <2>1. Answer(Reply(FALSE, ""))
    BY <1>3 DEF Fail, Notification
  <2>2. Reply(FALSE, "") \in API!Answers(call)
    BY <1>1, <1>3, EvaluateAnswers
  <2> QED
    BY <1>1, <2>1, <2>2, TellStep
<1>4. CASE call.api = "Evaluate" /\ ~Notification(call)
  <2>1. Answer(Reply(FALSE, kind))
    BY <1>4 DEF Fail, Notification
  <2>2. Reply(FALSE, kind) \in API!Answers(call)
    BY <1>4, EvaluateAnswers
  <2> QED
    BY <1>1, <2>1, <2>2, TellStep
<1> QED
  BY <1>2, <1>3, <1>4, CallFacts

\* A call fails because its expression is not acceptable.
LEMMA RefuseStep ==
    ASSUME RInv, CInv', phase \notin {"idle", "done"}, NEW kind, Fail(kind),
           kind \notin {"", "none"}, ~API!Misused(call),
           call.expr.form = "blank" =>
               call.api = "Evaluate" /\ ~Notification(call),
           StaticVerdict(call) = kind
    PROVE  RInv' /\ API!Tell
BY RefusedOutcome, FailStep2

-----------------------------------------------------------------------------
(* The steps                                                               *)

Told == RInv' /\ [API!Next]_apiVars

LEMMA EntryPointTold ==
    ASSUME RInv, CInv', EntryPoint
    PROVE  Told
<1>1. CASE FailEarly("validation")
           /\ NormalizeEntryPoint(call.entryPoint) \notin EntryPoints
  BY <1>1, FailEarlyStep, SameEntryPoint DEF EntryPoint, Told, API!Next
<1>2. CASE /\ NormalizeEntryPoint(call.entryPoint) \in EntryPoints
           /\ Goto(IF call.reused THEN "blank" ELSE "options")
  <2>1. call' = call /\ reply' = reply /\ phase = "entry"
        /\ phase' = IF call.reused THEN "blank" ELSE "options"
    BY <1>2 DEF EntryPoint, Goto
  <2>2. call.reused => ~API!Misused(call)
    BY <1>2, <2>1, CallFacts, SameEntryPoint
  <2>3. Known'
    BY <1>2, <2>1, <2>2 DEF RInv, Known, API!Misused
  <2>4. Agrees' /\ EvalMeans'
    BY <2>1 DEF Agrees, EvalMeans
  <2> QED
    BY <1>2, <2>3, <2>4, GotoStep DEF Told
<1> QED
  BY <1>1, <1>2 DEF EntryPoint

LEMMA ApplyOptionsTold ==
    ASSUME RInv, CInv', ApplyOptions
    PROVE  Told
<1>1. CASE FailEarly("validation") /\ ~call.options.ok
  BY <1>1, FailEarlyStep, SameEntryPoint DEF ApplyOptions, Told, API!Next
<1>2. CASE call.options.ok /\ Goto("blank")
  <2>1. call' = call /\ reply' = reply /\ phase = "options" /\ phase' = "blank"
    BY <1>2 DEF ApplyOptions, Goto
  <2>2. ~API!Misused(call)
    BY <1>2, <2>1, SameEntryPoint DEF RInv, Known
  <2>3. Known'
    BY <2>1, <2>2 DEF RInv, Known, API!Misused
  <2>4. Agrees' /\ EvalMeans'
    BY <2>1 DEF Agrees, EvalMeans
  <2> QED
    BY <1>2, <2>3, <2>4, GotoStep DEF Told
<1> QED
  BY <1>1, <1>2 DEF ApplyOptions

LEMMA BlankTold ==
    ASSUME RInv, CInv', Blank
    PROVE  Told
<1>1. phase = "blank" /\ ~API!Misused(call)
      /\ call.api \in {"Validate", "Evaluate"}
  BY CallFacts DEF Blank, RInv, Known
<1>2. Reply(FALSE, "").err # "none" /\ Reply(TRUE, "").err # "none"
  BY DEF Reply
<1>3. CASE /\ call.expr.form = "blank" /\ call.api = "Validate"
           /\ Answer(Reply(FALSE, ""))
  BY <1>1, <1>2, <1>3, BlankAnswers, TellStep DEF Told, API!Next
<1>4. CASE /\ call.expr.form = "blank" /\ call.api = "Evaluate"
           /\ Notification(call) /\ Answer(Reply(TRUE, ""))
  BY <1>1, <1>2, <1>4, BlankAnswers, TellStep DEF Told, API!Next
<1>5. CASE /\ Goto("parse")
           /\ call.expr.form = "blank" =>
                  call.api = "Evaluate" /\ ~Notification(call)
  <2>1. call' = call /\ reply' = reply /\ phase' = "parse"
    BY <1>5 DEF Goto
  <2>2. Known'
    BY <1>1, <1>5, <2>1 DEF RInv, Known, API!Misused, Notification
  <2>3. Agrees' /\ EvalMeans'
    BY <2>1 DEF Agrees, EvalMeans
  <2> QED
    BY <1>5, <2>2, <2>3, GotoStep DEF Told
<1> QED
  BY <1>1, <1>3, <1>4, <1>5 DEF Blank, Notification

LEMMA ParseTold ==
    ASSUME RInv, CInv', Parse
    PROVE  Told
<1>1. phase = "parse" /\ ~API!Misused(call)
      /\ (call.expr.form = "blank" =>
             call.api = "Evaluate" /\ ~Notification(call))
  BY DEF Parse, RInv, Known
<1>2. CASE Fail("parse") /\ call.expr.form # "parsed"
  <2>1. StaticVerdict(call) = "parse"
    BY <1>2 DEF StaticVerdict
  <2> QED
    BY <1>1, <1>2, <2>1, RefuseStep DEF Told, API!Next
<1>3. CASE call.expr.form = "parsed" /\ Goto("validate")
           /\ ast' = call.expr.tree
  <2>1. call' = call /\ reply' = reply /\ phase' = "validate"
    BY <1>3 DEF Goto
  <2>2. Known'
    BY <1>1, <1>3, <2>1 DEF RInv, Known, API!Misused
  <2>3. Agrees' /\ EvalMeans'
    BY <2>1 DEF Agrees, EvalMeans
  <2> QED
    BY <1>3, <2>2, <2>3, GotoStep DEF Told
<1> QED
  BY <1>2, <1>3 DEF Parse

\* What is known of a call whose expression has been parsed.
LEMMA Parsed ==
    ASSUME RInv, phase \in {"validate", "check", "scope", "eval"}
    PROVE  /\ ~API!Misused(call) /\ call.expr.form = "parsed"
           /\ ast = call.expr.tree /\ WellFormed(ast)
           /\ Len(ast) \in Nat \ {0} /\ Root = Len(ast)
           /\ call.expr.form = "blank" =>
                  call.api = "Evaluate" /\ ~Notification(call)
           /\ call.api \in {"Validate", "Evaluate"}
<1>1. /\ ~API!Misused(call) /\ call.expr.form = "parsed"
      /\ ast = call.expr.tree
  BY DEF RInv, Known
<1>2. WellFormed(ast) /\ call.api \in {"Validate", "Evaluate"}
  BY <1>1, CallFacts
<1> QED
  BY <1>1, <1>2, TreeShape DEF Root

\* The verdict on it.
LEMMA VerdictOf ==
    ASSUME NEW c, c.expr.form = "parsed"
    PROVE  LET t    == c.expr.tree
               type == RuledTypes(c)[Len(t)]
               bad  == \/ ~StepAllowed(ContextEntryPoint(c)) /\ ReferencesStep(t)
                       \/ ~ValidateEnvCalls(t)
                       \/ type = Unknown
           IN  /\ bad => StaticVerdict(c) = "validation"
               /\ ~bad => StaticVerdict(c) =
                              IF type.kind = "boolean" THEN "" ELSE "result"
<1>1. TypeOf(c.expr.tree, Assigned(NormalizeEntryPoint(c.entryPoint)),
             c.options.functions) = RuledTypes(c)[Len(c.expr.tree)]
  BY DEF TypeOf, RuledTypes
<1>2. StepAllowed(ContextEntryPoint(c))
        = StepAllowed(NormalizeEntryPoint(c.entryPoint))
  BY SameNames
<1> QED
  BY <1>1, <1>2 DEF StaticVerdict

LEMMA ValidateTold ==
    ASSUME RInv, CInv', ValidateExpression
    PROVE  Told
<1>1. phase = "validate"
  BY DEF ValidateExpression
<1>2. CASE /\ Fail("validation")
           /\ \/ ~StepAllowed(ContextEntryPoint(call)) /\ ReferencesStep(ast)
              \/ ~ValidateEnvCalls(ast)
  <2>1. StaticVerdict(call) = "validation"
    BY <1>1, <1>2, Parsed, VerdictOf
  <2> QED
    BY <1>1, <1>2, <2>1, Parsed, RefuseStep DEF Told, API!Next
<1>3. CASE /\ StepAllowed(ContextEntryPoint(call)) \/ ~ReferencesStep(ast)
           /\ ValidateEnvCalls(ast)
           /\ Goto("check") /\ checked' = 0
  <2>1. call' = call /\ reply' = reply /\ phase' = "check" /\ ast' = ast
    BY <1>3 DEF Goto, ValidateExpression
  <2>2. Known'
    BY <1>1, <1>3, <2>1 DEF RInv, Known, API!Misused, ReferencesStep,
                            ValidateEnvCalls, ContextEntryPoint
  <2>3. Agrees' /\ EvalMeans'
    BY <1>3, <2>1 DEF Agrees, EvalMeans
  <2> QED
    BY <1>3, <2>2, <2>3, GotoStep DEF Told
<1> QED
  BY <1>2, <1>3 DEF ValidateExpression

\* The checker finds for the next node what the rules say of it.
LEMMA NextType ==
    ASSUME RInv, phase = "check", checked < Len(ast)
    PROVE  LET n == checked + 1
           IN  /\ n \in 1..Len(ast)
               /\ CheckNode(ast, n, ty, Names, call.options.functions)
                    = RuledTypes(call)[n]
<1> DEFINE n == checked + 1
           tys == RuledTypes(call)
<1>1. /\ WellFormed(ast) /\ checked \in 0..Len(ast) /\ Len(ast) \in Nat \ {0}
      /\ ast = call.expr.tree
      /\ \A k \in 1..checked : ty[k] = tys[k] /\ ty[k] # Unknown
  BY Parsed DEF RInv, CInv, TypedBelow, Agrees
<1>2. Names = Assigned(NormalizeEntryPoint(call.entryPoint))
  BY SameNames DEF Names
<1>3. n \in 1..Len(ast) /\ n - 1 = checked
  BY <1>1
<1> HIDE DEF n, tys
<1>4. \A k \in 1..(n - 1) : ty[k] = tys[k] /\ tys[k] # Unknown
  BY <1>1, <1>3
<1>5. CheckNode(ast, n, ty, Names, call.options.functions)
        = CheckNode(ast, n, tys, Names, call.options.functions)
  BY <1>1, <1>3, <1>4, CheckLocal
<1>6. \A k \in DOMAIN ast[n].kids : tys[ast[n].kids[k]] # Unknown
  BY <1>1, <1>3, <1>4, OperandsBefore
<1>7. tys[n] = NodeType(ast, n, tys, Names, call.options.functions)
  BY <1>1, <1>2, <1>3, TypesDef DEF tys, RuledTypes
<1>8. tys[n] = CheckNode(ast, n, tys, Names, call.options.functions)
  BY <1>6, <1>7 DEF NodeType
<1> QED
  BY <1>3, <1>5, <1>8 DEF n, tys

LEMMA CheckTold ==
    ASSUME RInv, CInv', Check
    PROVE  Told
<1> DEFINE n == checked + 1
           type == CheckNode(ast, n, ty, Names, call.options.functions)
<1>1. /\ phase = "check" /\ checked < Len(ast) /\ n \in 1..Len(ast)
      /\ type = RuledTypes(call)[n]
  BY NextType DEF Check
<1>2. CASE Fail("validation") /\ type = Unknown
  <2>1. RuledTypes(call)[Len(ast)] = Unknown
    BY <1>1, <1>2, Parsed, RefusalSpreads DEF RuledTypes, TypeOf
  <2>2. StaticVerdict(call) = "validation"
    BY <1>1, <2>1, Parsed, VerdictOf
  <2> QED
    BY <1>1, <1>2, <2>2, Parsed, RefuseStep DEF Told, API!Next
<1>3. CASE Goto("check") /\ ty' = [ty EXCEPT ![n] = type] /\ checked' = n
  <2>1. /\ call' = call /\ reply' = reply /\ phase' = "check" /\ ast' = ast
        /\ checked \in 0..Len(ast) /\ DOMAIN ty = Nodes
        /\ Len(ast) \in Nat \ {0}
    BY <1>1, <1>3, Parsed DEF Goto, Check, RInv, CInv, TypedBelow
  <2>2. Known'
    BY <1>1, <1>3, <2>1 DEF RInv, Known, API!Misused, ReferencesStep,
                            ValidateEnvCalls, ContextEntryPoint
  <2>3. \A m \in 1..n : ty'[m] = RuledTypes(call)[m]
    <3> TAKE m \in 1..n
    <3>1. m \in Nodes /\ (m = n \/ m \in 1..checked)
      BY <1>1, <2>1 DEF Nodes
    <3>2. ty'[m] = IF m = n THEN type ELSE ty[m]
      BY <1>3, <2>1, <3>1
    <3>3. m \in 1..checked => ty[m] = RuledTypes(call)[m]
      BY <1>1 DEF RInv, Agrees
    <3> QED
      BY <1>1, <3>1, <3>2, <3>3
  <2>4. Agrees' /\ EvalMeans'
    BY <1>3, <2>1, <2>3 DEF Agrees, EvalMeans, RuledTypes
  <2> QED
    BY <1>3, <2>2, <2>4, GotoStep DEF Told
<1> QED
  BY <1>2, <1>3 DEF Check

LEMMA CheckResultTold ==
    ASSUME RInv, CInv', CheckResult
    PROVE  Told
<1>1. /\ phase = "check" /\ checked = Len(ast) /\ Len(ast) \in 1..Len(ast)
      /\ Root = Len(ast) /\ ast = call.expr.tree
  <2>1. phase = "check" /\ checked = Len(ast)
    BY DEF CheckResult
  <2>2. /\ Len(ast) \in Nat \ {0} /\ Root = Len(ast) /\ ast = call.expr.tree
    BY <2>1, Parsed
  <2> QED
    BY <2>1, <2>2
<1>2. ty[Root] = RuledTypes(call)[Len(ast)] /\ ty[Root] # Unknown
  BY <1>1 DEF RInv, Agrees, CInv, TypedBelow
<1>3. StaticVerdict(call) = IF ty[Root].kind = "boolean" THEN "" ELSE "result"
  <2>1. /\ StepAllowed(ContextEntryPoint(call)) \/ ~ReferencesStep(ast)
        /\ ValidateEnvCalls(ast)
    BY <1>1 DEF RInv, Known
  <2> QED
    BY <1>1, <1>2, <2>1, Parsed, VerdictOf
<1>4. CASE Fail("result") /\ ty[Root].kind # "boolean"
  BY <1>1, <1>3, <1>4, Parsed, RefuseStep DEF Told, API!Next
<1>5. CASE /\ ty[Root].kind = "boolean" /\ call.api = "Validate"
           /\ Answer(Reply(FALSE, ""))
  <2>1. Reply(FALSE, "").err # "none"
    BY DEF Reply
  <2>2. Reply(FALSE, "") \in API!Answers(call)
    BY <1>1, <1>3, <1>5, Parsed, ValidateAnswers
  <2> QED
    BY <1>1, <1>5, <2>1, <2>2, TellStep DEF Told, API!Next
<1>6. CASE call.api # "Validate" /\ Goto("scope")
  <2>1. /\ call' = call /\ reply' = reply /\ phase' = "scope" /\ ast' = ast
        /\ ty' = ty /\ checked' = checked /\ call.api = "Evaluate"
    BY <1>1, <1>6, Parsed DEF Goto, CheckResult, Idle
  <2>2. Known'
    BY <1>1, <2>1 DEF RInv, Known, API!Misused, ReferencesStep,
                      ValidateEnvCalls, ContextEntryPoint
  <2>3. Agrees' /\ EvalMeans'
    BY <1>1, <2>1 DEF RInv, Agrees, EvalMeans, RuledTypes
  <2> QED
    BY <1>6, <2>2, <2>3, GotoStep DEF Told
<1> QED
  BY <1>4, <1>5, <1>6 DEF CheckResult

\* An expression that is evaluated has passed every check.
LEMMA AcceptedVerdict ==
    ASSUME RInv, phase \in {"scope", "eval"}
    PROVE  StaticVerdict(call) = "" /\ call.api = "Evaluate"
<1>1. /\ ast = call.expr.tree /\ call.expr.form = "parsed"
      /\ Len(ast) \in 1..Len(ast) /\ Root = Len(ast)
  <2>1. /\ Len(ast) \in Nat \ {0} /\ Root = Len(ast) /\ ast = call.expr.tree
        /\ call.expr.form = "parsed"
    BY Parsed
  <2> QED
    BY <2>1
<1>2. /\ checked = Len(ast) /\ ty[Root].kind = "boolean"
      /\ \A n \in 1..checked : ty[n] # Unknown /\ ty[n] = RuledTypes(call)[n]
  BY DEF RInv, CInv, TypedBelow, Agrees
<1>3. /\ StepAllowed(ContextEntryPoint(call)) \/ ~ReferencesStep(ast)
      /\ ValidateEnvCalls(ast) /\ call.api = "Evaluate"
  BY DEF RInv, Known
<1> QED
  BY <1>1, <1>2, <1>3, VerdictOf

LEMMA BuildScopeTold ==
    ASSUME RInv, CInv', BuildScope
    PROVE  Told
<1>1. /\ call' = call /\ reply' = reply /\ phase = "scope" /\ phase' = "eval"
      /\ ast' = ast /\ ty' = ty /\ checked' = checked
      /\ cur' = Root /\ val' = Started(ast) /\ Goto("eval")
  BY DEF BuildScope, Goto
<1>2. Known'
  BY <1>1 DEF RInv, Known, API!Misused, ReferencesStep, ValidateEnvCalls,
              ContextEntryPoint
<1>3. Agrees'
  BY <1>1 DEF RInv, Agrees, RuledTypes
<1>4. EvalMeans'
  <2>1. (IInv /\ cur = Root /\ val = Started(ast) => InOrder /\ Meant)'
    BY InitMInv, PTL
  <2>2. IInv'
    BY <1>1 DEF CInv
  <2>3. Root' = Root
    BY <1>1 DEF Root
  <2> QED
    BY <1>1, <2>1, <2>2, <2>3 DEF EvalMeans, MInv
<1> QED
  BY <1>1, <1>2, <1>3, <1>4, GotoStep DEF Told

LEMMA EvaluatingTold ==
    ASSUME RInv, CInv', Evaluating
    PROVE  Told
<1>1. /\ phase = "eval" /\ phase' = "eval" /\ call' = call /\ reply' = reply
      /\ ty' = ty /\ checked' = checked /\ accepted' = accepted
      /\ ast' = ast /\ Eval
  BY DEF Evaluating, Eval, EvalOperand, EvalReturn, PropagateError,
         EvalLiteral, EvalDollar, EvalTemplate, EvalShell, EvalIdentifier,
         EvalPrefix, EvalInfix, EvalLogical, EvalConditional, EvalCall,
         EvalArray, Return, callVars
<1>2. Known'
  BY <1>1 DEF RInv, Known, API!Misused, ReferencesStep, ValidateEnvCalls,
              ContextEntryPoint
<1>3. Agrees'
  BY <1>1 DEF RInv, Agrees, RuledTypes
<1>4. EvalMeans'
  <2>1. MInv /\ [Next]_evalVars
    BY <1>1 DEF RInv, EvalMeans, Next
  <2> QED
    BY <2>1, NextMInv DEF EvalMeans
<1>5. Promised' /\ AcceptedPass'
  BY <1>1 DEF RInv, Promised, AcceptedPass
<1> QED
  BY <1>1, <1>2, <1>3, <1>4, <1>5 DEF RInv, Told, apiVars

\* The outcome that the value of the expression stands for.
LEMMA EvaluatedOutcome ==
    ASSUME RInv, phase = "eval", cur = 0
    PROVE  API!Outcome(val[Root]) \in API!Outcomes(call)
<1>1. /\ StaticVerdict(call) = "" /\ ast = call.expr.tree /\ Root = Len(ast)
  BY AcceptedVerdict, Parsed
<1>2. val[Root] \in Meaning(ast, Root, scope)
  BY MeantAgrees DEF RInv, EvalMeans, AgreesWithMeaning
<1>3. scope = ScopeOf(call.ctx, NormalizeEntryPoint(call.entryPoint),
                      call.options.functions)
  BY SameNames DEF RInv, CInv
<1>4. val[Root] \in MeaningOf(call)
  BY <1>1, <1>2, <1>3 DEF MeaningOf
<1> QED
  BY <1>1, <1>4 DEF API!Outcomes

LEMMA ResultTold ==
    ASSUME RInv, CInv', Result
    PROVE  Told
<1> DEFINE out == val[Root]
<1>1. /\ phase = "eval" /\ cur = 0 /\ ~API!Misused(call)
      /\ call.api = "Evaluate" /\ call.expr.form # "blank"
      /\ API!Outcome(out) \in API!Outcomes(call)
  BY EvaluatedOutcome, AcceptedVerdict, Parsed DEF Result
<1>2. out.kind \in {"BOOLEAN", "NULL", "ERROR"}
  BY <1>1, SoundResult DEF RInv, ResultIsBoolean
<1>3. ASSUME NEW b, Answer(Reply(b, "")), API!Outcome(out) = Reply(b, "")
      PROVE  Told
  <2>1. Reply(b, "").err # "none" /\ Reply(b, "").value = b
    BY DEF Reply
  <2>2. Reply(b, "") \in API!Answers(call)
    BY <1>1, <1>3, <2>1, EvaluateAnswers
  <2> QED
    BY <1>1, <1>3, <2>1, <2>2, TellStep DEF Told, API!Next
<1>4. CASE out.kind = "BOOLEAN"
  <2>1. Answer(Reply(out = True, ""))
    BY <1>4 DEF Result
  <2>2. API!Outcome(out) = Reply(out = True, "")
    BY <1>4 DEF API!Outcome, API!Says, Reply
  <2> QED
    BY <1>3, <2>1, <2>2
<1>5. CASE out.kind = "NULL"
  <2>1. Answer(Reply(FALSE, ""))
    BY <1>5 DEF Result
  <2>2. API!Outcome(out) = Reply(FALSE, "")
    BY <1>5 DEF API!Outcome, API!Says, Reply
  <2> QED
    BY <1>3, <2>1, <2>2
<1>6. CASE out.kind = "ERROR"
  <2>1. Fail("evaluation")
    BY <1>6 DEF Result
  <2>2. API!Outcome(out) = Reply(FALSE, "evaluation")
    BY <1>6 DEF API!Outcome, API!Says, Reply
  <2> QED
    BY <1>1, <2>1, <2>2, FailStep2 DEF Told, API!Next
<1> QED
  BY <1>2, <1>4, <1>5, <1>6

LEMMA InvokeTold ==
    ASSUME RInv, CInv', Invoke
    PROVE  Told
<1>1. /\ phase = "idle" /\ phase' = "entry" /\ call' \in Calls
      /\ reply' = reply /\ accepted' = accepted /\ reply = NoReply
      /\ call = NoCall
  BY DEF Invoke, RInv, Known
<1>2. API!Ask
  BY <1>1 DEF API!Ask, API!Nobody, NoCall
<1>3. Known' /\ Agrees' /\ EvalMeans' /\ Promised' /\ AcceptedPass'
  BY <1>1 DEF RInv, Known, Agrees, EvalMeans, Promised, AcceptedPass
<1> QED
  BY <1>2, <1>3 DEF RInv, Told, API!Next

LEMMA FinishTold ==
    ASSUME RInv, CInv', Finish
    PROVE  Told
<1>1. /\ phase = "done" /\ phase' = "idle" /\ call' = NoCall
      /\ reply' = NoReply /\ accepted' = accepted /\ reply.err # "none"
  BY DEF Finish, RInv, Promised
<1>2. API!Leave
  BY <1>1 DEF API!Leave, API!Nobody, API!Pending, NoCall, NoReply, Reply
<1>3. Known' /\ Agrees' /\ EvalMeans' /\ Promised' /\ AcceptedPass'
  BY <1>1 DEF RInv, Known, Agrees, EvalMeans, Promised, AcceptedPass
<1> QED
  BY <1>2, <1>3 DEF RInv, Told, API!Next

-----------------------------------------------------------------------------
(* The theorems                                                            *)

LEMMA InitRInv == CInit => RInv /\ API!Init
<1> SUFFICES ASSUME CInit PROVE RInv /\ API!Init
  OBVIOUS
<1>1. Known /\ Agrees /\ EvalMeans /\ Promised /\ AcceptedPass
  BY DEF CInit, Known, Agrees, EvalMeans, Promised, AcceptedPass
<1>2. API!Init
  BY DEF CInit, NoCall, NoReply, Reply, API!Init, API!Nobody, API!Pending
<1> QED
  BY <1>1, <1>2, InitCInv DEF RInv

LEMMA NextRInv == RInv /\ [CNext]_vars => RInv' /\ [API!Next]_apiVars
<1> SUFFICES ASSUME RInv, [CNext]_vars PROVE Told
  BY DEF Told
<1>1. CInv'
  BY NextCInv DEF RInv
<1>2. CASE UNCHANGED vars
  <2>1. /\ phase' = phase /\ call' = call /\ ty' = ty /\ checked' = checked
        /\ reply' = reply /\ accepted' = accepted /\ ast' = ast
        /\ UNCHANGED evalVars
    BY <1>2 DEF vars, evalVars
  <2>2. Known'
    BY <2>1 DEF RInv, Known, API!Misused, ReferencesStep, ValidateEnvCalls,
                ContextEntryPoint
  <2>3. Agrees'
    BY <2>1 DEF RInv, Agrees, RuledTypes
  <2>4. EvalMeans'
    BY <2>1, NextMInv DEF RInv, EvalMeans
  <2>5. Promised' /\ AcceptedPass'
    BY <2>1 DEF RInv, Promised, AcceptedPass
  <2> QED
    BY <1>1, <2>1, <2>2, <2>3, <2>4, <2>5 DEF RInv, Told, apiVars
<1> QED
  BY <1>1, <1>2, InvokeTold, EntryPointTold, ApplyOptionsTold, BlankTold,
     ParseTold, ValidateTold, CheckTold, CheckResultTold, BuildScopeTold,
     EvaluatingTold, ResultTold, FinishTold DEF CNext, Serve

\* Whatever Validate and Evaluate do on the way, what they reply is what the
\* verdict on the expression and its meaning allow: every behaviour of the two
\* is one of the abstract API, its liveness aside.
THEOREM ApiIsImplemented == CSpec => API!Init /\ [][API!Next]_<<call, reply>>
<1>1. RInv /\ [CNext]_vars => [API!Next]_<<call, reply>>
  BY NextRInv DEF apiVars
<1> QED
  BY <1>1, InitRInv, NextRInv, PTL DEF CSpec

\* Two calls with the same contract have the same verdict.
LEMMA SameContract ==
    ASSUME NEW c, NEW d, Contract(c) = Contract(d)
    PROVE  /\ c.expr = d.expr /\ c.options = d.options
           /\ API!Misused(c) <=> API!Misused(d)
           /\ StaticVerdict(c) = StaticVerdict(d)
<1>1. /\ c.expr = d.expr /\ c.options = d.options
      /\ NormalizeEntryPoint(c.entryPoint) = NormalizeEntryPoint(d.entryPoint)
  BY DEF Contract
<1>2. API!Misused(c) <=> API!Misused(d)
  BY <1>1, SameEntryPoint
<1>3. StaticVerdict(c) = StaticVerdict(d)
  BY <1>1, Zenon DEF StaticVerdict
<1> QED
  BY <1>1, <1>2, <1>3

\* An expression that Validate accepted is not refused later by Evaluate, at
\* the same entry point and with the same options.
THEOREM ValidateIsAPromise == CSpec => []ValidatedIsNotRefused
<1>1. RInv => ValidatedIsNotRefused
  <2> SUFFICES ASSUME RInv, phase = "done", call.api = "Evaluate",
                      Contract(call) \in accepted, call.expr.form # "blank"
               PROVE  reply.err \in {"", "evaluation"}
    BY DEF ValidatedIsNotRefused
  <2>1. ~API!Misused(call) /\ StaticVerdict(call) = ""
    BY SameContract DEF RInv, AcceptedPass
  <2>2. reply \in API!Answers(call)
    BY DEF RInv, Promised
  <2>3. \A o \in API!Outcomes(call) : o.err \in {"", "evaluation"}
    <3> TAKE o \in API!Outcomes(call)
    <3>1. PICK v \in MeaningOf(call) : o = API!Outcome(v)
      BY <2>1 DEF API!Outcomes
    <3>2. \A b, kind : API!Says(b, kind).err = kind
      BY DEF API!Says
    <3> QED
      <4>1. CASE v.kind = "BOOLEAN"
        <5>1. \E b : o = API!Says(b, "")
          BY <3>1, <4>1 DEF API!Outcome
        <5> QED
          BY <3>2, <5>1, Zenon
      <4>2. CASE v.kind = "NULL"
        BY <3>1, <3>2, <4>2 DEF API!Outcome
      <4>3. CASE v.kind # "BOOLEAN" /\ v.kind # "NULL"
        BY <3>1, <3>2, <4>3 DEF API!Outcome
      <4> QED
        BY <4>1, <4>2, <4>3
  <2>4. reply \in API!Outcomes(call) \/ reply.err = ""
    <3>1. CASE API!Notification(call)
      <4>1. \/ reply = API!Says(TRUE, "")
            \/ \E o \in API!Outcomes(call) : reply = API!Says(o.value, "")
        BY <2>1, <2>2, <3>1 DEF API!Answers
      <4>2. \A b, kind : API!Says(b, kind).err = kind
        BY DEF API!Says
      <4> QED
        BY <4>1, <4>2
    <3>2. CASE ~API!Notification(call)
      BY <2>1, <2>2, <3>2 DEF API!Answers
    <3> QED
      BY <3>1, <3>2
  <2> QED
    BY <2>3, <2>4
<1> QED
  BY <1>1, InitRInv, NextRInv, PTL DEF CSpec
=============================================================================
