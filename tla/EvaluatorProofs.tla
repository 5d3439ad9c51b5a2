--------------------------- MODULE EvaluatorProofs ---------------------------
(***************************************************************************)
(* Proofs about the evaluator, for every set of expressions and scopes.    *)
(*                                                                         *)
(* IInv is inductive.  Its parts need one another: that an operand's value *)
(* never changes under its parent needs the call stack, and that the call  *)
(* stack stays a path needs the shape of the tree.                         *)
(*                                                                         *)
(* MInv adds that every value is one that its node means.  Meanings is a   *)
(* function defined by recursion over the nodes of a tree; that there is   *)
(* such a function is proved by well-founded induction on how many nodes   *)
(* it is defined for, and the rest only uses its equation, MeaningsDef.    *)
(***************************************************************************)
EXTENDS Evaluator, Reference, TypeCheckProofs

IInv == TypeOK /\ CallStack /\ ErrorsPropagate /\ OnlyChosenOperands

-----------------------------------------------------------------------------
(* The operators return values. *)

\* An infix operator always yields a value, whatever its operands.
LEMMA InfixValue ==
    ASSUME NEW op, NEW l, NEW r, NEW v \in EvalInfixExpression(op, l, r)
    PROVE  IsValue(v)
<1>1. \A b : IsValue(Bool(b))
  BY DEF IsValue, Bool, True, False, Atom, Kinds
<1>2. \A c : IsValue(Error(c))
  BY DEF IsValue, Error, Atom, Kinds
<1>3. IsValue(True) /\ IsValue(False)
  BY DEF IsValue, True, False, Atom, Kinds
<1>4. CASE v \in EvalStringRegexp(op, l, r)
  BY <1>1, <1>2, <1>4 DEF EvalStringRegexp
<1>5. CASE v = EvalNullRegexp(op)
  BY <1>2, <1>3, <1>5 DEF EvalNullRegexp
<1>6. CASE v \in ArrayContains(l.elems, r)
  BY <1>2, <1>3, <1>6 DEF ArrayContains
<1>7. CASE v = False
  BY <1>3, <1>7
<1>8. CASE v = Comparison(op, l, r)
  BY <1>1, <1>2, <1>8 DEF Comparison
<1>9. \/ v \in EvalStringRegexp(op, l, r) \/ v = EvalNullRegexp(op)
      \/ v \in ArrayContains(l.elems, r) \/ v = False \/ v = Comparison(op, l, r)
  BY DEF EvalInfixExpression
<1> QED
  BY <1>4, <1>5, <1>6, <1>7, <1>8, <1>9

\* So does a prefix operator ...
LEMMA PrefixValue ==
    ASSUME NEW op, NEW r
    PROVE  IsValue(EvalPrefixExpression(op, r))
BY DEF EvalPrefixExpression, EvalBangOperatorExpression, IsValue, Bool, True,
       False, Error, Atom, Kinds

\* ... a shell expansion, as an operand or inside a string ...
LEMMA ShellValue ==
    ASSUME NEW x, NEW env
    PROVE  /\ IsValue(EvalShellExpansion(x, env))
           /\ IsValue(EvalString(x, env))
<1>1. \A t : IsValue(Str(t)) /\ IsValue(Error(t))
  BY DEF IsValue, Str, Error, Atom, Kinds
<1>2. IsValue(Null)
  BY DEF IsValue, Null, Atom, Kinds
<1>3. IsValue(EvalBraced(x, env))
  BY <1>1, <1>2 DEF EvalBraced
<1> QED
  BY <1>1, <1>3 DEF EvalShellExpansion, EvalString

\* ... and a call, of whatever is bound to the name.
LEMMA CallValue ==
    ASSUME NEW s, Bound(s), NEW name, NEW args,
           NEW v \in EvalCallExpression(s, name, args)
    PROVE  IsValue(v)
<1>1. \A t : IsValue(Str(t)) /\ IsValue(Error(t))
  BY DEF IsValue, Str, Error, Atom, Kinds
<1>2. IsValue(Null)
  BY DEF IsValue, Null, Atom, Kinds
<1>3. CASE name \notin DOMAIN s.vars
  BY <1>1, <1>3 DEF EvalCallExpression
<1>4. CASE name \in DOMAIN s.vars
  <2> DEFINE fn == s.vars[name]
  <2>0. /\ Function("env") # Function("build.env")
        /\ \A f : Function(f).kind = "FUNCTION"
    BY DEF Function, Atom
  <2>1. v \in ApplyFunction(s, fn, args)
    BY <1>4 DEF EvalCallExpression
  <2>2. CASE fn.kind # "FUNCTION"
    BY <1>1, <2>1, <2>2, <2>0 DEF ApplyFunction
  <2>3. IsValue(EnvFunction(s.env, args))
    BY <1>1 DEF EnvFunction
  <2>4. IsValue(NullableEnvFunction(s.env, args))
    BY <1>1, <1>2 DEF NullableEnvFunction
  <2>5. CASE /\ fn.kind = "FUNCTION"
             /\ fn # Function("env") /\ fn # Function("build.env")
    <3>1. PICK f \in {"env", "build.env"} \cup DOMAIN s.functions :
              fn = Function(f)
      BY <1>4, <2>5 DEF Bound
    <3>2. fn.v = f /\ f \in DOMAIN s.functions
      BY <2>5, <3>1 DEF Function, Atom
    <3>3. v \in ObjectFunction(s.functions[f])
      BY <2>1, <2>5, <3>2 DEF ApplyFunction
    <3> QED
      BY <1>1, <3>2, <3>3 DEF ObjectFunction, Bound
  <2> QED
    BY <2>0, <2>1, <2>2, <2>3, <2>4, <2>5 DEF ApplyFunction
<1> QED
  BY <1>3, <1>4

-----------------------------------------------------------------------------
(* The tree, and what a node knows of its operands. *)

Nodes == 1..Len(ast)

Slots(n) == DOMAIN ast[n].kids

\* The shape of the tree: the facts of WellFormed in the form the steps use.
LEMMA TreeShape ==
    ASSUME WellFormed(ast)
    PROVE  /\ Len(ast) \in Nat \ {0}
           /\ Root \in Nodes
           /\ \A n \in Nodes :
                /\ ast[n].up \in 0..Len(ast)
                /\ ast[n].up = 0 <=> n = Root
                /\ ast[n].up # 0 => /\ ast[n].up \in Nodes
                                   /\ ast[n].up # n
                                   /\ \E k \in Slots(ast[n].up) :
                                          ast[ast[n].up].kids[k] = n
                /\ \A k \in Slots(n) : /\ ast[n].kids[k] \in Nodes
                                       /\ ast[n].kids[k] # n
                                       /\ ast[ast[n].kids[k]].up = n
                /\ \A j, k \in Slots(n) :
                       ast[n].kids[j] = ast[n].kids[k] => j = k
<1>1. Len(ast) \in Nat \ {0}
  BY DEF WellFormed
<1>2. \A n \in Nodes : ast[n].kids \in Seq(Nat)
  <2>1. ast \in Seq(Node)
    BY DEF WellFormed
  <2>2. \A n \in Nodes : ast[n] \in Node
    BY <1>1, <2>1 DEF Nodes
  <2> QED
    BY <2>2 DEF Node
<1>3. \A n \in Nodes : Slots(n) = 1..Len(ast[n].kids)
  BY <1>2 DEF Slots
<1>4. \A n \in Nodes : \A k \in Slots(n) :
          ast[n].kids[k] \in 1..(n - 1) /\ ast[ast[n].kids[k]].up = n
  BY <1>3 DEF WellFormed, Nodes
<1>5. \A n \in Nodes : \A j, k \in Slots(n) :
          ast[n].kids[j] = ast[n].kids[k] => j = k
  <2>1. TAKE n \in Nodes
  <2>2. \A j, k \in 1..Len(ast[n].kids) :
            ast[n].kids[j] = ast[n].kids[k] => j = k
    BY DEF WellFormed, Nodes
  <2> QED
    BY <1>3, <2>2
<1>6. ASSUME NEW n \in Nodes, n # Len(ast)
      PROVE  /\ ast[n].up \in (n + 1)..Len(ast)
             /\ \E k \in 1..Len(ast[ast[n].up].kids) :
                    ast[ast[n].up].kids[k] = n
  <2>1. n < Len(ast)
    BY <1>1, <1>6 DEF Nodes
  <2> QED
    BY <2>1 DEF WellFormed, Nodes
<1>7. ast[Len(ast)].up = 0
  BY DEF WellFormed
<1>8. \A n \in Nodes :
          n # Len(ast) => /\ ast[n].up \in Nodes /\ ast[n].up # n
                          /\ \E k \in Slots(ast[n].up) :
                                 ast[ast[n].up].kids[k] = n
  BY <1>1, <1>3, <1>6 DEF Nodes
<1>9. \A n \in Nodes : \A k \in Slots(n) :
          ast[n].kids[k] \in Nodes /\ ast[n].kids[k] # n
  BY <1>1, <1>4 DEF Nodes
<1>10. \A n \in Nodes : /\ ast[n].up \in 0..Len(ast)
                         /\ ast[n].up = 0 <=> n = Len(ast)
  BY <1>1, <1>7, <1>8 DEF Nodes
<1> QED
  BY <1>1, <1>4, <1>5, <1>7, <1>8, <1>9, <1>10 DEF Root, Nodes

\* The operands of the nodes that do not evaluate all of theirs.
LEMMA LazySlots ==
    ASSUME WellFormed(ast), NEW n \in Nodes
    PROVE  /\ ast[n].op = "Ternary" => Slots(n) = 1..3 /\ ~IsLogical(ast[n])
           /\ IsLogical(ast[n]) => Slots(n) = 1..2 /\ ast[n].op # "Ternary"
<1>1. ast[n] \in Node /\ Len(ast[n].kids) = Arity(ast[n])
  BY DEF WellFormed, Nodes
<1>2. Slots(n) = 1..Arity(ast[n])
  BY <1>1 DEF Slots, Node
<1> QED
  BY <1>2 DEF IsLogical, Arity, LeafOps

\* At a return no operand is open, so an operand that is not None is a value.
LEMMA OperandValue ==
    ASSUME TypeOK, CallStack, cur # 0, NEW k \in Slots(cur)
    PROVE  Operand(cur, k) = None \/ IsValue(Operand(cur, k))
<1>1. cur \in Nodes /\ ast[cur].kids[k] \in Nodes
  BY TreeShape DEF TypeOK, Nodes
<1>2. Operand(cur, k) # Open
  BY <1>1 DEF CallStack, Nodes, Slots
<1> QED
  BY <1>1, <1>2 DEF TypeOK, Operand, Nodes

\* A node that returns without computing hands on the value of an operand: of
\* the second one, if it has been evaluated, or else of the one that decided.
LEMMA DecidedValue ==
    ASSUME TypeOK, CallStack, cur # 0,
           \A k \in Slots(cur) : ~Wants(cur, k), ~Failed(cur),
           IsLogical(ast[cur]) \/ ast[cur].op = "Ternary"
    PROVE  \/ IsValue(Operand(cur, 2))
           \/ /\ IsLogical(ast[cur])
              /\ IsValue(Operand(cur, 1))
           \/ /\ ast[cur].op = "Ternary"
              /\ IsValue(Operand(cur, 3))
<1>1. cur \in Nodes
  BY DEF TypeOK, Nodes
<1>2. /\ ast[cur].op = "Ternary" => Slots(cur) = 1..3 /\ ~IsLogical(ast[cur])
      /\ IsLogical(ast[cur]) => Slots(cur) = 1..2 /\ ast[cur].op # "Ternary"
  BY <1>1, LazySlots DEF TypeOK
<1>3. \A k \in Slots(cur) : Chosen(cur, k) => IsValue(Operand(cur, k))
  BY OperandValue DEF Wants
<1>4. CASE IsLogical(ast[cur])
  <2>1. 1 \in Slots(cur) /\ ast[cur].op # "Ternary"
    BY <1>2, <1>4
  <2>2. Chosen(cur, 1)
    BY <1>4, <2>1 DEF Chosen
  <2> QED
    BY <1>3, <1>4, <2>1, <2>2
<1>5. CASE ast[cur].op = "Ternary"
  <2>1. {1, 2, 3} \subseteq Slots(cur)
    BY <1>2, <1>5
  <2>2. Chosen(cur, 1)
    BY <1>5 DEF Chosen
  <2>3. IsValue(Operand(cur, 1))
    BY <1>3, <2>1, <2>2
  <2>4. Chosen(cur, 2) \/ Chosen(cur, 3)
    <3>1. ~IsLogical(ast[cur])
      BY <1>2, <1>5
    <3>2. CASE IsTruthy(Operand(cur, 1))
      BY <1>5, <2>3, <3>1, <3>2 DEF Chosen
    <3>3. CASE ~IsTruthy(Operand(cur, 1))
      BY <1>5, <2>3, <3>1, <3>3 DEF Chosen
    <3> QED
      BY <3>2, <3>3
  <2> QED
    BY <1>3, <1>5, <2>1, <2>4
<1> QED
  BY <1>4, <1>5

\* A node that evaluates all its operands has the values of all of them when
\* it is ready.
LEMMA AllOperands ==
    ASSUME TypeOK, CallStack, cur # 0, ~Failed(cur),
           \A k \in Slots(cur) : ~Wants(cur, k),
           ~IsLogical(ast[cur]), ast[cur].op # "Ternary"
    PROVE  \A k \in Slots(cur) : /\ IsValue(Operand(cur, k))
                                /\ Operand(cur, k).kind # "ERROR"
<1> DEFINE T == {k \in Slots(cur) : ~IsValue(Operand(cur, k))}
<1>1. Slots(cur) = 1..Len(ast[cur].kids) /\ Len(ast[cur].kids) \in Nat
  <2>1. ast \in Seq(Node) /\ cur \in 1..Len(ast)
    BY DEF TypeOK, WellFormed
  <2>2. ast[cur] \in Node
    BY <2>1
  <2>3. ast[cur].kids \in Seq(Nat)
    BY <2>2 DEF Node
  <2> QED
    BY <2>3 DEF Slots
<1>2. SUFFICES ASSUME T # {} PROVE FALSE
  BY DEF Failed, Slots
<1>3. PICK k \in T : \A j \in T : ~(<<j, k>> \in OpToRel(<, Nat))
  <2>1. T \subseteq Nat
    BY <1>1
  <2> HIDE DEF T
  <2> QED
    BY <1>2, <2>1, NatLessThanWellFounded, WFMin
<1>4. \A j \in 1..(k - 1) : IsValue(Operand(cur, j))
  <2>1. ASSUME NEW j \in 1..(k - 1)
        PROVE  j \in Slots(cur) /\ j \in Nat /\ k \in Nat /\ j < k
    <3>1. k \in Slots(cur)
      BY <1>3
    <3> HIDE DEF T
    <3> QED
      BY <1>1, <3>1
  <2>2. ASSUME NEW j \in 1..(k - 1) PROVE <<j, k>> \in OpToRel(<, Nat)
    BY <2>1 DEF OpToRel
  <2> QED
    BY <1>3, <2>1, <2>2
<1>5. Chosen(cur, k)
  BY <1>4 DEF Chosen
<1>6. Operand(cur, k) = None
  BY <1>3, OperandValue
<1> QED
  BY <1>3, <1>5, <1>6 DEF Wants

\* Whatever the operation, a return stores one value in the node that is being
\* evaluated: the error of an operand, when there is one.
LEMMA ReturnsValue ==
    ASSUME TypeOK, CallStack, EvalReturn
    PROVE  \E r : /\ IsValue(r)
                 /\ cur # 0
                 /\ Return(r)
                 /\ \/ \A k \in Slots(cur) : ~IsError(Operand(cur, k))
                    \/ \E k \in Slots(cur) : /\ IsError(Operand(cur, k))
                                             /\ r = Operand(cur, k)
<1> DEFINE Clean == cur # 0 /\ \A k \in Slots(cur) : ~IsError(Operand(cur, k))
<1>1. \A op : Ready(op) => Clean
  BY DEF Ready, Failed, IsError, Slots
<1>2. CASE PropagateError
  <2>1. PICK k \in Slots(cur) : IsError(Operand(cur, k)) /\ Return(Operand(cur, k))
    BY <1>2 DEF PropagateError, IsError, Slots
  <2>2. cur # 0 /\ IsValue(Operand(cur, k))
    BY <1>2, <2>1 DEF PropagateError, IsError, IsValue, Kinds
  <2> QED
    BY <2>1, <2>2
<1>3. ASSUME Clean, NEW r, Return(r), IsValue(r)
      PROVE  \E v : /\ IsValue(v) /\ cur # 0 /\ Return(v)
                   /\ \A k \in Slots(cur) : ~IsError(Operand(cur, k))
  BY <1>3
<1>4. CASE EvalLiteral
  <2>1. PICK op \in DOMAIN LiteralKind :
            Ready(op) /\ Return(Atom(LiteralKind[op], ast[cur].tok))
    BY <1>4 DEF EvalLiteral
  <2>2. IsValue(Atom(LiteralKind[op], ast[cur].tok))
    BY DEF IsValue, Atom, LiteralKind, Kinds
  <2> QED
    BY <1>1, <1>3, <2>1, <2>2
<1>5. CASE EvalDollar
  <2>1. IsValue(Str(Expansions[ast[cur].tok].word))
    BY DEF IsValue, Str, Atom, Kinds
  <2> QED
    BY <1>1, <1>3, <1>5, <2>1 DEF EvalDollar
<1>6. CASE EvalTemplate \/ EvalShell
  BY <1>1, <1>3, <1>6, ShellValue DEF EvalTemplate, EvalShell
<1>7. CASE EvalIdentifier
  <2>1. IsValue(IF ast[cur].tok \in DOMAIN scope.vars
                THEN scope.vars[ast[cur].tok] ELSE Error("scope"))
    BY DEF TypeOK, Bound, IsValue, Error, Atom, Kinds
  <2> QED
    BY <1>1, <1>3, <1>7, <2>1 DEF EvalIdentifier
<1>8. CASE EvalPrefix
  BY <1>1, <1>3, <1>8, PrefixValue DEF EvalPrefix
<1>9. CASE EvalInfix
  <2>1. PICK r \in EvalInfixExpression(ast[cur].tok, Operand(cur, 1),
                                       Operand(cur, 2)) : Return(r)
    BY <1>9 DEF EvalInfix
  <2>2. IsValue(r)
    BY <2>1, InfixValue
  <2> QED
    BY <1>1, <1>3, <1>9, <2>1, <2>2 DEF EvalInfix
<1>10. CASE EvalLogical
  <2>1. IsValue(IF IsValue(Operand(cur, 2)) THEN Operand(cur, 2)
                                            ELSE Operand(cur, 1))
    BY <1>10, DecidedValue DEF EvalLogical, Ready, IsLogical, Slots
  <2> QED
    BY <1>1, <1>3, <1>10, <2>1 DEF EvalLogical
<1>11. CASE EvalConditional
  <2>1. IsValue(IF IsValue(Operand(cur, 2)) THEN Operand(cur, 2)
                                            ELSE Operand(cur, 3))
    BY <1>11, DecidedValue DEF EvalConditional, Ready, IsLogical, Slots
  <2> QED
    BY <1>1, <1>3, <1>11, <2>1 DEF EvalConditional
<1>12. CASE EvalCall
  <2>1. PICK r \in EvalCallExpression(scope, ast[cur].tok, Operands(cur)) :
            Return(r)
    BY <1>12 DEF EvalCall
  <2>2. IsValue(r)
    BY <2>1, CallValue DEF TypeOK
  <2> QED
    BY <1>1, <1>3, <1>12, <2>1, <2>2 DEF EvalCall
<1>13. CASE EvalArray
  <2>1. IsValue(Array(Operands(cur)))
    BY DEF IsValue, Array, Kinds
  <2> QED
    BY <1>1, <1>3, <1>13, <2>1 DEF EvalArray
<1> QED
  BY <1>2, <1>4, <1>5, <1>6, <1>7, <1>8, <1>9, <1>10, <1>11, <1>12, <1>13
     DEF EvalReturn

-----------------------------------------------------------------------------
(* The steps preserve the invariant. *)

\* The call of Eval on an operand.
LEMMA EvalOperandStep ==
    ASSUME IInv, EvalOperand
    PROVE  IInv'
<1> USE DEF IInv
<1>1. PICK k \in Slots(cur) : /\ Wants(cur, k)
                             /\ cur' = ast[cur].kids[k]
                             /\ val' = [val EXCEPT ![cur'] = Open]
  BY DEF EvalOperand, Slots
<1> DEFINE c == ast[cur].kids[k]
<1>2. /\ cur \in Nodes /\ c \in Nodes /\ c # cur /\ ast[c].up = cur
      /\ \A j \in Slots(cur) : ast[cur].kids[j] = c => j = k
  <2>1. cur \in Nodes
    BY DEF EvalOperand, TypeOK, Nodes
  <2> QED
    BY <2>1, TreeShape DEF TypeOK
<1>3. ast' = ast /\ scope' = scope
  BY DEF EvalOperand
<1>4. /\ DOMAIN val' = Nodes
      /\ \A n \in Nodes : val'[n] = IF n = c THEN Open ELSE val[n]
  BY <1>1 DEF TypeOK, Nodes
<1>5. \A n \in Nodes : \A j \in Slots(n) :
          Operand(n, j)' = IF n = cur /\ j = k THEN Open ELSE Operand(n, j)
  <2>1. ASSUME NEW n \in Nodes, NEW j \in Slots(n)
        PROVE  /\ ast[n].kids[j] \in Nodes
               /\ ast[ast[n].kids[j]].up = n
    BY TreeShape DEF TypeOK
  <2>2. ASSUME NEW n \in Nodes, NEW j \in Slots(n)
        PROVE  ast[n].kids[j] = c <=> (n = cur /\ j = k)
    BY <1>2, <2>1
  <2> QED
    BY <1>3, <1>4, <2>1, <2>2 DEF Operand
<1>6. val[c] = None /\ Operand(cur, k) = None
  BY <1>1 DEF Wants, Operand
<1>7. /\ val[cur] = Open
      /\ \A j \in Slots(cur) : Operand(cur, j) # Open
      /\ \A j \in Slots(cur) : ~IsError(Operand(cur, j))
  BY <1>1, <1>2 DEF CallStack, Wants, Failed, IsError, Nodes, Slots
<1>8. None # Open /\ ~IsError(Open) /\ ~IsValue(Open) /\ ~IsValue(None)
  BY DEF None, Open, Atom, IsError, IsValue, Kinds
<1>9. TypeOK'
  <2>1. cur' \in 0..Len(ast)
    BY <1>1, <1>2 DEF Nodes
  <2> QED
    BY <1>3, <1>4, <2>1 DEF TypeOK, Nodes, WellFormed, Bound
<1>10. CallStack'
  <2>1. cur' # 0 /\ val'[cur'] = Open
    BY <1>1, <1>2, <1>4 DEF Nodes
  <2>2. ASSUME NEW n \in Nodes, val'[n] = Open, ast[n].up # 0
        PROVE  val'[ast[n].up] = Open
    BY <1>2, <1>4, <1>7, <2>2, TreeShape DEF CallStack, TypeOK, Nodes
  <2>3. ASSUME NEW n \in Nodes, val'[n] = None, NEW j \in Slots(n)
        PROVE  Operand(n, j)' = None
    BY <1>4, <1>5, <1>7, <1>8, <2>3 DEF CallStack, Nodes, Slots
  <2>4. ASSUME NEW n \in Nodes, NEW j \in Slots(n), Operand(n, j)' = Open
        PROVE  /\ n # cur'
               /\ \A i \in Slots(n) : Operand(n, i)' = Open => i = j
    <3>1. CASE n = cur
      BY <1>1, <1>2, <1>5, <1>7, <2>4, <3>1
    <3>2. CASE n # cur
      <4>1. Operand(n, j) = Open
        BY <1>5, <2>4, <3>2
      <4>2. n # c
        BY <1>6, <1>8, <4>1 DEF CallStack, Nodes, Slots
      <4> QED
        BY <1>1, <1>5, <3>2, <4>1, <4>2 DEF CallStack, Nodes, Slots
    <3> QED
      BY <3>1, <3>2
  <2> QED
    BY <1>3, <2>1, <2>2, <2>3, <2>4 DEF CallStack, Nodes, Slots
<1>11. ErrorsPropagate'
  <2>1. ASSUME NEW n \in Nodes, NEW j \in Slots(n), IsError(Operand(n, j)')
        PROVE  /\ val'[n] = Operand(n, j)' \/ cur' = n
               /\ \A i \in Slots(n) \ {j} :
                     Operand(n, i)' # Open /\ ~IsError(Operand(n, i)')
    <3>1. n # cur /\ IsError(Operand(n, j)) /\ Operand(n, j)' = Operand(n, j)
      BY <1>5, <1>7, <1>8, <2>1
    <3>2. /\ val[n] = Operand(n, j)
          /\ \A i \in Slots(n) \ {j} :
                Operand(n, i) # Open /\ ~IsError(Operand(n, i))
      BY <3>1 DEF ErrorsPropagate, Nodes, Slots
    <3>3. n = c \/ val'[n] = val[n]
      BY <1>4
    <3> QED
      BY <1>1, <1>5, <3>1, <3>2, <3>3
  <2> QED
    BY <1>3, <2>1 DEF ErrorsPropagate, Nodes, Slots, IsError, Operand
<1>12. OnlyChosenOperands'
  <2>1. ASSUME NEW n \in Nodes, ast[n].op = "Ternary"
        PROVE  /\ Operand(n, 2)' # None =>
                     /\ Operand(n, 3)' = None
                     /\ IsValue(Operand(n, 1)') /\ IsTruthy(Operand(n, 1)')
               /\ Operand(n, 3)' # None =>
                     /\ Operand(n, 2)' = None
                     /\ IsValue(Operand(n, 1)') /\ ~IsTruthy(Operand(n, 1)')
    <3>1. {1, 2, 3} = Slots(n) /\ ~IsLogical(ast[n])
      BY <2>1, LazySlots DEF TypeOK
    <3>2. /\ Operand(n, 2) # None => /\ Operand(n, 3) = None
                                     /\ IsValue(Operand(n, 1))
                                     /\ IsTruthy(Operand(n, 1))
          /\ Operand(n, 3) # None => /\ Operand(n, 2) = None
                                     /\ IsValue(Operand(n, 1))
                                     /\ ~IsTruthy(Operand(n, 1))
      BY <2>1 DEF OnlyChosenOperands, Nodes
    <3>3. CASE n # cur
      BY <1>5, <3>1, <3>2, <3>3
    <3>4. CASE n = cur
      <4>1. k = 1 \/ /\ IsValue(Operand(cur, 1))
                     /\ k = IF IsTruthy(Operand(cur, 1)) THEN 2 ELSE 3
        BY <1>1, <2>1, <3>1, <3>4 DEF Wants, Chosen
      <4> QED
        BY <1>5, <1>6, <1>8, <3>1, <3>2, <3>4, <4>1
    <3> QED
      BY <3>3, <3>4
  <2>2. ASSUME NEW n \in Nodes, IsLogical(ast[n]), Operand(n, 2)' # None
        PROVE  /\ IsValue(Operand(n, 1)')
               /\ IsTruthy(Operand(n, 1)') = (ast[n].tok = "&&")
    <3>1. {1, 2} = Slots(n) /\ ast[n].op # "Ternary"
      BY <2>2, LazySlots DEF TypeOK
    <3>2. Operand(n, 2) # None => /\ IsValue(Operand(n, 1))
                                  /\ IsTruthy(Operand(n, 1)) = (ast[n].tok = "&&")
      BY <2>2 DEF OnlyChosenOperands, Nodes
    <3>3. CASE n # cur
      BY <1>5, <2>2, <3>1, <3>2, <3>3
    <3>4. CASE n = cur
      <4>1. k = 1 \/ /\ IsValue(Operand(cur, 1))
                     /\ IsTruthy(Operand(cur, 1)) = (ast[cur].tok = "&&")
        BY <1>1, <2>2, <3>1, <3>4 DEF Wants, Chosen
      <4> QED
        BY <1>5, <1>6, <1>8, <2>2, <3>1, <3>2, <3>4, <4>1
    <3> QED
      BY <3>3, <3>4
  <2> QED
    BY <1>3, <2>1, <2>2
       DEF OnlyChosenOperands, Nodes, Operand, IsValue, IsTruthy
<1> QED
  BY <1>9, <1>10, <1>11, <1>12

\* A return.
LEMMA EvalReturnStep ==
    ASSUME IInv, EvalReturn
    PROVE  IInv'
<1> USE DEF IInv
<1>1. PICK r : /\ IsValue(r)
               /\ cur # 0
               /\ Return(r)
               /\ \/ \A k \in Slots(cur) : ~IsError(Operand(cur, k))
                  \/ \E k \in Slots(cur) : /\ IsError(Operand(cur, k))
                                           /\ r = Operand(cur, k)
  BY ReturnsValue
<1> DEFINE up == ast[cur].up
<1>2. /\ ast' = ast /\ scope' = scope
      /\ cur' = up /\ cur \in Nodes /\ val[cur] = Open
  BY <1>1 DEF Return, TypeOK, CallStack, Nodes
<1>3. /\ DOMAIN val' = Nodes
      /\ \A n \in Nodes : val'[n] = IF n = cur THEN r ELSE val[n]
  BY <1>1 DEF Return, TypeOK, Nodes
<1>4. ASSUME NEW n \in Nodes, NEW j \in Slots(n)
      PROVE  /\ ast[n].kids[j] \in Nodes /\ ast[n].kids[j] # n
             /\ ast[ast[n].kids[j]].up = n
  BY TreeShape DEF TypeOK
<1>5. \A n \in Nodes : \A j \in Slots(n) :
          Operand(n, j)' = IF ast[n].kids[j] = cur THEN r ELSE Operand(n, j)
  BY <1>2, <1>3, <1>4 DEF Operand
<1>6. \A n \in Nodes : \A j \in Slots(n) :
          ast[n].kids[j] = cur => n = up /\ Operand(n, j) = Open
  BY <1>2, <1>4 DEF Operand
<1>7. None # Open /\ ~IsValue(Open) /\ ~IsValue(None)
  BY DEF None, Open, Atom, IsValue, Kinds
<1>8. \A j \in Slots(cur) : ast[cur].kids[j] # cur /\ Operand(cur, j) # Open
  BY <1>2, <1>4 DEF CallStack, Nodes, Slots
<1>9. TypeOK'
  <2>1. up \in 0..Len(ast)
    BY <1>2, TreeShape DEF TypeOK
  <2>2. WellFormed(ast)' /\ Bound(scope)'
    BY <1>2 DEF TypeOK, WellFormed, Bound
  <2>3. \A n \in Nodes : val'[n] \in {None, Open} \/ IsValue(val'[n])
    BY <1>1, <1>3 DEF TypeOK, Nodes
  <2> QED
    BY <1>2, <1>3, <2>1, <2>2, <2>3 DEF TypeOK, Nodes, IsValue
<1>10. CallStack'
  <2>1. /\ up # 0 => up \in Nodes /\ up # cur /\ val'[up] = Open
        /\ up = 0 => IsValue(val'[Root])
    BY <1>1, <1>2, <1>3, TreeShape DEF TypeOK, CallStack, Nodes
  <2>2. ASSUME NEW n \in Nodes, val'[n] = Open, ast[n].up # 0
        PROVE  val'[ast[n].up] = Open
    <3>1. n # cur /\ val[n] = Open
      BY <1>1, <1>3, <1>7, <2>2
    <3>2. PICK j \in Slots(ast[n].up) : ast[ast[n].up].kids[j] = n
      BY <2>2, TreeShape DEF TypeOK
    <3>3. ast[n].up \in Nodes /\ val[ast[n].up] = Open
      BY <2>2, <3>1, TreeShape DEF TypeOK, CallStack, Nodes
    <3>4. ast[n].up # cur
      BY <1>2, <1>8, <3>1, <3>2 DEF Operand
    <3> QED
      BY <1>3, <3>3, <3>4
  <2>3. ASSUME NEW n \in Nodes, val'[n] = None, NEW j \in Slots(n)
        PROVE  Operand(n, j)' = None
    <3>1. n # cur /\ val[n] = None
      BY <1>1, <1>3, <1>7, <2>3
    <3>2. Operand(n, j) = None
      BY <3>1 DEF CallStack, Nodes, Slots
    <3> QED
      BY <1>5, <1>6, <1>7, <3>2
  <2>4. ASSUME NEW n \in Nodes, NEW j \in Slots(n), Operand(n, j)' = Open
        PROVE  /\ n # cur'
               /\ \A i \in Slots(n) : Operand(n, i)' = Open => i = j
    <3>1. ast[n].kids[j] # cur /\ Operand(n, j) = Open
      BY <1>1, <1>5, <1>7, <2>4
    <3>2. \A i \in Slots(n) : Operand(n, i) = Open => i = j
      BY <3>1 DEF CallStack, Nodes, Slots
    <3>3. \A i \in Slots(n) : ast[n].kids[i] # cur
      BY <1>6, <3>1, <3>2
    <3>4. n # up
      BY <1>2, <3>3, TreeShape DEF TypeOK, Nodes
    <3> QED
      BY <1>2, <1>5, <3>2, <3>3, <3>4
  <2> QED
    BY <1>2, <2>1, <2>2, <2>3, <2>4 DEF CallStack, Nodes, Slots, Root, IsValue
<1>11. ErrorsPropagate'
  <2>1. ASSUME NEW n \in Nodes, NEW j \in Slots(n), IsError(Operand(n, j)')
        PROVE  /\ val'[n] = Operand(n, j)' \/ cur' = n
               /\ \A i \in Slots(n) \ {j} :
                     Operand(n, i)' # Open /\ ~IsError(Operand(n, i)')
    <3>1. CASE n = cur
      <4>1. \A i \in Slots(n) : Operand(n, i)' = Operand(n, i)
        BY <1>2, <1>5, <1>8, <3>1
      <4>2. IsError(Operand(n, j))
        BY <2>1, <4>1
      <4>3. \A i \in Slots(n) \ {j} :
                Operand(n, i) # Open /\ ~IsError(Operand(n, i))
        BY <4>2 DEF ErrorsPropagate, Nodes, Slots
      <4>4. r = Operand(n, j)
        BY <1>1, <3>1, <4>2, <4>3
      <4> QED
        BY <1>2, <1>3, <3>1, <4>1, <4>3, <4>4
    <3>2. CASE ast[n].kids[j] = cur
      <4>1. n = up /\ Operand(n, j) = Open
        BY <1>6, <3>2
      <4>2. ASSUME NEW i \in Slots(n) \ {j}
            PROVE  /\ ast[n].kids[i] # cur
                   /\ Operand(n, i) # Open /\ ~IsError(Operand(n, i))
        BY <1>6, <4>1 DEF CallStack, ErrorsPropagate, Nodes, Slots
      <4> QED
        BY <1>2, <1>5, <4>1, <4>2
    <3>3. CASE n # cur /\ ast[n].kids[j] # cur
      <4>1. IsError(Operand(n, j)) /\ Operand(n, j)' = Operand(n, j)
        BY <1>5, <2>1, <3>3
      <4>2. /\ val[n] = Operand(n, j)
            /\ \A i \in Slots(n) \ {j} :
                  Operand(n, i) # Open /\ ~IsError(Operand(n, i))
        BY <3>3, <4>1 DEF ErrorsPropagate, Nodes, Slots
      <4>3. ASSUME NEW i \in Slots(n) PROVE ast[n].kids[i] # cur
        BY <1>6, <3>3, <4>2
      <4> QED
        BY <1>3, <1>5, <3>3, <4>1, <4>2, <4>3
    <3> QED
      BY <3>1, <3>2, <3>3
  <2> QED
    BY <1>2, <2>1 DEF ErrorsPropagate, Nodes, Slots, IsError, Operand
<1>12. OnlyChosenOperands'
  <2>1. ASSUME NEW n \in Nodes, ast[n].op = "Ternary"
        PROVE  /\ Operand(n, 2)' # None =>
                     /\ Operand(n, 3)' = None
                     /\ IsValue(Operand(n, 1)') /\ IsTruthy(Operand(n, 1)')
               /\ Operand(n, 3)' # None =>
                     /\ Operand(n, 2)' = None
                     /\ IsValue(Operand(n, 1)') /\ ~IsTruthy(Operand(n, 1)')
    <3>1. {1, 2, 3} = Slots(n)
      BY <2>1, LazySlots DEF TypeOK
    <3>2. /\ Operand(n, 2) # None => /\ Operand(n, 3) = None
                                     /\ IsValue(Operand(n, 1))
                                     /\ IsTruthy(Operand(n, 1))
          /\ Operand(n, 3) # None => /\ Operand(n, 2) = None
                                     /\ IsValue(Operand(n, 1))
                                     /\ ~IsTruthy(Operand(n, 1))
      BY <2>1 DEF OnlyChosenOperands, Nodes
    <3> QED
      BY <1>5, <1>6, <1>7, <3>1, <3>2
  <2>2. ASSUME NEW n \in Nodes, IsLogical(ast[n]), Operand(n, 2)' # None
        PROVE  /\ IsValue(Operand(n, 1)')
               /\ IsTruthy(Operand(n, 1)') = (ast[n].tok = "&&")
    <3>1. {1, 2} = Slots(n)
      BY <2>2, LazySlots DEF TypeOK
    <3>2. Operand(n, 2) # None => /\ IsValue(Operand(n, 1))
                                  /\ IsTruthy(Operand(n, 1)) = (ast[n].tok = "&&")
      BY <2>2 DEF OnlyChosenOperands, Nodes
    <3> QED
      BY <1>5, <1>6, <1>7, <2>2, <3>1, <3>2
  <2> QED
    BY <1>2, <2>1, <2>2
       DEF OnlyChosenOperands, Nodes, Operand, IsValue, IsTruthy
<1> QED
  BY <1>9, <1>10, <1>11, <1>12

-----------------------------------------------------------------------------
(* The theorems. *)

\* A call of Eval on the root of a tree satisfies the invariant ...
LEMMA StartIInv ==
    WellFormed(ast) /\ Bound(scope) /\ cur = Root /\ val = Started(ast) => IInv
<1> SUFFICES ASSUME WellFormed(ast), Bound(scope), cur = Root, val = Started(ast)
             PROVE  IInv
  OBVIOUS
<1>1. WellFormed(ast) /\ Bound(scope)
  OBVIOUS
<1>2. /\ Len(ast) \in Nat \ {0} /\ cur = Len(ast)
      /\ DOMAIN val = Nodes
      /\ \A n \in Nodes : val[n] = IF n = Len(ast) THEN Open ELSE None
  <2>1. DOMAIN ast = Nodes
    BY <1>1 DEF WellFormed, Nodes
  <2> QED
    BY <1>1, <2>1, TreeShape DEF Started, Root
<1>3. \A n \in Nodes : \A k \in Slots(n) : Operand(n, k) = None
  <2>1. ASSUME NEW n \in Nodes, NEW k \in Slots(n)
        PROVE  ast[n].kids[k] \in Nodes /\ ast[n].kids[k] # Len(ast)
    <3>1. ast[n].kids[k] \in Nodes /\ ast[ast[n].kids[k]].up = n
      BY <1>1, TreeShape
    <3>2. ast[Len(ast)].up = 0 /\ n # 0
      BY <1>1, <1>2 DEF WellFormed, Nodes
    <3> QED
      BY <3>1, <3>2
  <2> QED
    BY <1>2, <2>1 DEF Operand
<1>4. None # Open /\ ~IsError(None)
  BY DEF None, Open, Atom, IsError
<1>5. TypeOK
  BY <1>1, <1>2 DEF TypeOK, Nodes
<1>6. CallStack
  <2>1. ast[Len(ast)].up = 0
    BY <1>1 DEF WellFormed
  <2> QED
    BY <1>2, <1>3, <1>4, <2>1 DEF CallStack, Nodes, Slots
<1>7. ErrorsPropagate
  BY <1>3, <1>4 DEF ErrorsPropagate, Nodes, Slots
<1>8. OnlyChosenOperands
  <2>1. ASSUME NEW n \in Nodes, ast[n].op = "Ternary"
        PROVE  Operand(n, 2) = None /\ Operand(n, 3) = None
    BY <1>1, <1>3, <2>1, LazySlots
  <2>2. ASSUME NEW n \in Nodes, IsLogical(ast[n])
        PROVE  Operand(n, 2) = None
    BY <1>1, <1>3, <2>2, LazySlots
  <2> QED
    BY <2>1, <2>2 DEF OnlyChosenOperands, Nodes
<1> QED
  BY <1>5, <1>6, <1>7, <1>8 DEF IInv

\* ... and that is how an evaluation begins.
LEMMA InitIInv == Init => IInv
BY TreesAssumption, ScopesAssumption, StartIInv DEF Init

\* Every step of the evaluator keeps it, and so does a step that leaves the
\* evaluator alone.
LEMMA NextIInv == IInv /\ [Next]_evalVars => IInv'
<1> SUFFICES ASSUME IInv, [Next]_evalVars PROVE IInv'
  OBVIOUS
<1>1. CASE EvalOperand
  BY <1>1, EvalOperandStep
<1>2. CASE EvalReturn
  BY <1>2, EvalReturnStep
<1>3. CASE UNCHANGED evalVars
  <2>1. ast' = ast /\ scope' = scope /\ cur' = cur /\ val' = val
    BY <1>3 DEF evalVars
  <2>2. WellFormed(ast') <=> WellFormed(ast)
    BY <2>1
  <2>3. TypeOK'
    BY <2>1, <2>2 DEF IInv, TypeOK, WellFormed, Bound
  <2>6. CallStack'
    BY <2>1 DEF IInv, CallStack, Root, Operand, IsValue
  <2>4. ErrorsPropagate'
    BY <2>1 DEF IInv, ErrorsPropagate, Operand, IsError, IsValue
  <2>5. OnlyChosenOperands'
    BY <2>1 DEF IInv, OnlyChosenOperands, Operand, IsTruthy, IsLogical
  <2> QED
    BY <2>3, <2>4, <2>5, <2>6 DEF IInv
<1> QED
  BY <1>1, <1>2, <1>3 DEF Next, Eval, Terminated

\* The invariant holds in every state of every evaluation.
THEOREM InvariantAlways == Spec => []IInv
BY InitIInv, NextIInv, PTL DEF Spec

\* Eval only ever stores values, and only in the nodes of the tree.
THEOREM TypeCorrect == Spec => []TypeOK
BY InvariantAlways, PTL DEF IInv

\* The calls of Eval that have not returned are a path from the root to cur.
THEOREM CallsFormAPath == Spec => []CallStack
BY InvariantAlways, PTL DEF IInv

\* No operation computes with an operand that is an error, for any expression.
THEOREM ErrorsAlwaysPropagate == Spec => []ErrorsPropagate
BY InvariantAlways, PTL DEF IInv

\* Ternaries and logical operators never evaluate the operand they do not need.
THEOREM EvaluationIsLazy == Spec => []OnlyChosenOperands
BY InvariantAlways, PTL DEF IInv

-----------------------------------------------------------------------------
(* Meanings satisfies the equation that defines it.                        *)

\* What a node means depends on the nodes before it alone.
LEMMA MeaningIsLocal ==
    ASSUME NEW t, WellFormed(t), NEW n \in 1..Len(t), NEW m, NEW other,
           \A i \in 1..(n - 1) : m[i] = other[i]
    PROVE  OfOperands(t, n, m) = OfOperands(t, n, other)
<1>1. \A k \in DOMAIN t[n].kids : m[t[n].kids[k]] = other[t[n].kids[k]]
  BY OperandsBefore
<1> QED
  BY <1>1, Zenon DEF OfOperands

\* A function for the first b nodes.
Solves(t, s, b, m) ==
    m = [n \in 1..b |-> NodeMeaning(t[n], OfOperands(t, n, m), s)]

LEMMA SolutionsExist ==
    ASSUME NEW t, WellFormed(t), NEW s
    PROVE  \E m : Solves(t, s, Len(t), m)
<1> DEFINE T == {b \in 0..Len(t) : ~\E m : Solves(t, s, b, m)}
<1>1. Len(t) \in Nat
  BY DEF WellFormed
<1>2. SUFFICES ASSUME T # {} PROVE FALSE
  BY <1>1
<1>3. T \subseteq Nat
  BY <1>1
<1>4. PICK b \in T : \A j \in T : ~(<<j, b>> \in OpToRel(<, Nat))
  <2> HIDE DEF T
  <2> QED
    BY <1>2, <1>3, NatLessThanWellFounded, WFMin
<1>5. b \in 0..Len(t) /\ ~\E m : Solves(t, s, b, m)
  BY <1>4
<1>6. b # 0
  <2> DEFINE empty == [n \in {} |-> n]
  <2>1. 1..0 = {}
    OBVIOUS
  <2>2. empty = [n \in {} |-> NodeMeaning(t[n], OfOperands(t, n, empty), s)]
    BY Zenon
  <2>3. Solves(t, s, 0, empty)
    BY <2>1, <2>2, Zenon DEF Solves
  <2> QED
    BY <1>5, <2>3
<1>7. b - 1 \in 0..Len(t) /\ b - 1 \notin T
  <2>1. b - 1 \in Nat /\ b \in Nat /\ b - 1 < b /\ b - 1 \in 0..Len(t)
    BY <1>1, <1>5, <1>6
  <2>2. <<b - 1, b>> \in OpToRel(<, Nat)
    BY <2>1 DEF OpToRel
  <2> HIDE DEF T
  <2> QED
    BY <1>4, <2>1, <2>2
<1>8. PICK m : Solves(t, s, b - 1, m)
  BY <1>7
<1> DEFINE more == [n \in 1..b |-> NodeMeaning(t[n], OfOperands(t, n, m), s)]
<1>9. \A n \in 1..(b - 1) : n \in 1..b /\ more[n] = m[n]
  <2>1. \A n \in 1..(b - 1) : n \in 1..b
    BY <1>1, <1>5
  <2>2. \A n \in 1..(b - 1) :
            m[n] = NodeMeaning(t[n], OfOperands(t, n, m), s)
    BY <1>8, Zenon DEF Solves
  <2> QED
    BY <2>1, <2>2, Zenon
<1> HIDE DEF more
<1>10. \A n \in 1..b : OfOperands(t, n, more) = OfOperands(t, n, m)
  <2> TAKE n \in 1..b
  <2>1. n \in 1..Len(t) /\ \A i \in 1..(n - 1) : i \in 1..(b - 1)
    BY <1>1, <1>5
  <2>2. \A i \in 1..(n - 1) : more[i] = m[i]
    BY <1>9, <2>1
  <2> QED
    BY <2>1, <2>2, MeaningIsLocal
<1>11. Solves(t, s, b, more)
  <2>1. more = [n \in 1..b |-> NodeMeaning(t[n], OfOperands(t, n, more), s)]
    BY <1>10, Zenon DEF more
  <2> QED
    BY <2>1, Zenon DEF Solves
<1> QED
  BY <1>5, <1>11

\* The equation of Meanings.
LEMMA MeaningsDef ==
    ASSUME NEW t, WellFormed(t), NEW s, NEW n \in 1..Len(t)
    PROVE  Meaning(t, n, s)
               = NodeMeaning(t[n], OfOperands(t, n, Meanings(t, s)), s)
<1>1. DOMAIN t = 1..Len(t)
  BY OperandsBefore
<1>2. Meanings(t, s) = CHOOSE m : Solves(t, s, Len(t), m)
  BY <1>1, Zenon DEF Meanings, Solves
<1>3. Solves(t, s, Len(t), Meanings(t, s))
  BY <1>2, SolutionsExist, Zenon
<1> HIDE DEF Meanings
<1> QED
  BY <1>3, Zenon DEF Solves, Meaning

-----------------------------------------------------------------------------
(* The invariant                                                           *)

\* A node that evaluates all its operands takes them from left to right.
InOrder ==
    \A n \in Nodes : ~IsLogical(ast[n]) /\ ast[n].op # "Ternary" =>
        \A k \in Slots(n) : Operand(n, k) # None =>
            \A j \in 1..(k - 1) : IsValue(Operand(n, j))

\* A node that has a value has one that it means.
Meant == \A n \in Nodes : IsValue(val[n]) => val[n] \in Meaning(ast, n, scope)

MInv == IInv /\ InOrder /\ Meant

\* What the operands of the current node mean.
Current == OfOperands(ast, cur, Meanings(ast, scope))

LEMMA CurrentMeaning ==
    ASSUME MInv, cur # 0
    PROVE  /\ cur \in Nodes
           /\ DOMAIN Current = Slots(cur)
           /\ Meaning(ast, cur, scope) = NodeMeaning(ast[cur], Current, scope)
           /\ Slots(cur) = 1..Len(ast[cur].kids) /\ Len(ast[cur].kids) \in Nat
           /\ \A k \in Slots(cur) : IsValue(Operand(cur, k)) =>
                                        Operand(cur, k) \in Current[k]
<1>1. cur \in Nodes /\ WellFormed(ast) /\ cur \in 1..Len(ast)
  BY DEF MInv, IInv, TypeOK, Nodes
<1>2. \A k \in Slots(cur) : ast[cur].kids[k] \in Nodes
  BY <1>1, TreeShape
<1>3. \A k \in Slots(cur) : Current[k] = Meaning(ast, ast[cur].kids[k], scope)
  BY Zenon DEF Current, OfOperands, Slots, Meaning
<1>4. DOMAIN Current = Slots(cur)
  BY Zenon DEF Current, OfOperands, Slots
<1>5. Meaning(ast, cur, scope) = NodeMeaning(ast[cur], Current, scope)
  BY <1>1, MeaningsDef DEF Current
<1>6. Slots(cur) = 1..Len(ast[cur].kids) /\ Len(ast[cur].kids) \in Nat
  BY <1>1, OperandsBefore DEF Slots
<1> QED
  BY <1>1, <1>2, <1>3, <1>4, <1>5, <1>6 DEF MInv, Meant, Operand

\* A node that has the values of all its operands means what it makes of them.
LEMMA ResultsAreMeant ==
    ASSUME MInv, NEW op, Ready(op), ~IsLogical(ast[cur]),
           ast[cur].op # "Ternary",
           NEW r \in Results(ast[cur], Operands(cur), scope)
    PROVE  r \in Meaning(ast, cur, scope)
<1>1. cur # 0 /\ ~Failed(cur) /\ \A k \in Slots(cur) : ~Wants(cur, k)
  BY DEF Ready, Slots
<1>2. \A k \in Slots(cur) : IsValue(Operand(cur, k))
                            /\ Operand(cur, k).kind # "ERROR"
  BY <1>1, AllOperands DEF MInv, IInv
<1>3. /\ DOMAIN Operands(cur) = Slots(cur)
      /\ \A k \in Slots(cur) : Operands(cur)[k] = Operand(cur, k)
      /\ Operands(cur) = [k \in Slots(cur) |-> Operands(cur)[k]]
  BY DEF Operands, Slots
<1>4. \A k \in DOMAIN Current : /\ Operands(cur)[k] \in Current[k]
                               /\ ~IsError(Operands(cur)[k])
  BY <1>1, <1>2, <1>3, CurrentMeaning DEF IsError
<1>5. DOMAIN Current = Slots(cur)
  BY <1>1, CurrentMeaning
<1>6. \A k \in DOMAIN Current :
          Operands(cur)[k] \in UNION {Current[j] : j \in DOMAIN Current}
  BY <1>4, Zenon
<1>7. Operands(cur) \in [DOMAIN Current ->
                             UNION {Current[j] : j \in DOMAIN Current}]
  BY <1>3, <1>5, <1>6, Zenon
<1>8. Operands(cur) \in OperandValues(Current)
  BY <1>4, <1>7, Zenon DEF OperandValues
<1>9. r \in NodeMeaning(ast[cur], Current, scope)
  BY <1>8, Zenon DEF NodeMeaning
<1> QED
  BY <1>1, <1>9, CurrentMeaning

\* An error that a node hands on is one that it means.
LEMMA ErrorsAreMeant ==
    ASSUME MInv, cur # 0, NEW k \in Slots(cur), IsError(Operand(cur, k))
    PROVE  Operand(cur, k) \in Meaning(ast, cur, scope)
<1> DEFINE e == Operand(cur, k)
<1>1. cur \in Nodes /\ WellFormed(ast)
  BY DEF MInv, IInv, TypeOK, Nodes
<1>2. IsValue(e) /\ e \in Current[k] /\ k \in DOMAIN Current
  BY CurrentMeaning DEF IsValue, IsError, Kinds
<1>3. \A j \in Slots(cur) \ {k} : ~IsError(Operand(cur, j))
  BY <1>1 DEF MInv, IInv, ErrorsPropagate, Nodes, Slots
<1>4. e # None
  <2>1. ~IsError(None)
    BY DEF IsError, None, Atom
  <2> QED
    BY <2>1
<1>5. e \in NodeMeaning(ast[cur], Current, scope)
  <2>1. CASE ast[cur].op = "Ternary"
    <3>1. Slots(cur) = 1..3
      BY <1>1, <2>1, LazySlots
    <3>2. CASE k = 1
      BY <1>2, <2>1, <3>2 DEF NodeMeaning
    <3>3. CASE k # 1
      <4>1. /\ IsValue(Operand(cur, 1)) /\ ~IsError(Operand(cur, 1))
            /\ k = IF IsTruthy(Operand(cur, 1)) THEN 2 ELSE 3
        <5>1. e # None /\ k \in {2, 3} /\ 1 \in Slots(cur) \ {k}
          BY <1>4, <3>1, <3>3
        <5> QED
          BY <1>1, <1>3, <2>1, <5>1
             DEF MInv, IInv, OnlyChosenOperands, Nodes
      <4>2. Operand(cur, 1) \in Current[1]
        BY <3>1, <4>1, CurrentMeaning
      <4> QED
        BY <1>2, <2>1, <4>1, <4>2 DEF NodeMeaning
    <3> QED
      BY <3>2, <3>3
  <2>2. CASE IsLogical(ast[cur])
    <3>1. Slots(cur) = 1..2 /\ ast[cur].op # "Ternary"
      BY <1>1, <2>2, LazySlots
    <3>2. CASE k = 1
      BY <1>2, <2>2, <3>1, <3>2 DEF NodeMeaning, Undecided
    <3>3. CASE k # 1
      <4>1. /\ IsValue(Operand(cur, 1)) /\ ~IsError(Operand(cur, 1))
            /\ IsTruthy(Operand(cur, 1)) = (ast[cur].tok = "&&") /\ k = 2
        <5>1. e # None /\ k = 2 /\ 1 \in Slots(cur) \ {k}
          BY <1>4, <3>1, <3>3
        <5> QED
          BY <1>1, <1>3, <2>2, <5>1
             DEF MInv, IInv, OnlyChosenOperands, Nodes
      <4>2. Operand(cur, 1) \in Current[1]
        BY <3>1, <4>1, CurrentMeaning
      <4> QED
        BY <1>2, <2>2, <3>1, <4>1, <4>2 DEF NodeMeaning, Undecided
    <3> QED
      BY <3>2, <3>3
  <2>3. CASE ~IsLogical(ast[cur]) /\ ast[cur].op # "Ternary"
    <3>1. ASSUME NEW j \in 1..(k - 1)
          PROVE  \E v \in Current[j] : ~IsError(v)
      <4>1. j \in Slots(cur) \ {k}
        BY CurrentMeaning
      <4>3. IsValue(Operand(cur, j)) /\ ~IsError(Operand(cur, j))
        BY <1>1, <1>3, <2>3, <4>1, <1>4 DEF MInv, InOrder
      <4> QED
        BY <4>1, <4>3, CurrentMeaning
    <3>2. e \in OperandErrors(Current)
      BY <1>2, <3>1, Zenon DEF OperandErrors
    <3> QED
      BY <2>3, <3>2, Zenon DEF NodeMeaning
  <2> QED
    BY <2>1, <2>2, <2>3
<1> QED
  BY <1>5, CurrentMeaning

\* A return stores a value that the node means.
LEMMA ReturnIsMeant ==
    ASSUME MInv, EvalReturn
    PROVE  val'[cur] \in Meaning(ast, cur, scope)
<1>1. cur # 0 /\ cur \in Nodes /\ cur \in DOMAIN val /\ WellFormed(ast)
  BY ReturnsValue DEF MInv, IInv, TypeOK, Nodes
<1>2. \A r : Return(r) => val'[cur] = r
  BY <1>1 DEF Return
<1>3. ASSUME NEW op, Ready(op), ~IsLogical(ast[cur]), op # "Ternary",
             NEW r \in Results(ast[cur], Operands(cur), scope), Return(r)
      PROVE  val'[cur] \in Meaning(ast, cur, scope)
  BY <1>2, <1>3, ResultsAreMeant DEF Ready
<1>4. CASE PropagateError
  BY <1>1, <1>2, <1>4, ErrorsAreMeant DEF PropagateError, IsError, Slots
<1>5. CASE EvalLiteral
  <2>1. PICK op \in DOMAIN LiteralKind :
            Ready(op) /\ Return(Atom(LiteralKind[op], ast[cur].tok))
    BY <1>5 DEF EvalLiteral
  <2>2. ast[cur].op = op /\ op # "Infix" /\ op # "Ternary"
    BY <2>1 DEF Ready, LiteralKind
  <2>3. Atom(LiteralKind[op], ast[cur].tok)
            \in Results(ast[cur], Operands(cur), scope)
    BY <2>2 DEF Results, LiteralKind
  <2> QED
    BY <1>3, <2>1, <2>2, <2>3 DEF IsLogical
<1>6. CASE EvalDollar \/ EvalTemplate \/ EvalShell
  <2>1. PICK op \in {"Dollar", "Template", "Shell"} :
            /\ Ready(op)
            /\ \E r \in Results(ast[cur], Operands(cur), scope) : Return(r)
    BY <1>6 DEF EvalDollar, EvalTemplate, EvalShell, Results, LiteralKind, Ready
  <2> QED
    BY <1>3, <2>1 DEF IsLogical, Ready
<1>7. CASE EvalIdentifier \/ EvalPrefix
  <2>1. 1 \in Slots(cur) => Operands(cur)[1] = Operand(cur, 1)
    BY DEF Operands, Slots
  <2>2. ast[cur].op = "Prefix" => 1 \in Slots(cur)
    <3>1. Len(ast[cur].kids) = Arity(ast[cur])
      BY <1>1 DEF WellFormed, Nodes
    <3>2. ast[cur].op = "Prefix" => Arity(ast[cur]) = 1
      BY DEF Arity, LeafOps
    <3>3. Slots(cur) = 1..Len(ast[cur].kids)
      BY <1>1, CurrentMeaning
    <3> QED
      BY <3>1, <3>2, <3>3
  <2>3. PICK op \in {"Identifier", "Prefix"} :
            /\ Ready(op)
            /\ \E r \in Results(ast[cur], Operands(cur), scope) : Return(r)
    BY <1>7, <2>1, <2>2
       DEF EvalIdentifier, EvalPrefix, Results, LiteralKind, Ready
  <2> QED
    BY <1>3, <2>3 DEF IsLogical, Ready
<1>8. CASE EvalInfix
  <2>1. ast[cur].op = "Infix" /\ ~IsLogical(ast[cur])
    BY <1>8 DEF EvalInfix, Ready
  <2>2. Slots(cur) = 1..2
    <3>1. Len(ast[cur].kids) = Arity(ast[cur])
      BY <1>1 DEF WellFormed, Nodes
    <3> QED
      BY <1>1, <2>1, <3>1, CurrentMeaning DEF Arity, LeafOps
  <2>3. /\ Operands(cur)[1] = Operand(cur, 1)
        /\ Operands(cur)[2] = Operand(cur, 2)
    BY <2>2 DEF Operands, Slots
  <2>4. EvalInfixExpression(ast[cur].tok, Operand(cur, 1), Operand(cur, 2))
            = Results(ast[cur], Operands(cur), scope)
    BY <2>1, <2>3 DEF Results, LiteralKind
  <2> QED
    BY <1>3, <1>8, <2>1, <2>4 DEF EvalInfix
<1>9. CASE EvalCall \/ EvalArray
  <2>1. PICK op \in {"Call", "Array"} :
            /\ Ready(op)
            /\ \E r \in Results(ast[cur], Operands(cur), scope) : Return(r)
    BY <1>9 DEF EvalCall, EvalArray, Results, LiteralKind, Ready
  <2> QED
    BY <1>3, <2>1 DEF IsLogical, Ready
<1>10. CASE EvalLogical \/ EvalConditional
  <2>1. /\ \A k \in Slots(cur) : ~Wants(cur, k)
        /\ ~Failed(cur) /\ \A k \in Slots(cur) : ~IsError(Operand(cur, k))
    BY <1>10 DEF EvalLogical, EvalConditional, Ready, Failed, IsError, Slots
  <2>2. \A k \in Slots(cur) : Operand(cur, k) = None \/ IsValue(Operand(cur, k))
    BY <1>1, OperandValue DEF MInv, IInv
  <2>3. ~IsValue(None)
    BY DEF IsValue, None, Atom, Kinds
  <2>4. CASE EvalLogical
    <3>1. IsLogical(ast[cur]) /\ Slots(cur) = 1..2 /\ ast[cur].op # "Ternary"
      BY <1>1, <2>4, LazySlots DEF EvalLogical
    <3>2. IsValue(Operand(cur, 1))
      BY <2>1, <2>2, <3>1 DEF Wants, Chosen
    <3>3. Operand(cur, 1) \in Current[1] /\ ~IsError(Operand(cur, 1))
      BY <1>1, <2>1, <3>1, <3>2, CurrentMeaning
    <3>4. CASE IsValue(Operand(cur, 2))
      <4>1. val'[cur] = Operand(cur, 2) /\ Operand(cur, 2) \in Current[2]
        BY <1>1, <1>2, <2>4, <3>1, <3>4, CurrentMeaning DEF EvalLogical
      <4>2. Undecided(ast[cur].tok, Operand(cur, 1))
        BY <1>1, <2>3, <3>1, <3>3, <3>4
           DEF MInv, IInv, OnlyChosenOperands, Nodes, Undecided
      <4>3. val'[cur] \in NodeMeaning(ast[cur], Current, scope)
        BY <3>1, <3>3, <4>1, <4>2, Zenon DEF NodeMeaning
      <4> QED
        BY <1>1, <4>3, CurrentMeaning
    <3>5. CASE ~IsValue(Operand(cur, 2))
      <4>1. val'[cur] = Operand(cur, 1)
        BY <1>2, <2>4, <3>5 DEF EvalLogical
      <4>2. ~Chosen(cur, 2)
        BY <2>1, <2>2, <3>1, <3>5 DEF Wants
      <4>3. ~Undecided(ast[cur].tok, Operand(cur, 1))
        BY <3>1, <3>2, <4>2 DEF Chosen, Undecided
      <4>4. val'[cur] \in NodeMeaning(ast[cur], Current, scope)
        BY <3>1, <3>3, <4>1, <4>3, Zenon DEF NodeMeaning
      <4> QED
        BY <1>1, <4>4, CurrentMeaning
    <3> QED
      BY <3>4, <3>5
  <2>5. CASE EvalConditional
    <3>1. ast[cur].op = "Ternary" /\ Slots(cur) = 1..3 /\ ~IsLogical(ast[cur])
      BY <1>1, <2>5, LazySlots DEF EvalConditional, Ready
    <3>2. IsValue(Operand(cur, 1))
      BY <2>1, <2>2, <3>1 DEF Wants, Chosen
    <3>3. Operand(cur, 1) \in Current[1] /\ ~IsError(Operand(cur, 1))
      BY <1>1, <2>1, <3>1, <3>2, CurrentMeaning
    <3> DEFINE k == IF IsTruthy(Operand(cur, 1)) THEN 2 ELSE 3
    <3>4. Chosen(cur, k) /\ k \in Slots(cur)
      BY <3>1, <3>2 DEF Chosen
    <3>5. IsValue(Operand(cur, k)) /\ Operand(cur, k) \in Current[k]
      BY <1>1, <2>1, <2>2, <3>4, CurrentMeaning DEF Wants
    <3>6. k = 3 => Operand(cur, 2) = None
      BY <1>1, <2>3, <3>1, <3>5 DEF MInv, IInv, OnlyChosenOperands, Nodes
    <3>7. val'[cur] = Operand(cur, k)
      BY <1>2, <2>3, <2>5, <3>5, <3>6 DEF EvalConditional
    <3>8. val'[cur] \in NodeMeaning(ast[cur], Current, scope)
      BY <3>1, <3>3, <3>5, <3>7 DEF NodeMeaning
    <3> QED
      BY <1>1, <3>8, CurrentMeaning
  <2> QED
    BY <1>10, <2>4, <2>5
<1> QED
  BY <1>4, <1>5, <1>6, <1>7, <1>8, <1>9, <1>10 DEF EvalReturn

-----------------------------------------------------------------------------
(* The steps preserve the invariant.                                       *)

LEMMA InitMInv == IInv /\ cur = Root /\ val = Started(ast) => InOrder /\ Meant
<1> SUFFICES ASSUME IInv, cur = Root, val = Started(ast)
             PROVE  InOrder /\ Meant
  OBVIOUS
<1>1. WellFormed(ast) /\ DOMAIN ast = Nodes
  BY OperandsBefore, TreeShape DEF IInv, TypeOK, Nodes, Root
<1>2. \A n \in Nodes : val[n] \in {None, Open}
  BY <1>1 DEF Started
<1>3. ~IsValue(None) /\ ~IsValue(Open)
  BY DEF IsValue, None, Open, Atom, Kinds
<1>4. Meant
  BY <1>2, <1>3 DEF Meant
<1>5. \A n \in Nodes : \A k \in Slots(n) : Operand(n, k) = None
  <2> TAKE n \in Nodes
  <2> TAKE k \in Slots(n)
  <2>1. ast[n].kids[k] \in Nodes /\ ast[n].kids[k] # Root
    <3>1. ast[n].kids[k] \in Nodes /\ ast[ast[n].kids[k]].up = n /\ n # 0
      BY <1>1, TreeShape DEF Nodes
    <3> QED
      BY <1>1, <3>1, TreeShape
  <2> QED
    BY <1>1, <2>1 DEF Operand, Started, Root
<1> QED
  BY <1>4, <1>5 DEF InOrder

LEMMA NextMInv == MInv /\ [Next]_evalVars => MInv'
<1> SUFFICES ASSUME MInv, [Next]_evalVars PROVE MInv'
  OBVIOUS
<1>1. IInv'
  BY NextIInv DEF MInv
<1>2. CASE EvalOperand
  <2>1. PICK k \in Slots(cur) : /\ Wants(cur, k)
                                /\ cur' = ast[cur].kids[k]
                                /\ val' = [val EXCEPT ![cur'] = Open]
    BY <1>2 DEF EvalOperand, Slots
  <2>2. ast' = ast /\ scope' = scope /\ cur \in Nodes
    BY <1>2 DEF EvalOperand, MInv, IInv, TypeOK, Nodes
  <2> DEFINE c == ast[cur].kids[k]
  <2>3. \A n \in Nodes : val'[n] = IF n = c THEN Open ELSE val[n]
    BY <2>1 DEF MInv, IInv, TypeOK, Nodes
  <2>4. val[c] = None
    BY <2>1 DEF Wants, Operand
  <2>5. ~IsValue(None) /\ ~IsValue(Open)
    BY DEF IsValue, None, Open, Atom, Kinds
  <2>6. Meant'
    BY <2>2, <2>3, <2>5 DEF MInv, Meant, Nodes, Meaning
  <2>7. ASSUME NEW n \in Nodes, ~IsLogical(ast[n]), ast[n].op # "Ternary",
               NEW j \in Slots(n), Operand(n, j)' # None, NEW i \in 1..(j - 1)
        PROVE  IsValue(Operand(n, i)')
    <3>1. Slots(n) = 1..Len(ast[n].kids) /\ Len(ast[n].kids) \in Nat
      BY OperandsBefore DEF MInv, IInv, TypeOK, Nodes, Slots
    <3>2. i \in Slots(n) /\ ast[n].kids[i] \in Nodes /\ ast[n].kids[j] \in Nodes
      BY <3>1, TreeShape DEF MInv, IInv, TypeOK
    <3>3. IsValue(Operand(n, i)) => Operand(n, i)' = Operand(n, i)
      BY <2>2, <2>3, <2>4, <2>5, <3>2 DEF Operand
    <3>4. CASE ast[n].kids[j] # c
      <4>1. Operand(n, j) # None
        BY <2>2, <2>3, <2>7, <3>2, <3>4 DEF Operand
      <4>2. IsValue(Operand(n, i))
        BY <2>7, <4>1 DEF MInv, InOrder
      <4> QED
        BY <3>3, <4>2
    <3>5. CASE ast[n].kids[j] = c
      <4>1. n = cur /\ j = k
        BY <2>2, <3>5, TreeShape DEF MInv, IInv, TypeOK
      <4>2. Chosen(cur, k)
        BY <2>1 DEF Wants
      <4>3. IsValue(Operand(n, i))
        BY <2>7, <4>1, <4>2 DEF Chosen
      <4> QED
        BY <3>3, <4>3
    <3> QED
      BY <3>4, <3>5
  <2>8. InOrder'
    BY <2>2, <2>7 DEF InOrder, Nodes, Slots, IsLogical
  <2> QED
    BY <1>1, <2>6, <2>8 DEF MInv
<1>3. CASE EvalReturn
  <2>1. PICK r : IsValue(r) /\ cur # 0 /\ Return(r)
    BY <1>3, ReturnsValue DEF MInv, IInv
  <2>2. ast' = ast /\ scope' = scope /\ cur \in Nodes /\ val[cur] = Open
    BY <2>1 DEF Return, MInv, IInv, TypeOK, CallStack, Nodes
  <2>3. \A n \in Nodes : val'[n] = IF n = cur THEN r ELSE val[n]
    BY <2>1 DEF Return, MInv, IInv, TypeOK, Nodes
  <2>4. val'[cur] \in Meaning(ast, cur, scope)
    BY <1>3, ReturnIsMeant
  <2>5. Meant'
    <3>1. \A n \in Nodes : IsValue(val'[n]) => val'[n] \in Meaning(ast, n, scope)
      BY <2>3, <2>4 DEF MInv, Meant
    <3> QED
      BY <2>2, <3>1 DEF Meant, Nodes, Meaning, IsValue
  <2>6. None # Open
    BY DEF None, Open, Atom
  <2>7. ASSUME NEW n \in Nodes, ~IsLogical(ast[n]), ast[n].op # "Ternary",
               NEW j \in Slots(n), Operand(n, j)' # None, NEW i \in 1..(j - 1)
        PROVE  IsValue(Operand(n, i)')
    <3>1. Slots(n) = 1..Len(ast[n].kids) /\ Len(ast[n].kids) \in Nat
      BY OperandsBefore DEF MInv, IInv, TypeOK, Nodes, Slots
    <3>2. i \in Slots(n) /\ ast[n].kids[i] \in Nodes /\ ast[n].kids[j] \in Nodes
      BY <3>1, TreeShape DEF MInv, IInv, TypeOK
    <3>3. Operand(n, j) # None
      BY <2>2, <2>3, <2>6, <2>7, <3>2 DEF Operand
    <3>4. IsValue(Operand(n, i))
      BY <2>7, <3>3 DEF MInv, InOrder
    <3> QED
      BY <2>1, <2>2, <2>3, <3>2, <3>4 DEF Operand
  <2>8. InOrder'
    BY <2>2, <2>7 DEF InOrder, Nodes, Slots, IsLogical
  <2> QED
    BY <1>1, <2>5, <2>8 DEF MInv
<1>4. CASE UNCHANGED evalVars
  BY <1>1, <1>4 DEF evalVars, MInv, InOrder, Meant, Nodes, Slots, Operand,
                    IsValue, IsLogical, Meaning, Meanings
<1> QED
  BY <1>2, <1>3, <1>4 DEF Next, Eval, Terminated

-----------------------------------------------------------------------------
(* The theorems.                                                           *)

LEMMA MeantAgrees == MInv => AgreesWithMeaning
<1> SUFFICES ASSUME MInv, cur = 0 PROVE val[Root] \in Meaning(ast, Root, scope)
  BY DEF AgreesWithMeaning
<1>1. IsValue(val[Root]) /\ Root \in Nodes
  BY TreeShape DEF MInv, IInv, TypeOK, CallStack
<1> QED
  BY <1>1 DEF MInv, Meant

\* Every node that has a value has one that it means, in every state.
THEOREM ValuesAreMeant == Spec => []Meant
<1>1. Init => MInv
  BY InitIInv, InitMInv DEF Init, MInv
<1> QED
  BY <1>1, NextMInv, PTL DEF Spec, MInv

\* The evaluator returns a value that the expression means, for every
\* expression, scope and outcome of the regular expression engine and of the
\* caller's functions.
THEOREM EvaluationAgrees == Spec => []AgreesWithMeaning
<1>1. Init => MInv
  BY InitIInv, InitMInv DEF Init, MInv
<1> QED
  BY <1>1, NextMInv, MeantAgrees, PTL DEF Spec
=============================================================================
