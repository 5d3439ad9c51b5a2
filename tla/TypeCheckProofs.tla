--------------------------- MODULE TypeCheckProofs ---------------------------
(***************************************************************************)
(* Lemmas about the typing rules: what the checker has established for a   *)
(* node that it accepts, and that Types, which is defined by recursion     *)
(* over the nodes of a tree, satisfies its equation.                       *)
(*                                                                         *)
(* That there is a function that satisfies it is proved by well-founded    *)
(* induction on how many nodes it is defined for; everything else only     *)
(* uses the equation, TypesDef.                                            *)
(***************************************************************************)
EXTENDS TypeCheck, TLAPS, WellFoundedInduction

-----------------------------------------------------------------------------
(* One node                                                                *)

\* The operands of a node are nodes before it.
LEMMA OperandsBefore ==
    ASSUME NEW t, WellFormed(t), NEW n \in 1..Len(t)
    PROVE  /\ Len(t) \in Nat \ {0} /\ DOMAIN t = 1..Len(t)
           /\ Len(t[n].kids) \in Nat
           /\ DOMAIN t[n].kids = 1..Len(t[n].kids)
           /\ \A k \in DOMAIN t[n].kids : t[n].kids[k] \in 1..(n - 1)
<1>1. t \in Seq(Node) /\ t # <<>>
  BY DEF WellFormed
<1>2. t[n] \in Node
  BY <1>1
<1>3. t[n].kids \in Seq(Nat)
  BY <1>2 DEF Node
<1>4. \A k \in 1..Len(t[n].kids) : t[n].kids[k] \in 1..(n - 1)
  BY DEF WellFormed
<1> QED
  BY <1>1, <1>3, <1>4

\* What the checker has established for a node that it accepted.
LEMMA CheckedNode ==
    ASSUME NEW t, WellFormed(t), NEW n \in 1..Len(t), NEW tys, NEW names,
           NEW functions, CheckNode(t, n, tys, names, functions) # Unknown
    PROVE  LET node == t[n]
               type == CheckNode(t, n, tys, names, functions)
               Arg(k) == tys[node.kids[k]]
               right == t[node.kids[Len(node.kids)]]
           IN  /\ node.op \in DOMAIN LiteralType =>
                      type = Type(LiteralType[node.op])
               /\ node.op = "Identifier" =>
                      node.tok \in names /\ type = VariableType(node.tok)
               /\ node.op = "Prefix" => node.tok = "!" /\ type = Type("boolean")
               /\ node.op = "Infix" =>
                      /\ InfixAccepts(node.tok, Arg(1), Arg(2), right)
                      /\ type = Type("boolean")
               /\ node.op = "Ternary" =>
                      type = CompatibleType(Arg(2), Arg(3), right)
               /\ node.op = "Call" =>
                      /\ node.tok \in Callable(functions)
                      /\ type = Type(Signature(functions, node.tok).ret)
               /\ node.op = "Array" =>
                      /\ \A k \in DOMAIN node.kids : Is(Arg(k), {"string"})
                      /\ type = Type("array")
<1>1. t[n] \in Node /\ Len(t[n].kids) = Arity(t[n])
  BY DEF WellFormed
<1>2. /\ t[n].op \in Ops
      /\ DOMAIN t[n].kids = 1..Arity(t[n])
  BY <1>1 DEF Node
<1>3. /\ t[n].op = "Infix" => {1, 2} \subseteq DOMAIN t[n].kids
      /\ t[n].op = "Ternary" => {2, 3} \subseteq DOMAIN t[n].kids
  BY <1>2 DEF Arity, LeafOps
<1> QED
  BY <1>2, <1>3 DEF CheckNode, CheckedType, CallAccepts, LiteralType, Ops, LeafOps

\* The type of a node depends on nothing but the types of its operands, which
\* the checker has visited before it.
LEMMA CheckLocal ==
    ASSUME NEW t, WellFormed(t), NEW n \in 1..Len(t), NEW names, NEW functions,
           NEW tys, NEW others, \A k \in 1..(n - 1) : tys[k] = others[k]
    PROVE  CheckNode(t, n, tys, names, functions)
             = CheckNode(t, n, others, names, functions)
<1>1. t[n] \in Node
  BY DEF WellFormed
<1>2. DOMAIN t[n].kids = 1..Len(t[n].kids)
  BY <1>1 DEF Node
<1>3. \A k \in DOMAIN t[n].kids : tys[t[n].kids[k]] = others[t[n].kids[k]]
  BY <1>2 DEF WellFormed
<1>4. [k \in DOMAIN t[n].kids |-> tys[t[n].kids[k]]]
        = [k \in DOMAIN t[n].kids |-> others[t[n].kids[k]]]
  BY <1>3
<1> QED
  BY <1>4, Zenon DEF CheckNode

-----------------------------------------------------------------------------
(* All of them                                                             *)

\* So does what is found for a node below which one may be refused.
LEMMA NodeTypeLocal ==
    ASSUME NEW t, WellFormed(t), NEW n \in 1..Len(t), NEW names, NEW functions,
           NEW tys, NEW others, \A k \in 1..(n - 1) : tys[k] = others[k]
    PROVE  NodeType(t, n, tys, names, functions)
             = NodeType(t, n, others, names, functions)
<1>1. \A k \in DOMAIN t[n].kids : tys[t[n].kids[k]] = others[t[n].kids[k]]
  BY OperandsBefore
<1>2. CheckNode(t, n, tys, names, functions)
        = CheckNode(t, n, others, names, functions)
  BY CheckLocal
<1> QED
  BY <1>1, <1>2, Zenon DEF NodeType

\* A typing of the first b nodes.
TypesUpTo(t, names, functions, b, types) ==
    types = [n \in 1..b |-> NodeType(t, n, types, names, functions)]

LEMMA TypingsExist ==
    ASSUME NEW t, WellFormed(t), NEW names, NEW functions
    PROVE  \E types : TypesUpTo(t, names, functions, Len(t), types)
<1> DEFINE Typed(b) == \E types : TypesUpTo(t, names, functions, b, types)
           T == {b \in 0..Len(t) : ~Typed(b)}
<1>1. Len(t) \in Nat
  BY DEF WellFormed
<1>2. SUFFICES ASSUME T # {} PROVE FALSE
  BY <1>1
<1>3. T \subseteq Nat
  BY <1>1
<1>4. PICK b \in T : \A j \in T : ~(<<j, b>> \in OpToRel(<, Nat))
  <2> HIDE DEF T
  <2> QED
    BY <1>2, <1>3, NatLessThanWellFounded, WFMin
<1>5. b \in 0..Len(t) /\ ~Typed(b)
  BY <1>4
<1>6. b # 0
  <2> DEFINE empty == [n \in {} |-> n]
  <2>1. 1..0 = {}
    OBVIOUS
  <2>2. empty = [n \in {} |-> NodeType(t, n, empty, names, functions)]
    BY Zenon
  <2>3. TypesUpTo(t, names, functions, 0, empty)
    BY <2>1, <2>2, Zenon DEF TypesUpTo
  <2> QED
    BY <1>5, <2>3
<1>7. b - 1 \in 0..Len(t) /\ b - 1 \notin T
  <2>1. b - 1 \in Nat /\ b \in Nat /\ b - 1 < b /\ b - 1 \in 0..Len(t)
    BY <1>1, <1>5, <1>6
  <2>2. <<b - 1, b>> \in OpToRel(<, Nat)
    BY <2>1 DEF OpToRel
  <2> HIDE DEF T
  <2> QED
    BY <1>4, <2>1, <2>2
<1>8. PICK types : TypesUpTo(t, names, functions, b - 1, types)
  BY <1>7
<1> DEFINE more == [n \in 1..b |-> NodeType(t, n, types, names, functions)]
<1>9. \A n \in 1..(b - 1) : n \in 1..b /\ more[n] = types[n]
  <2>1. \A n \in 1..(b - 1) : n \in 1..b
    BY <1>1, <1>5
  <2>2. \A n \in 1..(b - 1) :
            types[n] = NodeType(t, n, types, names, functions)
    BY <1>8, Zenon DEF TypesUpTo
  <2> QED
    BY <2>1, <2>2, Zenon
<1> HIDE DEF more
<1>10. \A n \in 1..b : NodeType(t, n, more, names, functions)
                         = NodeType(t, n, types, names, functions)
  <2> TAKE n \in 1..b
  <2>1. n \in 1..Len(t) /\ \A i \in 1..(n - 1) : i \in 1..(b - 1)
    BY <1>1, <1>5
  <2>2. \A i \in 1..(n - 1) : more[i] = types[i]
    BY <1>9, <2>1
  <2> QED
    BY <2>1, <2>2, NodeTypeLocal
<1>11. TypesUpTo(t, names, functions, b, more)
  <2>1. more = [n \in 1..b |-> NodeType(t, n, more, names, functions)]
    BY <1>10, Zenon DEF more
  <2> QED
    BY <2>1, Zenon DEF TypesUpTo
<1> QED
  BY <1>5, <1>11

\* The equation of Types.
LEMMA TypesDef ==
    ASSUME NEW t, WellFormed(t), NEW names, NEW functions
    PROVE  /\ DOMAIN Types(t, names, functions) = 1..Len(t)
           /\ \A n \in 1..Len(t) :
                Types(t, names, functions)[n]
                  = NodeType(t, n, Types(t, names, functions), names, functions)
<1>1. DOMAIN t = 1..Len(t)
  BY DEF WellFormed
<1>2. Types(t, names, functions)
        = CHOOSE types : TypesUpTo(t, names, functions, Len(t), types)
  BY <1>1, Zenon DEF Types, TypesUpTo
<1>3. TypesUpTo(t, names, functions, Len(t), Types(t, names, functions))
  BY <1>2, TypingsExist, Zenon
<1> HIDE DEF Types
<1> QED
  BY <1>3, Zenon DEF TypesUpTo

\* A node that is refused refuses the expression.
LEMMA RefusalSpreads ==
    ASSUME NEW t, WellFormed(t), NEW names, NEW functions,
           NEW n \in 1..Len(t), Types(t, names, functions)[n] = Unknown
    PROVE  TypeOf(t, names, functions) = Unknown
<1> DEFINE types == Types(t, names, functions)
           T == {d \in 0..Len(t) : /\ Len(t) - d \in 1..Len(t)
                                   /\ types[Len(t) - d] = Unknown}
<1>1. Len(t) \in Nat \ {0}
  BY DEF WellFormed
<1> HIDE DEF types
<1>2. Len(t) - n \in T
  BY <1>1 DEF types
<1>3. PICK d \in T : \A j \in T : ~(<<j, d>> \in OpToRel(<, Nat))
  <2>1. T \subseteq Nat
    BY <1>1
  <2> HIDE DEF T
  <2> QED
    BY <1>2, <2>1, NatLessThanWellFounded, WFMin
<1> DEFINE m == Len(t) - d
<1>4. m \in 1..Len(t) /\ types[m] = Unknown /\ d \in 0..Len(t)
  BY <1>3
<1>5. CASE m = Len(t)
  BY <1>4, <1>5 DEF TypeOf, types
<1>6. CASE m # Len(t)
  <2> DEFINE p == t[m].up
  <2>1. /\ p \in (m + 1)..Len(t)
        /\ \E k \in 1..Len(t[p].kids) : t[p].kids[k] = m
    <3>1. m < Len(t)
      BY <1>1, <1>4, <1>6
    <3> QED
      BY <1>4, <3>1 DEF WellFormed
  <2>2. p \in 1..Len(t) /\ p > m
    BY <1>1, <1>4, <2>1
  <2>3. \E k \in DOMAIN t[p].kids : types[t[p].kids[k]] = Unknown
    BY <1>4, <2>1, <2>2, OperandsBefore
  <2>4. types[p] = Unknown
    BY <2>2, <2>3, TypesDef DEF NodeType, types
  <2>5. Len(t) - p \in T
    BY <1>1, <2>2, <2>4
  <2>6. <<Len(t) - p, d>> \in OpToRel(<, Nat)
    <3>1. Len(t) - p \in Nat /\ d \in Nat /\ Len(t) - p < d
      BY <1>1, <1>4, <2>2
    <3> QED
      BY <3>1 DEF OpToRel
  <2> HIDE DEF T, p
  <2> QED
    BY <1>3, <2>5, <2>6
<1> QED
  BY <1>5, <1>6
=============================================================================
