---------------------------- MODULE CheckerProofs ----------------------------
(***************************************************************************)
(* The checker as it runs accepts what the typing rules accept, and visits *)
(* no node more often than the right sides above it explain, for every set *)
(* of expressions and signatures.                                          *)
(***************************************************************************)
EXTENDS Checker, TypeCheckProofs

-----------------------------------------------------------------------------
(* What is asked of operand after operand, and then of the node, is what   *)
(* the rules ask of the node.                                              *)

\* The types that a node hands on are types of the language.
LEMMA RealTypes ==
    /\ \A kind \in DOMAIN RuntimeKind : Type(kind) \notin {Unknown, NotReturned}
    /\ \A op \in DOMAIN LiteralType :
           Type(LiteralType[op]) \notin {Unknown, NotReturned}
    /\ \A x : VariableType(x) \notin {Unknown, NotReturned}
    /\ \A f \in Callable(Functions) :
           Type(Signature(Functions, f).ret) \notin {Unknown, NotReturned}
<1>1. \A kind \in DOMAIN RuntimeKind : Type(kind) \notin {Unknown, NotReturned}
  BY DEF Type, Unknown, NotReturned, RuntimeKind
<1>2. \A op \in DOMAIN LiteralType : LiteralType[op] \in DOMAIN RuntimeKind
  BY DEF LiteralType, RuntimeKind
<1>3. \A x : VariableType(x).kind \in DOMAIN RuntimeKind
  BY DEF VariableType, Enum, Type, RuntimeKind
<1>4. Unknown.kind = "unknown" /\ NotReturned.kind = "none"
  BY DEF Unknown, NotReturned, Type
<1>5. \A x : VariableType(x) \notin {Unknown, NotReturned}
  BY <1>3, <1>4 DEF RuntimeKind
<1>6. \A f \in Callable(Functions) :
          Signature(Functions, f).ret \in DOMAIN RuntimeKind
  BY FunctionsAssumption DEF Callable, Signature, BuiltinSignature, RuntimeKind
<1> QED
  BY <1>1, <1>2, <1>5, <1>6

\* How many operands an operator has.
LEMMA Arities ==
    ASSUME NEW node
    PROVE  /\ node.op = "Prefix" => Arity(node) = 1
           /\ node.op = "Infix" => Arity(node) = 2
           /\ node.op = "Ternary" => Arity(node) = 3
BY DEF Arity, LeafOps

LEMMA SignatureArgs ==
    ASSUME NEW f
    PROVE  DOMAIN Signature(Functions, f).args
               = 1..Len(Signature(Functions, f).args)
<1>1. CASE f \in DOMAIN Functions
  <2>1. Functions[f].args \in Seq(STRING)
    BY <1>1, FunctionsAssumption
  <2> QED
    BY <1>1, <2>1 DEF Signature
<1>2. CASE f \notin DOMAIN Functions
  BY <1>2 DEF Signature, BuiltinSignature
<1> QED
  BY <1>1, <1>2

\* The node passes when all its operands do, and gets the type that the rules
\* give it.
LEMMA AcceptedType ==
    ASSUME NEW node \in Node, Len(node.kids) = Arity(node),
           NEW arg, NEW S, arg \in Seq(S), Len(arg) = Len(node.kids),
           \A k \in 1..Len(arg) : /\ arg[k] \notin {Unknown, NotReturned}
                                  /\ OperandAccepted(node, k, arg[k]),
           ~Refused(node), NEW right,
           HasBranches(node) =>
               Compatible(arg[LeftOf(node)], arg[RightOf(node)], right)
    PROVE  /\ CheckedType(node, arg, right, Variables, Functions)
                = ResultType(node, arg, right)
           /\ ResultType(node, arg, right) \notin {Unknown, NotReturned}
<1>1. node.op \in Ops /\ DOMAIN arg = 1..Len(arg)
  BY DEF Node
<1>2. CASE node.op \in DOMAIN LiteralType
  BY <1>2, RealTypes DEF CheckedType, ResultType, LiteralType
<1>3. CASE node.op = "Identifier"
  BY <1>3, RealTypes
     DEF CheckedType, ResultType, LiteralType, Refused, UnknownName
<1>4. Type("boolean") \notin {Unknown, NotReturned}
      /\ Type("array") \notin {Unknown, NotReturned}
  BY RealTypes DEF RuntimeKind
<1>5. CASE node.op = "Prefix"
  <2>1. node.tok = "!" /\ 1 \in 1..Len(arg)
    BY <1>5, Arities DEF Refused, UnknownName
  <2>2. Is(arg[1], {"boolean"})
    BY <1>5, <2>1 DEF OperandAccepted
  <2> QED
    BY <1>4, <1>5, <2>1, <2>2 DEF CheckedType, ResultType, LiteralType
<1>6. CASE node.op = "Infix"
  <2>1. node.tok \in InfixOperators /\ Len(arg) = 2
    BY <1>6, Arities DEF Refused, UnknownName
  <2>2. InfixAccepts(node.tok, arg[1], arg[2], right)
    <3>1. OperandAccepted(node, 1, arg[1]) /\ OperandAccepted(node, 2, arg[2])
      BY <2>1
    <3>2. CASE node.tok \in {"=~", "!~"}
      BY <1>6, <3>1, <3>2
         DEF OperandAccepted, InfixAccepts, IsLogical, LogicalOperators
    <3>3. CASE node.tok = "includes"
      BY <1>6, <3>1, <3>3
         DEF OperandAccepted, InfixAccepts, IsLogical, LogicalOperators
    <3>4. CASE node.tok \in LogicalOperators
      BY <1>6, <3>1, <3>4
         DEF OperandAccepted, InfixAccepts, IsLogical, LogicalOperators
    <3>5. CASE node.tok \in {"==", "!="}
      BY <1>6, <3>5 DEF InfixAccepts, HasBranches, IsComparison, LeftOf,
                        RightOf, LogicalOperators
    <3> QED
      BY <2>1, <3>2, <3>3, <3>4, <3>5 DEF InfixOperators
  <2> QED
    BY <1>4, <1>6, <2>2 DEF CheckedType, ResultType, LiteralType
<1>7. CASE node.op = "Ternary"
  <2>1. Len(arg) = 3
    BY <1>7, Arities
  <2>2. Is(arg[1], {"boolean"})
    BY <1>7, <2>1 DEF OperandAccepted, IsLogical
  <2>3. Compatible(arg[2], arg[3], right)
    BY <1>7 DEF HasBranches, LeftOf, RightOf
  <2>4. CompatibleType(arg[2], arg[3], right) \in {arg[2], arg[3]}
    BY <2>3 DEF CompatibleType
  <2>5. CompatibleType(arg[2], arg[3], right) \notin {Unknown, NotReturned}
    BY <2>1, <2>4
  <2> QED
    BY <1>7, <2>2, <2>5 DEF CheckedType, ResultType, LiteralType
<1>8. CASE node.op = "Call"
  <2>1. /\ node.tok \in Callable(Functions)
        /\ Len(arg) = Len(Signature(Functions, node.tok).args)
    BY <1>8 DEF Refused, BadCall
  <2>2. DOMAIN Signature(Functions, node.tok).args = 1..Len(arg)
    BY <2>1, SignatureArgs
  <2>3. \A k \in 1..Len(arg) :
            Fits(arg[k], Signature(Functions, node.tok).args[k])
    BY <1>8 DEF OperandAccepted, IsLogical
  <2>4. CallAccepts(Functions, node.tok, arg)
    BY <2>1, <2>2, <2>3 DEF CallAccepts
  <2> QED
    BY <1>8, <2>1, <2>4, RealTypes DEF CheckedType, ResultType, LiteralType
<1>9. CASE node.op = "Array"
  BY <1>1, <1>4, <1>9
     DEF OperandAccepted, IsLogical, CheckedType, ResultType, LiteralType
<1> QED
  BY <1>1, <1>2, <1>3, <1>5, <1>6, <1>7, <1>8, <1>9
     DEF Ops, LeafOps, LiteralType

\* The node is refused when it is itself, or one operand, or the pair of sides.
LEMMA RefusedType ==
    ASSUME NEW node \in Node, Len(node.kids) = Arity(node),
           NEW arg, DOMAIN arg = 1..Len(node.kids), NEW right,
           \/ Refused(node) /\ Len(arg) = Len(node.kids)
           \/ \E k \in 1..Len(node.kids) : ~OperandAccepted(node, k, arg[k])
           \/ HasBranches(node) /\ ~Compatible(arg[LeftOf(node)],
                                               arg[RightOf(node)], right)
    PROVE  CheckedType(node, arg, right, Variables, Functions) = Unknown
<1>1. CASE Refused(node) /\ Len(arg) = Len(node.kids)
  <2>1. CASE UnknownName(node)
    <3>1. node.tok \notin InfixOperators =>
              ~InfixAccepts(node.tok, arg[1], arg[2], right)
      BY DEF InfixAccepts, InfixOperators, LogicalOperators
    <3> QED
      BY <2>1, <3>1 DEF UnknownName, CheckedType, LiteralType
  <2>2. CASE BadCall(node)
    BY <1>1, <2>2 DEF BadCall, CheckedType, LiteralType, CallAccepts
  <2> QED
    BY <1>1, <2>1, <2>2 DEF Refused
<1>2. CASE HasBranches(node) /\ ~Compatible(arg[LeftOf(node)],
                                            arg[RightOf(node)], right)
  BY <1>2 DEF HasBranches, IsComparison, LeftOf, RightOf, CheckedType,
              LiteralType, InfixAccepts, LogicalOperators, CompatibleType
<1>3. ASSUME NEW k \in 1..Len(node.kids), ~OperandAccepted(node, k, arg[k])
      PROVE  CheckedType(node, arg, right, Variables, Functions) = Unknown
  <2>1. CASE node.op = "Prefix"
    <3>1. k = 1
      BY <2>1, Arities
    <3> QED
      BY <1>3, <2>1, <3>1 DEF OperandAccepted, CheckedType, LiteralType
  <2>2. CASE node.op = "Infix"
    <3>1. k \in {1, 2}
      BY <2>2, Arities
    <3>2. CASE node.tok \in LogicalOperators
      BY <1>3, <2>2, <3>1, <3>2 DEF OperandAccepted, CheckedType, LiteralType,
         IsLogical, InfixAccepts, LogicalOperators
    <3>3. CASE node.tok \in {"=~", "!~"}
      BY <1>3, <2>2, <3>1, <3>3 DEF OperandAccepted, CheckedType, LiteralType,
         IsLogical, InfixAccepts, LogicalOperators
    <3>4. CASE node.tok = "includes"
      BY <1>3, <2>2, <3>1, <3>4 DEF OperandAccepted, CheckedType, LiteralType,
         IsLogical, InfixAccepts, LogicalOperators
    <3> QED
      BY <1>3, <2>2, <3>2, <3>3, <3>4 DEF OperandAccepted, IsLogical
  <2>3. CASE node.op = "Ternary"
    BY <1>3, <2>3 DEF OperandAccepted, IsLogical, CheckedType, LiteralType
  <2>4. CASE node.op = "Call"
    <3>1. ~Fits(arg[k], Signature(Functions, node.tok).args[k])
      BY <1>3, <2>4 DEF OperandAccepted, IsLogical
    <3>2. ~CallAccepts(Functions, node.tok, arg)
      <4>1. Len(arg) = Len(Signature(Functions, node.tok).args) =>
                k \in DOMAIN Signature(Functions, node.tok).args
        <5>1. Len(arg) = Len(node.kids)
          OBVIOUS
        <5> QED
          BY <5>1, SignatureArgs
      <4> QED
        BY <3>1, <4>1 DEF CallAccepts
    <3> QED
      BY <2>4, <3>2 DEF CheckedType, LiteralType
  <2>5. CASE node.op = "Array"
    BY <1>3, <2>5 DEF OperandAccepted, IsLogical, CheckedType, LiteralType
  <2> QED
    BY <1>3, <2>1, <2>2, <2>3, <2>4, <2>5 DEF OperandAccepted, IsLogical
<1> QED
  BY <1>1, <1>2, <1>3

-----------------------------------------------------------------------------
(* Limits satisfies the equation that defines it; the recursion goes up    *)
(* the tree.                                                               *)

LEMMA ParentAfter ==
    ASSUME NEW t, WellFormed(t), NEW n \in 1..Len(t), t[n].up # 0
    PROVE  t[n].up \in (n + 1)..Len(t)
<1>1. n < Len(t)
  BY DEF WellFormed
<1> QED
  BY <1>1 DEF WellFormed

LEMMA LimitLocal ==
    ASSUME NEW t, WellFormed(t), NEW n \in 1..Len(t), NEW f, NEW g,
           \A i \in (n + 1)..Len(t) : f[i] = g[i]
    PROVE  Limit(t, n, f) = Limit(t, n, g)
<1>1. CASE t[n].up = 0
  BY <1>1 DEF Limit
<1>2. CASE t[n].up # 0
  <2>1. f[t[n].up] = g[t[n].up]
    BY <1>2, ParentAfter
  <2> QED
    BY <1>2, <2>1 DEF Limit
<1> QED
  BY <1>1, <1>2

\* Limits for the last b nodes.
Last(t, b) == (Len(t) + 1 - b)..Len(t)

LimitsFor(t, b, f) == f = [n \in Last(t, b) |-> Limit(t, n, f)]

LEMMA LimitsExist ==
    ASSUME NEW t, WellFormed(t)
    PROVE  \E f : LimitsFor(t, Len(t), f)
<1> DEFINE Limited(b) == \E f : LimitsFor(t, b, f)
           T == {b \in 0..Len(t) : ~Limited(b)}
<1>1. Len(t) \in Nat
  BY DEF WellFormed
<1>2. SUFFICES ASSUME T # {} PROVE FALSE
  BY <1>1
<1>3. T \subseteq Nat
  BY <1>1
<1>4. PICK b \in T : \A j \in T : ~(<<j, b>> \in OpToRel(<, Nat))
  <2> HIDE DEF T
  <2> QED
    BY <1>2, <1>3, NatLessThanWellFounded, WFMin
<1>5. b \in 0..Len(t) /\ ~Limited(b)
  BY <1>4
<1>6. b # 0
  <2> DEFINE empty == [n \in {} |-> n]
  <2>1. Last(t, 0) = {}
    BY <1>1 DEF Last
  <2>2. empty = [n \in {} |-> Limit(t, n, empty)]
    BY Zenon
  <2>3. LimitsFor(t, 0, empty)
    BY <2>1, <2>2, Zenon DEF LimitsFor
  <2> QED
    BY <1>5, <2>3
<1>7. b - 1 \in 0..Len(t) /\ b - 1 \notin T
  <2>1. b - 1 \in Nat /\ b \in Nat /\ b - 1 < b /\ b - 1 \in 0..Len(t)
    BY <1>1, <1>5, <1>6
  <2>2. <<b - 1, b>> \in OpToRel(<, Nat)
    BY <2>1 DEF OpToRel
  <2> HIDE DEF T
  <2> QED
    BY <1>4, <2>1, <2>2
<1>8. PICK f : LimitsFor(t, b - 1, f)
  BY <1>7
<1> DEFINE more == [n \in Last(t, b) |-> Limit(t, n, f)]
<1>9. \A n \in Last(t, b - 1) : n \in Last(t, b) /\ more[n] = f[n]
  <2>1. \A n \in Last(t, b - 1) : n \in Last(t, b)
    BY <1>1, <1>5 DEF Last
  <2>2. \A n \in Last(t, b - 1) : f[n] = Limit(t, n, f)
    BY <1>8, Zenon DEF LimitsFor
  <2> QED
    BY <2>1, <2>2, Zenon
<1> HIDE DEF more
<1>10. \A n \in Last(t, b) : Limit(t, n, more) = Limit(t, n, f)
  <2> TAKE n \in Last(t, b)
  <2>1. n \in 1..Len(t) /\ \A i \in (n + 1)..Len(t) : i \in Last(t, b - 1)
    BY <1>1, <1>5 DEF Last
  <2>2. \A i \in (n + 1)..Len(t) : more[i] = f[i]
    BY <1>9, <2>1
  <2> QED
    BY <2>1, <2>2, LimitLocal
<1>11. LimitsFor(t, b, more)
  <2>1. more = [n \in Last(t, b) |-> Limit(t, n, more)]
    BY <1>10, Zenon DEF more
  <2> QED
    BY <2>1, Zenon DEF LimitsFor
<1> QED
  BY <1>5, <1>11

\* The equation of Limits.
LEMMA LimitsDef ==
    ASSUME NEW t, WellFormed(t), NEW n \in 1..Len(t)
    PROVE  Limits(t)[n] = Limit(t, n, Limits(t))
<1>1. DOMAIN t = 1..Len(t) /\ Last(t, Len(t)) = 1..Len(t)
  BY DEF WellFormed, Last
<1>2. Limits(t) = CHOOSE f : LimitsFor(t, Len(t), f)
  BY <1>1, Zenon DEF Limits, LimitsFor
<1>3. LimitsFor(t, Len(t), Limits(t))
  BY <1>2, LimitsExist, Zenon
<1> HIDE DEF Limits
<1> QED
  BY <1>1, <1>3, Zenon DEF LimitsFor

-----------------------------------------------------------------------------
(* The invariant                                                           *)

Found(t) == Types(t, Variables, Functions)

Kid(t, n, k) == t[n].kids[k]

FoundTypes(t) == {Found(t)[n] : n \in 1..Len(t)}

Frames(t) == [node : 1..Len(t), todo : Seq(Nat), types : Seq(FoundTypes(t)),
              again : BOOLEAN]

CkTypeOK ==
    /\ WellFormed(tree)
    /\ stack \in Seq(Frames(tree))
    /\ visits \in [1..Len(tree) -> Nat]
    /\ verdict \in {"checking", "accepted", "refused"}

\* The call of check in frame i has called check on the operand at the head
\* of its todo.
Called(i) == i < Len(stack) \/ returned # NotReturned

\* What a call has found and what it has left to do.  The operands are checked
\* from left to right, and then the right one of a pair of sides again.
FrameOK(t, f, called) ==
    LET node == t[f.node]
        done == Len(f.types)
    IN  /\ done <= Len(node.kids)
        /\ \A k \in 1..done :
             /\ f.types[k] = Found(t)[Kid(t, f.node, k)]
             /\ f.types[k] \notin {Unknown, NotReturned}
             /\ OperandAccepted(node, k, f.types[k])
        /\ f.again  => /\ HasBranches(node) /\ done = Len(node.kids)
                       /\ f.todo \in {<<>>, <<RightOf(node)>>}
        /\ ~f.again => /\ Len(f.todo) = Len(node.kids) - done
                       /\ \A k \in 1..Len(f.todo) : f.todo[k] = done + k
        /\ called => f.todo # <<>>
        /\ called \/ done > 0 => ~Refused(node)

\* The calls are a path down from the root.
Path ==
    /\ \A i \in 1..Len(stack) : FrameOK(tree, stack[i], Called(i))
    /\ \A i \in 1..(Len(stack) - 1) :
           stack[i + 1].node = Kid(tree, stack[i].node, Head(stack[i].todo))
    /\ \A i, j \in 1..Len(stack) : i < j => stack[j].node < stack[i].node
    /\ stack # <<>> => stack[1].node = Len(tree)

\* The node that the last call to return was for.
Answered == IF stack = <<>> THEN Len(tree)
            ELSE Kid(tree, Top.node, Head(Top.todo))

VerdictInv ==
    /\ returned # NotReturned =>
           returned # Unknown /\ returned = Found(tree)[Answered]
    /\ verdict = "accepted" => stack = <<>>
    /\ stack = <<>> => returned # NotReturned
    /\ verdict = "refused" => TypeOf(tree, Variables, Functions) = Unknown

\* Operand k of n is checked again, if it is to be.
Again(t, n, k) == HasBranches(t[n]) /\ k = RightOf(t[n])

Twice(b, x) == IF b THEN 2 * x ELSE x

\* How often a call will still call check on operand k.
ToCome(t, f, called, k) ==
    IF f.again
    THEN IF f.todo # <<>> /\ ~called /\ k = RightOf(t[f.node]) THEN 1 ELSE 0
    ELSE Twice(Again(t, f.node, k), 1)
         - (IF k <= Len(f.types) \/ (called /\ k = Len(f.types) + 1)
            THEN 1 ELSE 0)

\* The visits of an operand, those to come included, are covered by the visits
\* of its parent.
Covered(t, f, called, v) ==
    \A k \in 1..Len(t[f.node].kids) :
        v[Kid(t, f.node, k)] + ToCome(t, f, called, k)
            <= Twice(Again(t, f.node, k), v[f.node])

VisitsInv ==
    /\ visits[Len(tree)] = 1
    /\ \A n \in 1..Len(tree) : \A k \in 1..Len(tree[n].kids) :
           visits[Kid(tree, n, k)] <= Twice(Again(tree, n, k), visits[n])
    /\ \A i \in 1..Len(stack) : Covered(tree, stack[i], Called(i), visits)
    /\ VisitsAreBounded

CkInv == CkTypeOK /\ Path /\ VerdictInv /\ VisitsInv

-----------------------------------------------------------------------------
(* What the steps use of the tree and of the stack.                        *)

LEMMA ReplaceTop ==
    ASSUME NEW S, NEW s \in Seq(S), s # <<>>, NEW x \in S
    PROVE  LET up == SubSeq(s, 1, Len(s) - 1)
               r  == Append(up, x)
           IN  /\ up \in Seq(S) /\ Len(up) = Len(s) - 1
               /\ \A i \in 1..(Len(s) - 1) : up[i] = s[i]
               /\ r \in Seq(S) /\ Len(r) = Len(s) /\ r # <<>>
               /\ \A i \in 1..(Len(s) - 1) : r[i] = s[i]
               /\ r[Len(s)] = x
<1> DEFINE n == Len(s) - 1
           up == SubSeq(s, 1, n)
<1>1. n \in Nat /\ Len(s) = n + 1
  OBVIOUS
<1> HIDE DEF n
<1>2. up \in Seq(S) /\ Len(up) = n
  BY <1>1
<1>3. \A i \in 1..n : up[i] = s[i]
  BY <1>1
<1> HIDE DEF up
<1>4. /\ Append(up, x) \in Seq(S) /\ Len(Append(up, x)) = Len(s)
      /\ Append(up, x) # <<>>
      /\ \A i \in 1..n : Append(up, x)[i] = up[i]
      /\ Append(up, x)[Len(s)] = x
  BY <1>1, <1>2
<1> QED
  BY <1>2, <1>3, <1>4 DEF up, n

LEMMA TreeFacts ==
    ASSUME NEW t, WellFormed(t), NEW n \in 1..Len(t)
    PROVE  /\ Len(t) \in Nat \ {0} /\ Len(t) \in 1..Len(t)
           /\ t[n] \in Node /\ Len(t[n].kids) = Arity(t[n])
           /\ Len(t[n].kids) \in Nat
           /\ DOMAIN t[n].kids = 1..Len(t[n].kids)
           /\ \A k \in 1..Len(t[n].kids) :
                /\ Kid(t, n, k) \in 1..(n - 1) /\ t[Kid(t, n, k)].up = n
                /\ Kid(t, n, k) \in 1..Len(t)
           /\ \A j, k \in 1..Len(t[n].kids) : Kid(t, n, j) = Kid(t, n, k) => j = k
           /\ HasBranches(t[n]) =>
                /\ LeftOf(t[n]) \in 1..Len(t[n].kids)
                /\ RightOf(t[n]) \in 1..Len(t[n].kids)
                /\ RightOf(t[n]) = Len(t[n].kids)
<1>1. t \in Seq(Node) /\ t # <<>>
  BY DEF WellFormed
<1>2. t[n] \in Node /\ Len(t[n].kids) = Arity(t[n])
  BY <1>1 DEF WellFormed
<1>3. /\ \A k \in 1..Len(t[n].kids) :
            Kid(t, n, k) \in 1..(n - 1) /\ t[Kid(t, n, k)].up = n
      /\ \A j, k \in 1..Len(t[n].kids) : Kid(t, n, j) = Kid(t, n, k) => j = k
  BY DEF WellFormed, Kid
<1>4. HasBranches(t[n]) => /\ LeftOf(t[n]) \in 1..Arity(t[n])
                           /\ RightOf(t[n]) \in 1..Arity(t[n])
                           /\ RightOf(t[n]) = Arity(t[n])
  BY Arities DEF HasBranches, IsComparison, LeftOf, RightOf
<1> QED
  BY <1>1, <1>2, <1>3, <1>4, OperandsBefore

LEMMA OneKid ==
    ASSUME NEW t, WellFormed(t), NEW n \in 1..Len(t), NEW k \in 1..Len(t[n].kids)
    PROVE  /\ Kid(t, n, k) \in 1..(n - 1) /\ Kid(t, n, k) \in 1..Len(t)
           /\ t[Kid(t, n, k)].up = n
BY TreeFacts

\* What a node's operands have been found to be.
ArgsOf(t, n) == [k \in 1..Len(t[n].kids) |-> Found(t)[Kid(t, n, k)]]

\* The type of a node, from what is found for its operands.
LEMMA FoundDef ==
    ASSUME NEW t, WellFormed(t), NEW n \in 1..Len(t)
    PROVE  Found(t)[n]
             = IF \E k \in 1..Len(t[n].kids) : Found(t)[Kid(t, n, k)] = Unknown
               THEN Unknown
               ELSE CheckedType(t[n], ArgsOf(t, n),
                                t[Kid(t, n, Len(t[n].kids))],
                                Variables, Functions)
<1>1. DOMAIN t[n].kids = 1..Len(t[n].kids)
  BY TreeFacts
<1>2. Found(t)[n] = NodeType(t, n, Found(t), Variables, Functions)
  BY TypesDef DEF Found
<1>3. CheckNode(t, n, Found(t), Variables, Functions)
        = CheckedType(t[n], ArgsOf(t, n), t[Kid(t, n, Len(t[n].kids))],
                      Variables, Functions)
  BY <1>1, Zenon DEF CheckNode, Kid, ArgsOf
<1> QED
  BY <1>1, <1>2, <1>3 DEF NodeType, Kid

\* The parent's limit, and twice that on the right side of a pair.
LEMMA LimitOfKid ==
    ASSUME NEW t, WellFormed(t), NEW n \in 1..Len(t),
           NEW k \in 1..Len(t[n].kids)
    PROVE  Limits(t)[Kid(t, n, k)] = Twice(Again(t, n, k), Limits(t)[n])
<1> DEFINE m == Kid(t, n, k)
<1>1. m \in 1..Len(t) /\ t[m].up = n /\ n # 0
  BY TreeFacts
<1>2. IsRightSide(t, m) <=> Again(t, n, k)
  BY <1>1, TreeFacts DEF IsRightSide, Again, Kid
<1>3. Limits(t)[m] = Limit(t, m, Limits(t))
  BY <1>1, LimitsDef
<1> HIDE DEF m
<1> QED
  BY <1>1, <1>2, <1>3 DEF Limit, Twice, m

LEMMA LimitsAreNat ==
    ASSUME NEW t, WellFormed(t), NEW n \in 1..Len(t)
    PROVE  Limits(t)[n] \in Nat
<1> DEFINE T == {d \in 0..Len(t) : /\ Len(t) - d \in 1..Len(t)
                                   /\ Limits(t)[Len(t) - d] \notin Nat}
<1>1. Len(t) \in Nat \ {0}
  BY DEF WellFormed
<1>2. SUFFICES ASSUME T # {} PROVE FALSE
  <2>1. Limits(t)[n] \notin Nat => Len(t) - n \in T
    BY <1>1
  <2> QED
    BY <1>2, <2>1
<1>3. PICK d \in T : \A j \in T : ~(<<j, d>> \in OpToRel(<, Nat))
  <2>1. T \subseteq Nat
    BY <1>1
  <2> HIDE DEF T
  <2> QED
    BY <1>2, <2>1, NatLessThanWellFounded, WFMin
<1> DEFINE m == Len(t) - d
<1>4. m \in 1..Len(t) /\ Limits(t)[m] \notin Nat /\ d \in 0..Len(t)
  BY <1>3
<1> HIDE DEF T
<1>5. Limits(t)[m] = Limit(t, m, Limits(t))
  BY <1>4, LimitsDef
<1>6. t[m].up # 0
  BY <1>4, <1>5 DEF Limit
<1>7. t[m].up \in (m + 1)..Len(t)
  BY <1>4, <1>6, ParentAfter
<1>8. Limits(t)[t[m].up] \notin Nat
  BY <1>4, <1>5, <1>6 DEF Limit
<1>9. Len(t) - t[m].up \in T
  <2> DEFINE u == t[m].up
             e == Len(t) - u
  <2>1. u \in (m + 1)..Len(t) /\ Limits(t)[u] \notin Nat
    BY <1>7, <1>8
  <2> HIDE DEF u, m
  <2>2. u \in 1..Len(t) /\ e \in 0..Len(t) /\ Len(t) - e = u
    BY <1>1, <1>4, <2>1
  <2> HIDE DEF e
  <2>3. e \in T
    BY <2>1, <2>2 DEF T
  <2> QED
    BY <2>3 DEF e, u
<1>10. <<Len(t) - t[m].up, d>> \in OpToRel(<, Nat)
  <2>1. Len(t) - t[m].up \in Nat /\ d \in Nat /\ Len(t) - t[m].up < d
    BY <1>1, <1>4, <1>7
  <2> QED
    BY <2>1 DEF OpToRel
<1> QED
  BY <1>3, <1>9, <1>10

\* The call on top of the stack.
LEMMA TopFacts ==
    ASSUME CkInv, stack # <<>>
    PROVE  /\ WellFormed(tree)
           /\ Len(stack) \in Nat \ {0} /\ Len(stack) \in 1..Len(stack)
           /\ Top \in Frames(tree) /\ Top = stack[Len(stack)]
           /\ Top.node \in 1..Len(tree) /\ Node0 = tree[Top.node]
           /\ FrameOK(tree, Top, returned # NotReturned)
           /\ Top.todo \in Seq(Nat) /\ Top.types \in Seq(FoundTypes(tree))
           /\ Len(Top.todo) \in Nat /\ Len(Top.types) \in Nat
           /\ Top.again \in BOOLEAN
           /\ Top.todo # <<>> =>
                /\ Head(Top.todo) \in 1..Len(Node0.kids)
                /\ Top.again  => Head(Top.todo) = RightOf(Node0)
                /\ ~Top.again => Head(Top.todo) = Len(Top.types) + 1
<1>1. stack \in Seq(Frames(tree)) /\ Len(stack) \in Nat \ {0}
      /\ Len(stack) \in 1..Len(stack) /\ WellFormed(tree)
  BY DEF CkInv, CkTypeOK
<1>2. Top \in Frames(tree) /\ Top = stack[Len(stack)]
  BY <1>1 DEF Top
<1>3. /\ Top.node \in 1..Len(tree) /\ Top.todo \in Seq(Nat)
      /\ Top.types \in Seq(FoundTypes(tree)) /\ Node0 = tree[Top.node]
      /\ Top.again \in BOOLEAN
  BY <1>2 DEF Frames, Node0
<1>4. Called(Len(stack)) <=> returned # NotReturned
  BY <1>1 DEF Called
<1>5. FrameOK(tree, Top, returned # NotReturned)
  <2>1. FrameOK(tree, Top, Called(Len(stack)))
    BY <1>1, <1>2 DEF CkInv, Path
  <2> QED
    BY <1>4, <2>1 DEF FrameOK
<1>6. Len(Node0.kids) \in Nat /\ (HasBranches(Node0) =>
          RightOf(Node0) \in 1..Len(Node0.kids))
  BY <1>1, <1>3, TreeFacts
<1>7. Len(Top.todo) \in Nat /\ Len(Top.types) \in Nat
  BY <1>3
<1>8. ASSUME Top.todo # <<>>
      PROVE  /\ Head(Top.todo) \in 1..Len(Node0.kids)
             /\ Top.again  => Head(Top.todo) = RightOf(Node0)
             /\ ~Top.again => Head(Top.todo) = Len(Top.types) + 1
  <2>1. Len(Top.todo) \in Nat \ {0} /\ Head(Top.todo) = Top.todo[1]
    BY <1>3, <1>8
  <2>2. CASE Top.again
    <3>1. HasBranches(Node0) /\ Top.todo = <<RightOf(Node0)>>
      BY <1>3, <1>5, <1>8, <2>2 DEF FrameOK
    <3> QED
      BY <1>6, <2>1, <2>2, <3>1
  <2>3. CASE ~Top.again
    <3>1. /\ Len(Top.todo) = Len(Node0.kids) - Len(Top.types)
          /\ \A k \in 1..Len(Top.todo) : Top.todo[k] = Len(Top.types) + k
      BY <1>3, <1>5, <2>3 DEF FrameOK
    <3>2. 1 \in 1..Len(Top.todo)
      BY <2>1
    <3>3. Top.todo[1] = Len(Top.types) + 1
      BY <3>1, <3>2
    <3> QED
      BY <1>6, <1>7, <2>1, <2>3, <3>1, <3>3
  <2> QED
    BY <2>2, <2>3
<1> QED
  BY <1>1, <1>2, <1>3, <1>5, <1>7, <1>8

\* The rest of the stack does not change when its top is replaced or has
\* another call put on it.
LEMMA FrameFacts ==
    ASSUME CkInv, NEW i \in 1..Len(stack)
    PROVE  /\ WellFormed(tree) /\ Len(stack) \in Nat
           /\ stack[i] \in Frames(tree) /\ stack[i].node \in 1..Len(tree)
           /\ stack[i].todo \in Seq(Nat) /\ stack[i].types \in Seq(FoundTypes(tree))
           /\ FrameOK(tree, stack[i], Called(i))
           /\ Covered(tree, stack[i], Called(i), visits)
           /\ i < Len(stack) => Top.node < stack[i].node
<1>1. stack \in Seq(Frames(tree)) /\ WellFormed(tree)
  BY DEF CkInv, CkTypeOK
<1>2. stack[i] \in Frames(tree) /\ Len(stack) \in 1..Len(stack)
  BY <1>1
<1>3. i < Len(stack) => Top.node < stack[i].node
  BY <1>2 DEF CkInv, Path, Top
<1> QED
  BY <1>1, <1>2, <1>3 DEF CkInv, Path, VisitsInv, Frames

-----------------------------------------------------------------------------
(* The steps: refusals                                                     *)

LEMMA RefusedRoot ==
    ASSUME CkInv, Running, Found(tree)[Top.node] = Unknown, Refuse
    PROVE  CkInv'
<1>1. Top.node \in 1..Len(tree) /\ WellFormed(tree)
  BY TopFacts DEF Running
<1>2. TypeOf(tree, Variables, Functions) = Unknown
  BY <1>1, RefusalSpreads DEF Found
<1>3. /\ tree' = tree /\ stack' = stack /\ returned' = returned
      /\ visits' = visits /\ verdict' = "refused"
  BY DEF Refuse
<1>4. CkTypeOK'
  BY <1>3 DEF CkInv, CkTypeOK
<1>5. Path'
  BY <1>3 DEF CkInv, Path, Called
<1>6. VerdictInv'
  BY <1>2, <1>3 DEF CkInv, VerdictInv, Answered, Top
<1>7. VisitsInv'
  BY <1>3 DEF CkInv, VisitsInv, VisitsAreBounded, Called
<1> QED
  BY <1>4, <1>5, <1>6, <1>7 DEF CkInv

LEMMA RefuseNodeKeeps ==
    ASSUME CkInv, RefuseNode
    PROVE  CkInv'
<1>1. Running /\ Refused(Node0) /\ Refuse /\ stack # <<>>
  BY DEF RefuseNode, Running
<1>2. Top.node \in 1..Len(tree) /\ WellFormed(tree) /\ Node0 = tree[Top.node]
  BY <1>1, TopFacts
<1>3. /\ Node0 \in Node /\ Len(Node0.kids) = Arity(Node0)
      /\ Len(Node0.kids) \in Nat
  BY <1>2, TreeFacts
<1> DEFINE arg == ArgsOf(tree, Top.node)
<1>4. DOMAIN arg = 1..Len(Node0.kids) /\ Len(arg) = Len(Node0.kids)
  BY <1>2, <1>3 DEF ArgsOf
<1> HIDE DEF arg
<1>5. \A right : CheckedType(Node0, arg, right, Variables, Functions) = Unknown
  BY <1>1, <1>3, <1>4, RefusedType
<1>6. Found(tree)[Top.node] = Unknown
  BY <1>2, <1>5, FoundDef DEF arg
<1> QED
  BY <1>1, <1>6, RefusedRoot

LEMMA RefuseOperandKeeps ==
    ASSUME CkInv, RefuseOperand
    PROVE  CkInv'
<1>1. /\ Running /\ returned # NotReturned /\ stack # <<>> /\ Refuse
      /\ ~OperandAccepted(Node0, Head(Top.todo), returned)
  BY DEF RefuseOperand, Running
<1>2. Top.node \in 1..Len(tree) /\ WellFormed(tree) /\ Node0 = tree[Top.node]
  BY <1>1, TopFacts
<1> DEFINE k == Head(Top.todo)
           arg == ArgsOf(tree, Top.node)
<1>3. k \in 1..Len(Node0.kids)
  BY <1>1, TopFacts DEF FrameOK
<1>4. returned = Found(tree)[Kid(tree, Top.node, k)]
  BY <1>1 DEF CkInv, VerdictInv, Answered
<1>5. Node0 \in Node /\ Len(Node0.kids) = Arity(Node0)
  BY <1>2, TreeFacts
<1>6. DOMAIN arg = 1..Len(Node0.kids) /\ arg[k] = returned
  BY <1>2, <1>3, <1>4 DEF ArgsOf
<1> HIDE DEF arg, k
<1>7. ~OperandAccepted(Node0, k, arg[k])
  BY <1>1, <1>6 DEF k
<1>8. \A right : CheckedType(Node0, arg, right, Variables, Functions) = Unknown
  BY <1>3, <1>5, <1>6, <1>7, RefusedType
<1>9. Found(tree)[Top.node] = Unknown
  BY <1>2, <1>8, FoundDef DEF arg
<1> QED
  BY <1>1, <1>9, RefusedRoot

\* When all the operands have been checked, the types that the call has kept
\* are those of its operands.
LEMMA TypesKept ==
    ASSUME CkInv, AllChecked
    PROVE  /\ Len(Top.types) = Len(Node0.kids)
           /\ Top.types = ArgsOf(tree, Top.node)
<1>1. stack # <<>> /\ Top.todo = <<>>
  BY DEF AllChecked, Running
<1>2. /\ FrameOK(tree, Top, returned # NotReturned) /\ Node0 = tree[Top.node]
      /\ Top.node \in 1..Len(tree) /\ WellFormed(tree)
      /\ Top.types \in Seq(FoundTypes(tree)) /\ Len(Top.types) \in Nat
      /\ Top.again \in BOOLEAN
  BY <1>1, TopFacts
<1>3. Len(Node0.kids) \in Nat
  BY <1>2, TreeFacts
<1>4. Len(Top.types) = Len(Node0.kids)
  <2>1. Len(Top.todo) = 0
    BY <1>1
  <2>2. CASE Top.again
    BY <1>2, <2>2 DEF FrameOK
  <2>3. CASE ~Top.again
    <3>1. Len(Top.todo) = Len(Node0.kids) - Len(Top.types)
      BY <1>2, <2>3 DEF FrameOK
    <3>2. Len(Top.types) \in Nat /\ Len(Node0.kids) \in Nat
      BY <1>2, <1>3
    <3> DEFINE done == Len(Top.types)
               all == Len(Node0.kids)
               left == Len(Top.todo)
    <3> HIDE DEF done, all, left
    <3>3. left = 0 /\ left = all - done /\ done \in Nat /\ all \in Nat
      BY <2>1, <3>1, <3>2 DEF done, all, left
    <3>4. done = all
      BY <3>3
    <3> QED
      BY <3>4 DEF done, all
  <2> QED
    BY <1>2, <2>2, <2>3
<1>5. \A k \in 1..Len(Node0.kids) :
          Top.types[k] = Found(tree)[Kid(tree, Top.node, k)]
  BY <1>2, <1>4 DEF FrameOK
<1>6. Top.types = [k \in 1..Len(Node0.kids) |-> Top.types[k]]
  BY <1>2, <1>4
<1>7. Top.types = ArgsOf(tree, Top.node)
  BY <1>2, <1>5, <1>6, Zenon DEF ArgsOf
<1> QED
  BY <1>4, <1>7

LEMMA RefusePairKeeps ==
    ASSUME CkInv, RefusePair
    PROVE  CkInv'
<1>1. /\ AllChecked /\ Incompatible /\ Refuse /\ Running /\ stack # <<>>
  BY DEF RefusePair, AllChecked, Running
<1>2. Top.node \in 1..Len(tree) /\ WellFormed(tree) /\ Node0 = tree[Top.node]
  BY <1>1, TopFacts
<1>3. /\ Node0 \in Node /\ Len(Node0.kids) = Arity(Node0)
      /\ HasBranches(Node0) => RightOf(Node0) = Len(Node0.kids)
      /\ Len(Node0.kids) \in Nat
  BY <1>2, TreeFacts
<1> DEFINE arg == ArgsOf(tree, Top.node)
           right == tree[Kid(tree, Top.node, Len(Node0.kids))]
<1>4. HasBranches(Node0) /\ ~Compatible(arg[LeftOf(Node0)],
                                        arg[RightOf(Node0)], right)
  BY <1>1, <1>2, <1>3, TypesKept DEF Incompatible, RightNode, Kid
<1>5. DOMAIN arg = 1..Len(Node0.kids)
  BY <1>2 DEF ArgsOf
<1> HIDE DEF arg, right
<1>6. CheckedType(Node0, arg, right, Variables, Functions) = Unknown
  BY <1>3, <1>4, <1>5, RefusedType
<1>7. Found(tree)[Top.node] = Unknown
  BY <1>2, <1>6, FoundDef DEF arg, right
<1> QED
  BY <1>1, <1>7, RefusedRoot

-----------------------------------------------------------------------------
(* The steps: an operand is checked                                        *)

LEMMA FrameCalled ==
    ASSUME NEW t, NEW f, NEW called
    PROVE  /\ called  => /\ FrameOK(t, f, called) <=> FrameOK(t, f, TRUE)
                         /\ \A k : ToCome(t, f, called, k) = ToCome(t, f, TRUE, k)
           /\ ~called => /\ FrameOK(t, f, called) <=> FrameOK(t, f, FALSE)
                         /\ \A k : ToCome(t, f, called, k) = ToCome(t, f, FALSE, k)
BY DEF FrameOK, ToCome

LEMMA NewFrame ==
    ASSUME WellFormed(tree), NEW n \in 1..Len(tree)
    PROVE  /\ Frame(n) \in Frames(tree) /\ Frame(n).node = n
           /\ Frame(n).types = <<>> /\ Frame(n).again = FALSE
           /\ FrameOK(tree, Frame(n), FALSE)
           /\ \A k \in 1..Len(tree[n].kids) :
                ToCome(tree, Frame(n), FALSE, k) = Twice(Again(tree, n, k), 1)
<1>1. Len(tree[n].kids) \in Nat
  BY TreeFacts
<1>2. /\ Positions(tree[n]) \in Seq(Nat)
      /\ Len(Positions(tree[n])) = Len(tree[n].kids)
      /\ \A k \in 1..Len(tree[n].kids) : Positions(tree[n])[k] = k
  BY <1>1 DEF Positions
<1>3. /\ Frame(n).node = n /\ Frame(n).todo = Positions(tree[n])
      /\ Frame(n).types = <<>> /\ Frame(n).again = FALSE
  BY DEF Frame
<1>4. Frame(n) \in Frames(tree)
  BY <1>2 DEF Frame, Frames
<1>5. Len(Frame(n).types) = 0
  BY <1>3
<1>6. FrameOK(tree, Frame(n), FALSE)
  BY <1>1, <1>2, <1>3, <1>5 DEF FrameOK
<1>7. \A k \in 1..Len(tree[n].kids) :
          ToCome(tree, Frame(n), FALSE, k) = Twice(Again(tree, n, k), 1)
  BY <1>1, <1>3, <1>5 DEF ToCome, Twice
<1> QED
  BY <1>3, <1>4, <1>6, <1>7

LEMMA CheckOperandKeeps ==
    ASSUME CkInv, CheckOperand
    PROVE  CkInv'
<1> DEFINE len == Len(stack)
           p == Top.node
           h == Head(Top.todo)
           n == Kid(tree, p, h)
<1>1. /\ Running /\ returned = NotReturned /\ ~Refused(Node0)
      /\ Top.todo # <<>> /\ stack # <<>>
      /\ stack' = Append(stack, Frame(n))
      /\ visits' = [visits EXCEPT ![n] = @ + 1]
      /\ tree' = tree /\ returned' = returned /\ verdict' = verdict
  <2>1. Node0.kids[Head(Top.todo)] = n
    BY DEF Kid, Node0
  <2> QED
    BY <2>1 DEF CheckOperand, Running
<1>2. /\ WellFormed(tree) /\ len \in Nat \ {0} /\ len \in 1..len
      /\ Top = stack[len] /\ p \in 1..Len(tree) /\ Node0 = tree[p]
      /\ h \in 1..Len(Node0.kids) /\ Len(Top.types) \in Nat
      /\ Top.again => h = RightOf(Node0)
      /\ ~Top.again => h = Len(Top.types) + 1
      /\ Top.again \in BOOLEAN
      /\ FrameOK(tree, Top, FALSE)
  BY <1>1, TopFacts
<1>3. /\ n \in 1..(p - 1) /\ n \in 1..Len(tree) /\ tree[n].up = p
      /\ Len(tree) \in Nat /\ Len(tree) \in 1..Len(tree)
  <2> HIDE DEF p, h
  <2> QED
    BY <1>2, TreeFacts
<1>4. /\ Frame(n) \in Frames(tree) /\ Frame(n).node = n
      /\ FrameOK(tree, Frame(n), FALSE)
  BY <1>2, <1>3, NewFrame
<1> HIDE DEF len, p, h, n
<1>5. /\ stack' \in Seq(Frames(tree)) /\ Len(stack') = len + 1
      /\ \A i \in 1..len : stack'[i] = stack[i]
      /\ stack'[len + 1] = Frame(n)
  BY <1>1, <1>2, <1>4 DEF CkInv, CkTypeOK, len
<1>6. /\ \A i \in 1..len : Called(i)'
      /\ \A i \in 1..(len - 1) : Called(i)
      /\ ~Called(len)
      /\ \A i \in 1..(len + 1) : i = len + 1 => ~Called(i)'
  BY <1>1, <1>2, <1>5 DEF Called, len
<1>7. visits \in [1..Len(tree) -> Nat]
  BY DEF CkInv, CkTypeOK
<1>8. CkTypeOK'
  BY <1>1, <1>3, <1>5, <1>7 DEF CkInv, CkTypeOK
<1>9. Path'
  <2>1. ASSUME NEW i \in 1..(len + 1)
        PROVE  FrameOK(tree, stack'[i], Called(i)')
    <3>1. CASE i = len + 1
      <4>1. stack'[i] = Frame(n) /\ ~Called(i)'
        BY <1>5, <1>6, <3>1
      <4> QED
        BY <1>4, <4>1, FrameCalled
    <3>2. CASE i = len
      <4>1. stack'[i] = Top /\ Called(i)'
        BY <1>2, <1>5, <1>6, <3>2
      <4>2. FrameOK(tree, Top, TRUE)
        BY <1>1, <1>2 DEF FrameOK, p
      <4> QED
        BY <4>1, <4>2, FrameCalled
    <3>3. CASE i < len
      <4>1. i \in 1..(len - 1) /\ i \in 1..len
        BY <1>2, <3>3
      <4>2. FrameOK(tree, stack[i], Called(i)) /\ stack'[i] = stack[i]
        BY <1>5, <4>1, FrameFacts DEF len
      <4> QED
        BY <1>6, <4>1, <4>2 DEF FrameOK
    <3> QED
      BY <1>2, <3>1, <3>2, <3>3
  <2>2. ASSUME NEW i \in 1..len
        PROVE  stack'[i + 1].node = Kid(tree, stack'[i].node, Head(stack'[i].todo))
    <3>1. CASE i = len
      BY <1>2, <1>4, <1>5, <3>1 DEF n, p, h
    <3>2. CASE i # len
      <4>1. i \in 1..(len - 1) /\ i + 1 \in 1..len
        BY <1>2, <3>2
      <4> QED
        BY <1>5, <4>1 DEF CkInv, Path, len
    <3> QED
      BY <3>1, <3>2
  <2>3. ASSUME NEW i \in 1..(len + 1), NEW j \in 1..(len + 1), i < j
        PROVE  stack'[j].node < stack'[i].node
    <3>1. CASE j = len + 1
      <4>1. i \in 1..len /\ stack'[i] = stack[i] /\ stack'[j].node = n
        BY <1>2, <1>4, <1>5, <2>3, <3>1
      <4>2. stack[i].node \in 1..Len(tree) /\ (i = len \/ p < stack[i].node)
        BY <1>2, <4>1, FrameFacts DEF len, p
      <4>3. i = len => stack[i].node = p
        BY <1>2 DEF p
      <4> QED
        BY <1>2, <1>3, <4>1, <4>2, <4>3
    <3>2. CASE j # len + 1
      <4>1. i \in 1..len /\ j \in 1..len
        BY <1>2, <2>3, <3>2
      <4> QED
        BY <1>5, <2>3, <4>1 DEF CkInv, Path, len
    <3> QED
      BY <3>1, <3>2
  <2>4. stack'[1].node = Len(tree)
    <3>1. 1 \in 1..len
      BY <1>2
    <3> QED
      BY <1>1, <1>5, <3>1 DEF CkInv, Path
  <2>5. Len(stack') - 1 = len
    BY <1>2, <1>5
  <2>6. (\A i \in 1..Len(stack) : FrameOK(tree, stack[i], Called(i)))'
    BY <1>1, <1>5, <2>1
  <2>7. (\A i \in 1..(Len(stack) - 1) :
            stack[i + 1].node = Kid(tree, stack[i].node, Head(stack[i].todo)))'
    BY <1>1, <2>2, <2>5, Zenon
  <2>8. (\A i, j \in 1..Len(stack) : i < j => stack[j].node < stack[i].node)'
    BY <1>5, <2>3
  <2> QED
    BY <1>1, <2>4, <2>6, <2>7, <2>8 DEF Path
<1>10. VerdictInv'
  <2>1. stack' # <<>> /\ verdict = "checking"
    BY <1>1, <1>2, <1>5 DEF Running
  <2> QED
    BY <1>1, <2>1 DEF VerdictInv
<1>11. VisitsInv'
  <2>1. /\ \A m \in 1..Len(tree) : visits[m] \in Nat /\ visits'[m] \in Nat
        /\ \A m \in 1..Len(tree) : m # n => visits'[m] = visits[m]
        /\ visits'[n] = visits[n] + 1
    BY <1>1, <1>3, <1>7
  <2> HIDE DEF CkInv
  <2>2. visits'[Len(tree)] = 1
    <3>1. n # Len(tree)
      BY <1>2, <1>3
    <3> QED
      BY <1>3, <2>1, <3>1 DEF CkInv, VisitsInv
  <2>3. Covered(tree, Top, FALSE, visits)
    BY <1>2, <1>6, FrameFacts DEF len, Covered, ToCome
  <2>4. ToCome(tree, Top, FALSE, h) >= 1 /\ ToCome(tree, Top, FALSE, h) \in Int
    BY <1>1, <1>2 DEF ToCome, Twice, p
  <2>5. visits[n] + ToCome(tree, Top, FALSE, h)
          <= Twice(Again(tree, p, h), visits[p])
    BY <1>2, <2>3 DEF Covered, n, p
  <2>6. visits'[n] <= Twice(Again(tree, p, h), visits[p])
    <3>1. Twice(Again(tree, p, h), visits[p]) \in Nat
      BY <1>2, <2>1 DEF Twice
    <3>2. visits[n] \in Nat
      BY <1>3, <2>1
    <3> DEFINE x == visits[n]
               c == ToCome(tree, Top, FALSE, h)
               y == Twice(Again(tree, p, h), visits[p])
               z == visits'[n]
    <3>3. x \in Nat /\ c \in Int /\ c >= 1 /\ y \in Nat /\ x + c <= y /\ z = x + 1
      BY <2>1, <2>4, <2>5, <3>1, <3>2
    <3> HIDE DEF x, c, y, z
    <3>4. z <= y
      BY <3>3
    <3> QED
      BY <3>4 DEF y, z
  <2>7. ASSUME NEW m \in 1..Len(tree), NEW k \in 1..Len(tree[m].kids)
        PROVE  visits'[Kid(tree, m, k)] <= Twice(Again(tree, m, k), visits'[m])
    <3>1. Kid(tree, m, k) \in 1..Len(tree) /\ tree[Kid(tree, m, k)].up = m
      BY <1>2, TreeFacts
    <3>2. visits[Kid(tree, m, k)] <= Twice(Again(tree, m, k), visits[m])
      BY DEF CkInv, VisitsInv
    <3>3. CASE Kid(tree, m, k) = n
      <4>1. m = p
        BY <1>3, <3>1, <3>3
      <4>2. k = h
        BY <1>2, <3>3, <4>1, TreeFacts DEF n
      <4>3. visits'[p] = visits[p]
        BY <1>2, <1>3, <2>1
      <4> QED
        BY <2>6, <3>3, <4>1, <4>2, <4>3
    <3>4. CASE Kid(tree, m, k) # n
      <4>1. visits'[m] >= visits[m] /\ visits[m] \in Nat /\ visits'[m] \in Nat
        BY <2>1
      <4>2. visits'[Kid(tree, m, k)] = visits[Kid(tree, m, k)]
            /\ visits[Kid(tree, m, k)] \in Nat
        BY <2>1, <3>1, <3>4
      <4> QED
        BY <3>2, <4>1, <4>2 DEF Twice
    <3> QED
      BY <3>3, <3>4
  <2>8. ASSUME NEW i \in 1..(len + 1)
        PROVE  Covered(tree, stack'[i], Called(i)', visits')
    <3> DEFINE f == stack'[i]
    <3>1. f.node \in 1..Len(tree)
      <4>1. i \in 1..len => f = stack[i] /\ stack[i].node \in 1..Len(tree)
        BY <1>5, FrameFacts DEF len
      <4>2. i \notin 1..len => i = len + 1
        BY <1>2
      <4>3. i = len + 1 => f.node = n
        BY <1>4, <1>5
      <4> QED
        BY <1>3, <4>1, <4>2, <4>3
    <3> SUFFICES ASSUME NEW k \in 1..Len(tree[f.node].kids)
                 PROVE  visits'[Kid(tree, f.node, k)] + ToCome(tree, f, Called(i)', k)
                            <= Twice(Again(tree, f.node, k), visits'[f.node])
      BY DEF Covered
    <3>2. /\ Kid(tree, f.node, k) \in 1..Len(tree)
          /\ tree[Kid(tree, f.node, k)].up = f.node
          /\ Kid(tree, f.node, k) < f.node
      <4> DEFINE m == f.node
      <4>1. m \in 1..Len(tree) /\ k \in 1..Len(tree[m].kids)
        BY <3>1
      <4> HIDE DEF m
      <4>2. /\ Kid(tree, m, k) \in 1..(m - 1) /\ Kid(tree, m, k) \in 1..Len(tree)
            /\ tree[Kid(tree, m, k)].up = m
        BY <1>2, <4>1, OneKid
      <4> QED
        BY <4>1, <4>2 DEF m
    <3>3. CASE i = len + 1
      <4>1. f = Frame(n) /\ f.node = n
        BY <1>4, <1>5, <3>3
      <4>2. ToCome(tree, f, Called(i)', k) = Twice(Again(tree, n, k), 1)
        <5>1. ToCome(tree, f, FALSE, k) = Twice(Again(tree, n, k), 1)
          BY <1>2, <1>3, <4>1, NewFrame
        <5> QED
          BY <1>6, <3>3, <5>1, FrameCalled
      <4>3. visits[Kid(tree, n, k)] <= Twice(Again(tree, n, k), visits[n])
        BY <1>3, <4>1 DEF CkInv, VisitsInv
      <4>4. visits'[Kid(tree, n, k)] = visits[Kid(tree, n, k)]
            /\ visits[Kid(tree, n, k)] \in Nat
        BY <1>3, <2>1, <3>2, <4>1
      <4>5. visits[n] \in Nat
        BY <1>3, <2>1
      <4> QED
        BY <2>1, <4>1, <4>2, <4>3, <4>4, <4>5 DEF Twice
    <3>4. CASE i = len
      <4>1. f = Top /\ f.node = p /\ Called(i)'
        BY <1>2, <1>5, <1>6, <3>4 DEF p
      <4>2. visits'[p] = visits[p] /\ visits[p] \in Nat
        BY <1>2, <1>3, <2>1
      <4>3. visits[Kid(tree, p, k)] + ToCome(tree, Top, FALSE, k)
              <= Twice(Again(tree, p, k), visits[p])
        BY <2>3, <4>1 DEF Covered
      <4>4. CASE k = h
        <5>1. /\ ToCome(tree, Top, TRUE, k) = ToCome(tree, Top, FALSE, k) - 1
              /\ ToCome(tree, Top, FALSE, k) \in Int
          BY <1>1, <1>2, <4>4 DEF ToCome, Twice, p
        <5>2. visits'[Kid(tree, p, k)] = visits[n] + 1 /\ visits[n] \in Nat
          BY <1>3, <2>1, <4>4 DEF n
        <5>3. ToCome(tree, f, Called(i)', k) = ToCome(tree, Top, TRUE, k)
          BY <4>1, FrameCalled
        <5>4. Twice(Again(tree, p, k), visits[p]) \in Nat
          BY <4>2 DEF Twice
        <5>5. visits[Kid(tree, p, k)] = visits[n]
          BY <4>4 DEF n
        <5> DEFINE x == visits[n]
                   c == ToCome(tree, Top, FALSE, k)
                   y == Twice(Again(tree, p, k), visits[p])
                   z == visits'[Kid(tree, p, k)]
                   d == ToCome(tree, f, Called(i)', k)
        <5>6. /\ x \in Nat /\ c \in Int /\ y \in Nat
              /\ x + c <= y /\ z = x + 1 /\ d = c - 1
          BY <4>3, <5>1, <5>2, <5>3, <5>4, <5>5
        <5> HIDE DEF x, c, y, z, d
        <5>7. z + d <= y
          BY <5>6
        <5> QED
          BY <4>1, <4>2, <5>7 DEF y, z, d
      <4>5. CASE k # h
        <5>1. Kid(tree, p, k) # n
          BY <1>2, <4>1, <4>5, TreeFacts DEF n
        <5>2. visits'[Kid(tree, p, k)] = visits[Kid(tree, p, k)]
          BY <2>1, <3>2, <4>1, <5>1
        <5>3. k \in Nat
          OBVIOUS
        <5>4. ToCome(tree, f, Called(i)', k) = ToCome(tree, Top, FALSE, k)
          BY <1>2, <4>1, <4>5, <5>3 DEF ToCome
        <5> QED
          BY <4>1, <4>2, <4>3, <5>2, <5>4
      <4> QED
        BY <4>4, <4>5
    <3>5. CASE i < len
      <4>1. i \in 1..len /\ i \in 1..(len - 1) /\ f = stack[i]
        BY <1>2, <1>5, <3>5
      <4>2. p < f.node
        BY <3>5, <4>1, FrameFacts DEF len, p
      <4>3. f.node # n /\ Kid(tree, f.node, k) # n
        BY <1>2, <1>3, <3>1, <3>2, <4>2
      <4>4. /\ visits'[f.node] = visits[f.node]
            /\ visits'[Kid(tree, f.node, k)] = visits[Kid(tree, f.node, k)]
        BY <2>1, <3>1, <3>2, <4>3
      <4>5. visits[Kid(tree, f.node, k)] + ToCome(tree, f, Called(i), k)
              <= Twice(Again(tree, f.node, k), visits[f.node])
        BY <4>1, FrameFacts DEF Covered, len
      <4>6. ToCome(tree, f, Called(i)', k) = ToCome(tree, f, Called(i), k)
        BY <1>6, <4>1 DEF ToCome
      <4> QED
        BY <4>4, <4>5, <4>6
    <3> QED
      BY <1>2, <3>3, <3>4, <3>5
  <2>9. ASSUME NEW m \in 1..Len(tree)
        PROVE  visits'[m] <= Limits(tree)[m]
    <3>1. visits[m] <= Limits(tree)[m]
      BY <1>2 DEF CkInv, VisitsInv, VisitsAreBounded, WellFormed
    <3>2. CASE m # n
      BY <2>1, <3>1, <3>2
    <3>3. CASE m = n
      <4>1. Limits(tree)[n] = Twice(Again(tree, p, h), Limits(tree)[p])
        BY <1>2, LimitOfKid DEF n
      <4>2. visits[p] <= Limits(tree)[p]
        BY <1>2 DEF CkInv, VisitsInv, VisitsAreBounded, WellFormed
      <4>3. Limits(tree)[p] \in Nat /\ visits[p] \in Nat
        BY <1>2, <2>1, LimitsAreNat
      <4>4. visits'[n] \in Nat
        BY <1>3, <2>1
      <4> QED
        BY <2>6, <3>3, <4>1, <4>2, <4>3, <4>4 DEF Twice
    <3> QED
      BY <3>2, <3>3
  <2>10. DOMAIN tree = 1..Len(tree)
    BY <1>2 DEF WellFormed
  <2> QED
    BY <1>1, <1>5, <2>2, <2>7, <2>8, <2>9, <2>10 DEF VisitsInv, VisitsAreBounded
<1> QED
  BY <1>8, <1>9, <1>10, <1>11 DEF CkInv

-----------------------------------------------------------------------------
(* The steps: an operand passes, or is checked again                       *)

\* The call on top goes on with what it has found and has left to do.
LEMMA TopGoesOn ==
    ASSUME CkInv, Running, NEW f \in Frames(tree), f.node = Top.node,
           stack' = Append(Above, f), returned' = NotReturned,
           UNCHANGED <<tree, verdict, visits>>,
           FrameOK(tree, f, FALSE), Covered(tree, f, FALSE, visits)
    PROVE  CkInv'
<1> DEFINE len == Len(stack)
<1>1. /\ WellFormed(tree) /\ len \in Nat \ {0} /\ len \in 1..len
      /\ Top = stack[len] /\ stack # <<>> /\ stack \in Seq(Frames(tree))
  BY TopFacts DEF Running, CkInv, CkTypeOK
<1>2. /\ stack' \in Seq(Frames(tree)) /\ Len(stack') = len /\ stack' # <<>>
      /\ \A i \in 1..(len - 1) : stack'[i] = stack[i]
      /\ stack'[len] = f
  BY <1>1, ReplaceTop DEF Above
<1> HIDE DEF len
<1>3. /\ \A i \in 1..(len - 1) : Called(i) /\ Called(i)'
      /\ \A i \in 1..len : i = len => ~Called(i)'
      /\ \A i \in 1..len : stack'[i].node = stack[i].node
  BY <1>1, <1>2 DEF Called, len
<1>4. CkTypeOK'
  BY <1>2 DEF CkInv, CkTypeOK
<1>5. ASSUME NEW i \in 1..len
      PROVE  /\ FrameOK(tree, stack'[i], Called(i)')
             /\ Covered(tree, stack'[i], Called(i)', visits)
  <2>1. CASE i = len
    <3>1. stack'[i] = f /\ ~Called(i)'
      BY <1>2, <1>3, <2>1
    <3>2. FrameOK(tree, f, Called(i)')
      BY <3>1, FrameCalled
    <3>3. Covered(tree, f, Called(i)', visits)
      BY <3>1, FrameCalled DEF Covered
    <3> QED
      BY <3>1, <3>2, <3>3
  <2>2. CASE i # len
    <3>1. i \in 1..(len - 1)
      BY <1>1, <2>2
    <3>2. stack'[i] = stack[i] /\ Called(i)' /\ Called(i)
      BY <1>2, <1>3, <3>1
    <3>3. FrameOK(tree, stack[i], Called(i)) /\ Covered(tree, stack[i], Called(i), visits)
      BY FrameFacts DEF len
    <3>4. FrameOK(tree, stack[i], Called(i)')
      BY <3>2, <3>3, FrameCalled
    <3>5. Covered(tree, stack[i], Called(i)', visits)
      BY <3>2, <3>3, FrameCalled DEF Covered
    <3> QED
      BY <3>2, <3>4, <3>5
  <2> QED
    BY <2>1, <2>2
<1>6. Path'
  <2>1. (\A i \in 1..Len(stack) : FrameOK(tree, stack[i], Called(i)))'
    BY <1>2, <1>5
  <2>2. ASSUME NEW i \in 1..(len - 1)
        PROVE  stack'[i + 1].node = Kid(tree, stack'[i].node, Head(stack'[i].todo))
    <3>1. i + 1 \in 1..len
      BY <1>1
    <3>2. stack[i + 1].node = Kid(tree, stack[i].node, Head(stack[i].todo))
      BY DEF CkInv, Path, len
    <3> QED
      BY <1>2, <1>3, <3>1, <3>2
  <2>3. (\A i \in 1..(Len(stack) - 1) :
            stack[i + 1].node = Kid(tree, stack[i].node, Head(stack[i].todo)))'
    BY <1>2, <2>2, Zenon
  <2>4. (\A i, j \in 1..Len(stack) : i < j => stack[j].node < stack[i].node)'
    BY <1>2, <1>3 DEF CkInv, Path, len
  <2>5. stack'[1].node = Len(tree)
    <3>1. 1 \in 1..len
      BY <1>1
    <3> QED
      BY <1>1, <1>3, <3>1 DEF CkInv, Path
  <2> QED
    BY <2>1, <2>3, <2>4, <2>5 DEF Path
<1>7. VerdictInv'
  BY <1>2 DEF VerdictInv, Running
<1>8. VisitsInv'
  <2>1. (\A i \in 1..Len(stack) : Covered(tree, stack[i], Called(i), visits))'
    BY <1>2, <1>5
  <2> QED
    BY <2>1 DEF CkInv, VisitsInv, VisitsAreBounded
<1> QED
  BY <1>4, <1>6, <1>7, <1>8 DEF CkInv

LEMMA AcceptOperandKeeps ==
    ASSUME CkInv, AcceptOperand
    PROVE  CkInv'
<1> DEFINE h == Head(Top.todo)
           f == [Top EXCEPT !.todo = Tail(@),
                    !.types = IF Top.again THEN @ ELSE Append(@, returned)]
<1>1. /\ Running /\ returned # NotReturned /\ stack # <<>>
      /\ OperandAccepted(Node0, h, returned)
      /\ stack' = Append(Above, f) /\ returned' = NotReturned
      /\ UNCHANGED <<tree, verdict, visits>>
  BY DEF AcceptOperand, Running
<1>2. /\ WellFormed(tree) /\ Len(stack) \in Nat \ {0} /\ Len(stack) \in 1..Len(stack)
      /\ Top = stack[Len(stack)] /\ Top \in Frames(tree)
      /\ Top.node \in 1..Len(tree) /\ Node0 = tree[Top.node]
      /\ Top.todo \in Seq(Nat) /\ Top.types \in Seq(FoundTypes(tree))
      /\ Len(Top.types) \in Nat /\ Top.again \in BOOLEAN
      /\ FrameOK(tree, Top, TRUE)
  BY <1>1, TopFacts, FrameCalled
<1>3. /\ Top.todo # <<>> /\ h \in 1..Len(Node0.kids)
      /\ Top.again => h = RightOf(Node0)
      /\ ~Top.again => h = Len(Top.types) + 1
  BY <1>1, <1>2, TopFacts DEF FrameOK
<1>4. /\ returned # Unknown
      /\ returned = Found(tree)[Kid(tree, Top.node, h)]
  BY <1>1 DEF CkInv, VerdictInv, Answered
<1>5. returned \in FoundTypes(tree)
  <2>1. Kid(tree, Top.node, h) \in 1..Len(tree)
    BY <1>2, <1>3, TreeFacts
  <2> QED
    BY <1>4, <2>1 DEF FoundTypes
<1>6. /\ f.node = Top.node /\ f.again = Top.again /\ f.todo = Tail(Top.todo)
      /\ f.types = IF Top.again THEN Top.types ELSE Append(Top.types, returned)
      /\ f \in Frames(tree)
  <2> DEFINE y == Append(Top.types, returned)
             d == Tail(Top.todo)
  <2>1. d \in Seq(Nat) /\ y \in Seq(FoundTypes(tree))
    BY <1>2, <1>3, <1>5
  <2> HIDE DEF y
  <2>2. f = [Top EXCEPT !.todo = Tail(@), !.types = IF Top.again THEN @ ELSE y]
    BY Zenon DEF y
  <2> HIDE DEF f
  <2>3. f \in Frames(tree)
    BY <1>2, <2>1, <2>2 DEF Frames
  <2>4. /\ f.node = Top.node /\ f.again = Top.again /\ f.todo = d
        /\ f.types = IF Top.again THEN Top.types ELSE y
    BY <1>2, <2>2 DEF Frames
  <2> QED
    BY <2>3, <2>4 DEF y
<1> HIDE DEF f, h
<1>7. Len(Node0.kids) \in Nat /\ RightOf(Node0) \in Nat
  BY <1>2, TreeFacts DEF RightOf, LeftOf
<1>8. Len(f.todo) = Len(Top.todo) - 1 /\ Len(Top.todo) \in Nat \ {0}
  BY <1>2, <1>3, <1>6
<1>9. FrameOK(tree, f, FALSE)
  <2>1. CASE Top.again
    <3>1. Top.todo = <<RightOf(Node0)>>
      BY <1>2, <1>3, <2>1 DEF FrameOK
    <3>2. f.todo = <<>> /\ f.types = Top.types
      BY <1>6, <1>7, <2>1, <3>1
    <3>3. f.node = Top.node /\ f.again = Top.again
      BY <1>6
    <3>4. ~Refused(Node0)
      BY <1>2 DEF FrameOK
    <3> QED
      BY <1>2, <2>1, <3>2, <3>3, <3>4 DEF FrameOK
  <2>2. CASE ~Top.again
    <3>1. /\ Len(f.types) = Len(Top.types) + 1 /\ h = Len(f.types)
          /\ \A k \in 1..Len(Top.types) : f.types[k] = Top.types[k]
          /\ f.types[h] = returned
      BY <1>2, <1>3, <1>5, <1>6, <2>2
    <3>2. \A k \in 1..Len(f.types) :
             /\ f.types[k] = Found(tree)[Kid(tree, f.node, k)]
             /\ f.types[k] \notin {Unknown, NotReturned}
             /\ OperandAccepted(Node0, k, f.types[k])
      <4> TAKE k \in 1..Len(f.types)
      <4>1. CASE k = h
        BY <1>1, <1>4, <1>6, <3>1, <4>1
      <4>2. CASE k # h
        <5>1. k \in 1..Len(Top.types)
          BY <1>2, <3>1, <4>2
        <5> QED
          BY <1>2, <1>6, <3>1, <5>1 DEF FrameOK
      <4> QED
        BY <4>1, <4>2
    <3>3. /\ Len(Top.todo) = Len(Node0.kids) - Len(Top.types)
          /\ \A k \in 1..Len(Top.todo) : Top.todo[k] = Len(Top.types) + k
      BY <1>2, <2>2 DEF FrameOK
    <3>4. Len(f.types) <= Len(Node0.kids)
      BY <1>3, <3>1
    <3>5. Len(f.todo) = Len(Node0.kids) - Len(f.types)
      <4> DEFINE x == Len(f.todo)
                 y == Len(Top.todo)
                 a == Len(Top.types)
                 b == Len(f.types)
                 c == Len(Node0.kids)
      <4>1. /\ x = y - 1 /\ y \in Nat /\ a \in Nat /\ b = a + 1 /\ c \in Nat
            /\ y = c - a
        BY <1>2, <1>7, <1>8, <3>1, <3>3
      <4> HIDE DEF x, y, a, b, c
      <4>2. x = c - b
        BY <4>1
      <4> QED
        BY <4>2 DEF x, b, c
    <3>6. \A k \in 1..Len(f.todo) : f.todo[k] = Len(f.types) + k
      <4> TAKE k \in 1..Len(f.todo)
      <4>1. k + 1 \in 1..Len(Top.todo) /\ k \in Nat
        BY <1>8
      <4>2. f.todo[k] = Top.todo[k + 1]
        BY <1>2, <1>3, <1>6, <1>8
      <4>3. Top.todo[k + 1] = Len(Top.types) + (k + 1)
        BY <3>3, <4>1
      <4> DEFINE a == Len(Top.types)
                 b == Len(f.types)
      <4>4. a \in Nat /\ b = a + 1 /\ f.todo[k] = a + (k + 1)
        BY <1>2, <3>1, <4>2, <4>3
      <4> HIDE DEF a, b
      <4>5. f.todo[k] = b + k
        BY <4>1, <4>4
      <4> QED
        BY <4>5 DEF b
    <3>7. ~Refused(Node0)
      BY <1>2 DEF FrameOK
    <3> QED
      BY <1>2, <1>6, <2>2, <3>2, <3>4, <3>5, <3>6, <3>7 DEF FrameOK
  <2> QED
    BY <1>2, <2>1, <2>2
<1>10. Covered(tree, f, FALSE, visits)
  <2>1. Covered(tree, Top, TRUE, visits)
    <3>1. Called(Len(stack))
      BY <1>1 DEF Called
    <3> QED
      BY <1>2, <3>1, FrameFacts, FrameCalled DEF Covered
  <2>2. ASSUME NEW k \in 1..Len(tree[f.node].kids)
        PROVE  ToCome(tree, f, FALSE, k) = ToCome(tree, Top, TRUE, k)
    <3>1. CASE Top.again
      <4>1. Top.todo = <<RightOf(Node0)>>
        BY <1>2, <1>3, <3>1 DEF FrameOK
      <4>2. f.todo = <<>>
        BY <1>6, <1>7, <4>1
      <4> QED
        BY <1>6, <3>1, <4>2 DEF ToCome
    <3>2. CASE ~Top.again
      <4>1. Len(f.types) = Len(Top.types) + 1
        BY <1>2, <1>5, <1>6, <3>2
      <4>2. k <= Len(f.types) <=> k <= Len(Top.types) \/ k = Len(Top.types) + 1
        BY <1>2, <4>1
      <4> QED
        BY <1>6, <3>2, <4>2 DEF ToCome
    <3> QED
      BY <1>2, <3>1, <3>2
  <2> QED
    BY <1>6, <2>1, <2>2 DEF Covered
<1> QED
  BY <1>1, <1>6, <1>9, <1>10, TopGoesOn

LEMMA CheckAgainKeeps ==
    ASSUME CkInv, CheckAgain
    PROVE  CkInv'
<1> DEFINE f == [Top EXCEPT !.todo = ToCheckAgain, !.again = TRUE]
<1>1. /\ AllChecked /\ Running /\ returned = NotReturned /\ stack # <<>>
      /\ ~Refused(Node0) /\ Top.todo = <<>> /\ ToCheckAgain # <<>>
      /\ stack' = Append(Above, f) /\ returned' = returned
      /\ UNCHANGED <<tree, verdict, visits>>
  BY DEF CheckAgain, AllChecked, Running
<1>2. /\ WellFormed(tree) /\ Len(stack) \in Nat \ {0} /\ Len(stack) \in 1..Len(stack)
      /\ Top = stack[Len(stack)] /\ Top \in Frames(tree)
      /\ Top.node \in 1..Len(tree) /\ Node0 = tree[Top.node]
      /\ Top.types \in Seq(FoundTypes(tree)) /\ Len(Top.types) \in Nat
      /\ FrameOK(tree, Top, FALSE)
  BY <1>1, TopFacts, FrameCalled
<1>3. HasBranches(Node0) /\ ~Top.again /\ ToCheckAgain = <<RightOf(Node0)>>
  BY <1>1 DEF ToCheckAgain, CheckedAgain
<1>4. RightOf(Node0) \in Nat /\ Len(Node0.kids) \in Nat
  BY <1>2, TreeFacts DEF RightOf, LeftOf
<1>5. /\ f.node = Top.node /\ f.again = TRUE /\ f.todo = <<RightOf(Node0)>>
      /\ f.types = Top.types /\ f \in Frames(tree)
  <2>1. <<RightOf(Node0)>> \in Seq(Nat)
    BY <1>4
  <2> DEFINE d == ToCheckAgain
  <2>2. d = <<RightOf(Node0)>>
    BY <1>3
  <2> HIDE DEF d
  <2>3. f = [Top EXCEPT !.todo = d, !.again = TRUE]
    BY Zenon DEF d
  <2> HIDE DEF f
  <2>4. f \in Frames(tree)
    BY <1>2, <2>1, <2>2, <2>3 DEF Frames
  <2>5. /\ f.node = Top.node /\ f.again = TRUE /\ f.todo = d
        /\ f.types = Top.types
    BY <1>2, <2>3 DEF Frames
  <2> QED
    BY <2>2, <2>4, <2>5
<1>6. Len(Top.types) = Len(Node0.kids)
  BY <1>1, TypesKept
<1> HIDE DEF f
<1>7. FrameOK(tree, f, FALSE)
  BY <1>1, <1>2, <1>3, <1>5, <1>6 DEF FrameOK
<1>8. Covered(tree, f, FALSE, visits)
  <2>1. Covered(tree, Top, FALSE, visits)
    <3>1. ~Called(Len(stack))
      BY <1>1, <1>2 DEF Called
    <3> QED
      BY <1>2, <3>1, FrameFacts, FrameCalled DEF Covered
  <2>2. ASSUME NEW k \in 1..Len(Node0.kids)
        PROVE  ToCome(tree, f, FALSE, k) = ToCome(tree, Top, FALSE, k)
    <3>1. ToCome(tree, f, FALSE, k) = IF k = RightOf(Node0) THEN 1 ELSE 0
      BY <1>2, <1>5 DEF ToCome
    <3>2. ToCome(tree, Top, FALSE, k)
            = Twice(Again(tree, Top.node, k), 1) - 1
      BY <1>3, <1>6 DEF ToCome
    <3>3. Again(tree, Top.node, k) <=> k = RightOf(Node0)
      BY <1>2, <1>3 DEF Again
    <3>4. Twice(Again(tree, Top.node, k), 1) - 1
            = IF k = RightOf(Node0) THEN 1 ELSE 0
      BY <3>3 DEF Twice
    <3> QED
      BY <3>1, <3>2, <3>4
  <2> QED
    BY <1>2, <1>5, <2>1, <2>2 DEF Covered
<1> QED
  BY <1>1, <1>5, <1>7, <1>8, TopGoesOn

-----------------------------------------------------------------------------
(* The steps: a call returns                                               *)

LEMMA ReturnKeeps ==
    ASSUME CkInv, Return
    PROVE  CkInv'
<1> DEFINE len == Len(stack)
           type == ResultType(Node0, Top.types, RightNode)
<1>1. /\ AllChecked /\ Running /\ returned = NotReturned /\ stack # <<>>
      /\ ~Refused(Node0) /\ ~Incompatible
      /\ stack' = Above /\ returned' = type
      /\ verdict' = IF Len(stack) = 1 THEN "accepted" ELSE verdict
      /\ verdict = "checking" /\ UNCHANGED <<tree, visits>>
  BY DEF Return, AllChecked, Running
<1>2. /\ WellFormed(tree) /\ len \in Nat \ {0} /\ len \in 1..len
      /\ Top = stack[len] /\ stack \in Seq(Frames(tree))
      /\ Top.node \in 1..Len(tree) /\ Node0 = tree[Top.node]
      /\ Top.types \in Seq(FoundTypes(tree)) /\ Len(Top.types) \in Nat
      /\ FrameOK(tree, Top, FALSE)
  BY <1>1, TopFacts, FrameCalled DEF CkInv, CkTypeOK
<1>3. /\ Node0 \in Node /\ Len(Node0.kids) = Arity(Node0)
      /\ HasBranches(Node0) => RightOf(Node0) = Len(Node0.kids)
      /\ Len(Node0.kids) \in Nat
  BY <1>2, TreeFacts
<1>4. /\ Len(Top.types) = Len(Node0.kids)
      /\ Top.types = ArgsOf(tree, Top.node)
  BY <1>1, TypesKept
<1>5. type \notin {Unknown, NotReturned} /\ Found(tree)[Top.node] = type
  <2> DEFINE arg == Top.types
             right == tree[Kid(tree, Top.node, Len(Node0.kids))]
  <2>1. \A k \in 1..Len(arg) :
           /\ arg[k] = Found(tree)[Kid(tree, Top.node, k)]
           /\ arg[k] \notin {Unknown, NotReturned}
           /\ OperandAccepted(Node0, k, arg[k])
    BY <1>2 DEF FrameOK
  <2>2. HasBranches(Node0) => right = RightNode
    BY <1>2, <1>3 DEF RightNode, Kid
  <2>3. HasBranches(Node0) =>
            Compatible(arg[LeftOf(Node0)], arg[RightOf(Node0)], right)
    BY <1>1, <2>2 DEF Incompatible
  <2>4. arg \in Seq(FoundTypes(tree)) /\ Len(arg) = Len(Node0.kids)
    BY <1>2, <1>4
  <2> HIDE DEF arg, right
  <2>5. /\ CheckedType(Node0, arg, right, Variables, Functions)
             = ResultType(Node0, arg, right)
        /\ ResultType(Node0, arg, right) \notin {Unknown, NotReturned}
    BY <1>1, <1>3, <2>1, <2>3, <2>4, AcceptedType
  <2>6. ResultType(Node0, arg, right) = type
    <3>1. CASE HasBranches(Node0)
      BY <2>2, <3>1 DEF arg
    <3>2. CASE ~HasBranches(Node0)
      BY <3>2 DEF ResultType, HasBranches, arg
    <3> QED
      BY <3>1, <3>2
  <2>7. ~ \E k \in 1..Len(Node0.kids) :
              Found(tree)[Kid(tree, Top.node, k)] = Unknown
    BY <2>1, <2>4
  <2>8. arg = ArgsOf(tree, Top.node)
    BY <1>4 DEF arg
  <2>9. Found(tree)[Top.node] = CheckedType(Node0, arg, right, Variables, Functions)
    BY <1>2, <2>7, <2>8, FoundDef DEF right
  <2> QED
    BY <2>5, <2>6, <2>9
<1> HIDE DEF type
<1>6. /\ stack' \in Seq(Frames(tree)) /\ Len(stack') = len - 1
      /\ \A i \in 1..(len - 1) : stack'[i] = stack[i]
  <2>1. Top \in Frames(tree)
    BY <1>2
  <2> QED
    BY <1>1, <1>2, <2>1, ReplaceTop DEF Above
<1>7. \A i \in 1..(len - 1) : Called(i) /\ Called(i)'
  <2>1. returned' # NotReturned
    BY <1>1, <1>5
  <2> QED
    BY <1>2, <2>1 DEF Called
<1> HIDE DEF len
<1>8. CkTypeOK'
  BY <1>1, <1>6 DEF CkInv, CkTypeOK
<1>9. ASSUME NEW i \in 1..(len - 1)
      PROVE  /\ FrameOK(tree, stack'[i], Called(i)')
             /\ Covered(tree, stack'[i], Called(i)', visits)
  <2>1. i \in 1..len /\ stack'[i] = stack[i] /\ Called(i)' /\ Called(i)
    BY <1>2, <1>6, <1>7
  <2>2. FrameOK(tree, stack[i], Called(i)) /\ Covered(tree, stack[i], Called(i), visits)
    BY <2>1, FrameFacts DEF len
  <2>3. FrameOK(tree, stack[i], Called(i)')
    BY <2>1, <2>2, FrameCalled
  <2>4. Covered(tree, stack[i], Called(i)', visits)
    BY <2>1, <2>2, FrameCalled DEF Covered
  <2> QED
    BY <2>1, <2>3, <2>4
<1>10. Path'
  <2>1. (\A i \in 1..Len(stack) : FrameOK(tree, stack[i], Called(i)))'
    BY <1>1, <1>6, <1>9
  <2>2. ASSUME NEW i \in 1..(len - 1 - 1)
        PROVE  stack'[i + 1].node = Kid(tree, stack'[i].node, Head(stack'[i].todo))
    <3>1. i \in 1..(len - 1) /\ i + 1 \in 1..(len - 1)
      BY <1>2
    <3>2. stack[i + 1].node = Kid(tree, stack[i].node, Head(stack[i].todo))
      BY <3>1 DEF CkInv, Path, len
    <3> QED
      BY <1>6, <3>1, <3>2
  <2>3. (\A i \in 1..(Len(stack) - 1) :
            stack[i + 1].node = Kid(tree, stack[i].node, Head(stack[i].todo)))'
    BY <1>1, <1>6, <2>2, Zenon
  <2>4. (\A i, j \in 1..Len(stack) : i < j => stack[j].node < stack[i].node)'
    <3>1. \A i \in 1..(len - 1) : i \in 1..len
      BY <1>2
    <3> QED
      BY <1>6, <3>1 DEF CkInv, Path, len
  <2>5. stack' # <<>> => stack'[1].node = Len(tree)
    <3>1. stack' # <<>> => 1 \in 1..(len - 1)
      BY <1>2, <1>6
    <3> QED
      BY <1>1, <1>6, <3>1 DEF CkInv, Path
  <2> QED
    BY <1>1, <2>1, <2>3, <2>4, <2>5 DEF Path
<1>11. VerdictInv'
  <2>1. stack' = <<>> <=> len = 1
    BY <1>2, <1>6
  <2>2. CASE len = 1
    <3>1. Top.node = Len(tree)
      BY <1>1, <1>2, <2>2 DEF CkInv, Path
    <3>2. Answered' = Len(tree)
      BY <1>1, <2>1, <2>2 DEF Answered
    <3> QED
      BY <1>1, <1>5, <2>1, <2>2, <3>1, <3>2 DEF VerdictInv, len
  <2>3. CASE len # 1
    <3>1. len - 1 \in 1..(len - 1) /\ Len(stack') = len - 1
      BY <1>2, <1>6, <2>3
    <3>2. Top' = stack[len - 1]
      BY <1>6, <3>1 DEF Top
    <3>3. Answered' = Kid(tree, stack[len - 1].node, Head(stack[len - 1].todo))
      BY <1>1, <2>1, <2>3, <3>2 DEF Answered
    <3>4. stack[len - 1 + 1].node
            = Kid(tree, stack[len - 1].node, Head(stack[len - 1].todo))
      BY <3>1 DEF CkInv, Path, len
    <3>5. len - 1 + 1 = len
      BY <1>2
    <3>6. Answered' = Top.node
      BY <1>2, <3>3, <3>4, <3>5
    <3> QED
      BY <1>1, <1>5, <2>1, <2>3, <3>6 DEF VerdictInv, len
  <2> QED
    BY <2>2, <2>3
<1>12. VisitsInv'
  <2>1. (\A i \in 1..Len(stack) : Covered(tree, stack[i], Called(i), visits))'
    BY <1>1, <1>6, <1>9
  <2> QED
    BY <1>1, <2>1 DEF CkInv, VisitsInv, VisitsAreBounded
<1> QED
  BY <1>8, <1>10, <1>11, <1>12 DEF CkInv

-----------------------------------------------------------------------------
(* The theorems                                                            *)

LEMMA InitCkInv == Init => CkInv
<1> SUFFICES ASSUME Init PROVE CkInv
  OBVIOUS
<1> DEFINE root == Len(tree)
<1>1. WellFormed(tree) /\ stack = <<Frame(root)>> /\ returned = NotReturned
      /\ verdict = "checking"
      /\ visits = [n \in DOMAIN tree |-> IF n = root THEN 1 ELSE 0]
  BY TreesAssumption DEF Init
<1>2. root \in Nat \ {0} /\ root \in 1..root /\ DOMAIN tree = 1..root
  BY <1>1 DEF WellFormed
<1>3. /\ Frame(root) \in Frames(tree) /\ Frame(root).node = root
      /\ FrameOK(tree, Frame(root), FALSE)
      /\ \A k \in 1..Len(tree[root].kids) :
            ToCome(tree, Frame(root), FALSE, k) = Twice(Again(tree, root, k), 1)
  BY <1>1, <1>2, NewFrame
<1>4. /\ Len(stack) = 1 /\ stack[1] = Frame(root) /\ stack # <<>>
      /\ stack \in Seq(Frames(tree)) /\ ~Called(1)
  BY <1>1, <1>3 DEF Called
<1>5. /\ visits \in [1..root -> Nat] /\ visits[root] = 1
      /\ \A n \in 1..root : n # root => visits[n] = 0
  BY <1>1, <1>2
<1>6. \A n \in 1..root : \A k \in 1..Len(tree[n].kids) :
          visits[Kid(tree, n, k)] = 0
  <2> TAKE n \in 1..root
  <2> TAKE k \in 1..Len(tree[n].kids)
  <2> DEFINE kid == Kid(tree, n, k)
  <2>1. kid \in 1..root /\ kid \in 1..(n - 1)
    BY <1>1, TreeFacts
  <2> HIDE DEF kid, root
  <2>2. kid # root
    BY <1>2, <2>1
  <2>3. visits[kid] = 0
    BY <1>5, <2>1, <2>2
  <2> QED
    BY <2>3 DEF kid
<1>7. CkTypeOK
  BY <1>1, <1>4, <1>5 DEF CkTypeOK
<1>8. Path
  <2>1. FrameOK(tree, Frame(root), Called(1))
    BY <1>3, <1>4, FrameCalled
  <2> QED
    BY <1>3, <1>4, <2>1 DEF Path
<1>9. VerdictInv
  BY <1>1, <1>4 DEF VerdictInv
<1>10. \A n \in 1..root : \A k \in 1..Len(tree[n].kids) :
          visits[Kid(tree, n, k)] <= Twice(Again(tree, n, k), visits[n])
  BY <1>5, <1>6 DEF Twice
<1>11. Covered(tree, Frame(root), Called(1), visits)
  <2> SUFFICES ASSUME NEW k \in 1..Len(tree[root].kids)
               PROVE  visits[Kid(tree, root, k)]
                        + ToCome(tree, Frame(root), Called(1), k)
                          <= Twice(Again(tree, root, k), visits[root])
    BY <1>3 DEF Covered
  <2>1. ToCome(tree, Frame(root), Called(1), k) = Twice(Again(tree, root, k), 1)
    <3>1. ToCome(tree, Frame(root), FALSE, k) = Twice(Again(tree, root, k), 1)
      BY <1>3
    <3>2. ToCome(tree, Frame(root), Called(1), k) = ToCome(tree, Frame(root), FALSE, k)
      BY <1>4 DEF ToCome
    <3> QED
      BY <3>1, <3>2, Zenon
  <2>2. visits[Kid(tree, root, k)] = 0
    BY <1>2, <1>6
  <2> QED
    BY <1>5, <2>1, <2>2 DEF Twice
<1>12. VisitsAreBounded
  <2> SUFFICES ASSUME NEW n \in 1..root PROVE visits[n] <= Limits(tree)[n]
    BY <1>2 DEF VisitsAreBounded
  <2>1. Limits(tree)[n] \in Nat
    BY <1>1, LimitsAreNat
  <2>2. CASE n # root
    BY <1>5, <2>1, <2>2
  <2>3. CASE n = root
    <3>1. tree[root].up = 0
      BY <1>1 DEF WellFormed
    <3>2. Limits(tree)[root] = 1
      BY <1>1, <1>2, <3>1, LimitsDef DEF Limit
    <3> QED
      BY <1>5, <2>3, <3>2
  <2> QED
    BY <2>2, <2>3
<1> QED
  BY <1>4, <1>5, <1>7, <1>8, <1>9, <1>10, <1>11, <1>12 DEF CkInv, VisitsInv

LEMMA NextCkInv == CkInv /\ [Next]_cvars => CkInv'
<1> SUFFICES ASSUME CkInv, [Next]_cvars PROVE CkInv'
  OBVIOUS
<1>1. CASE RefuseNode
  BY <1>1, RefuseNodeKeeps
<1>2. CASE CheckOperand
  BY <1>2, CheckOperandKeeps
<1>3. CASE RefuseOperand
  BY <1>3, RefuseOperandKeeps
<1>4. CASE AcceptOperand
  BY <1>4, AcceptOperandKeeps
<1>5. CASE CheckAgain
  BY <1>5, CheckAgainKeeps
<1>6. CASE RefusePair
  BY <1>6, RefusePairKeeps
<1>7. CASE Return
  BY <1>7, ReturnKeeps
<1>8. CASE UNCHANGED cvars
  <2>1. tree' = tree /\ stack' = stack /\ returned' = returned
        /\ verdict' = verdict /\ visits' = visits
    BY <1>8 DEF cvars
  <2>2. CkTypeOK' /\ Path'
    BY <2>1 DEF CkInv, CkTypeOK, Path, Called
  <2>3. VerdictInv'
    BY <2>1 DEF CkInv, VerdictInv, Answered, Top
  <2>4. VisitsInv'
    BY <2>1 DEF CkInv, VisitsInv, VisitsAreBounded, Called
  <2> QED
    BY <2>2, <2>3, <2>4 DEF CkInv
<1> QED
  BY <1>1, <1>2, <1>3, <1>4, <1>5, <1>6, <1>7, <1>8 DEF Next

\* What every state of the checker satisfies: the calls that have not returned
\* are a path down the expression, each has found of its operands what the
\* rules say of them, and the visits still to come are accounted for.
THEOREM CheckerInvariant == Spec => []CkInv
BY InitCkInv, NextCkInv, PTL DEF Spec

\* typeChecker.check, which stops at the first error, looks at operands from
\* left to right and checks some of them twice, accepts exactly what the
\* declarative typing rules accept, and returns the type that they give.
THEOREM CheckerFollowsTheRules == Spec => []ChecksByTheRules
<1>1. CkInv => ChecksByTheRules
  <2> SUFFICES ASSUME CkInv PROVE ChecksByTheRules
    OBVIOUS
  <2>1. verdict = "accepted" =>
            /\ returned # Unknown
            /\ returned = TypeOf(tree, Variables, Functions)
    BY DEF CkInv, VerdictInv, Answered, Found, TypeOf
  <2>2. verdict = "refused" => TypeOf(tree, Variables, Functions) = Unknown
    BY DEF CkInv, VerdictInv
  <2> QED
    BY <2>1, <2>2 DEF ChecksByTheRules
<1> QED
  BY <1>1, CheckerInvariant, PTL

\* typeChecker.check is called on a node at most twice as often for every pair
\* of sides it is below on the right, and never more often for being below on
\* the left.
THEOREM CheckerVisitsAreBounded == Spec => []VisitsAreBounded
<1>1. CkInv => VisitsAreBounded
  BY DEF CkInv, VisitsInv
<1> QED
  BY <1>1, CheckerInvariant, PTL
=============================================================================
