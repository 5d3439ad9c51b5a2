------------------------------- MODULE Checker -------------------------------
(***************************************************************************)
(* The checker of typecheck.go as it runs: typeChecker.check calls itself  *)
(* on the operands of a node, stops at the first error, and checks the     *)
(* right side of a comparison once more when it has the type of the left.  *)
(*                                                                         *)
(*   tree     the expression, a table as in Ast                            *)
(*   stack    the calls of check that have not returned: the node, the     *)
(*            operands still to be checked, the types of those checked,    *)
(*            and whether the right one is checked again                   *)
(*   returned the type that the last call returned, None before that       *)
(*   verdict  "checking", "accepted" or "refused"                          *)
(*   visits   how often check was called on each node                      *)
(***************************************************************************)
EXTENDS TypeCheck

CONSTANTS Trees, Functions  \* the expressions, and the caller's signatures

\* The parser builds well-formed trees, and a signature has a type of the
\* language for its result.
ASSUME TreesAssumption == \A t \in Trees : WellFormed(t)

ASSUME FunctionsAssumption ==
    \A f \in DOMAIN Functions : /\ Functions[f].args \in Seq(STRING)
                                /\ Functions[f].ret \in DOMAIN RuntimeKind

VARIABLES tree, stack, returned, verdict, visits

cvars == <<tree, stack, returned, verdict, visits>>

NotReturned == Type("none")

Positions(node) == [k \in 1..Len(node.kids) |-> k]

IsComparison(node) == node.op = "Infix" /\ node.tok \in {"==", "!="}

HasBranches(node) == IsComparison(node) \/ node.op = "Ternary"

\* The two operands that checkCompatibleTypes compares.
LeftOf(node)  == IF node.op = "Ternary" THEN 2 ELSE 1
RightOf(node) == LeftOf(node) + 1

-----------------------------------------------------------------------------
(* What is asked of an operand as soon as its type is known, and what of   *)
(* the node when all are                                                   *)

\* MUTANT of OperandAccepted: the right side of a logical operator is not.
OperandAcceptedOnLeft(node, k, type) ==
    CASE node.op = "Prefix" -> Is(type, {"boolean"})
      [] IsLogical(node) -> k = 2 \/ Is(type, {"boolean"})
      [] node.op = "Infix" /\ node.tok \in {"=~", "!~"} ->
             Is(type, IF k = 1 THEN {"string", "null"} ELSE {"regexp"})
      [] node.op = "Infix" /\ node.tok = "includes" ->
             Is(type, IF k = 1 THEN {"array", "null"}
                      ELSE {"string", "regexp", "null"})
      [] node.op = "Ternary" /\ k = 1 -> Is(type, {"boolean"})
      [] node.op = "Array" -> Is(type, {"string"})
      [] node.op = "Call" -> Fits(type, Signature(Functions, node.tok).args[k])
      [] OTHER -> TRUE

OperandAccepted(node, k, type) ==
    CASE node.op = "Prefix" -> Is(type, {"boolean"})
      [] IsLogical(node) -> Is(type, {"boolean"})
      [] node.op = "Infix" /\ node.tok \in {"=~", "!~"} ->
             Is(type, IF k = 1 THEN {"string", "null"} ELSE {"regexp"})
      [] node.op = "Infix" /\ node.tok = "includes" ->
             Is(type, IF k = 1 THEN {"array", "null"}
                      ELSE {"string", "regexp", "null"})
      [] node.op = "Ternary" /\ k = 1 -> Is(type, {"boolean"})
      [] node.op = "Array" -> Is(type, {"string"})
      [] node.op = "Call" -> Fits(type, Signature(Functions, node.tok).args[k])
      [] OTHER -> TRUE

\* MUTANT of CheckedAgain: the left side as well.
CheckedAgainBoth(node, l, r) ==
    IF {l.kind, r.kind} \cap {"null", "array"} = {}
    THEN <<LeftOf(node), RightOf(node)>> ELSE <<>>

\* The operands that expectAny checks a second time.
CheckedAgain(node, l, r) ==
    IF {l.kind, r.kind} \cap {"null", "array"} = {} THEN <<RightOf(node)>>
    ELSE <<>>

\* Names that are not variables, operators that the checker does not know.
UnknownName(node) == \/ node.op = "Identifier" /\ node.tok \notin Variables
                     \/ node.op = "Prefix" /\ node.tok # "!"
                     \/ node.op = "Infix" /\ node.tok \notin InfixOperators

\* A call is refused before its arguments are looked at.
BadCall(node) == /\ node.op = "Call"
                 /\ \/ node.tok \notin Callable(Functions)
                    \/ Len(node.kids) # Len(Signature(Functions, node.tok).args)

Refused(node) == UnknownName(node) \/ BadCall(node)

ResultType(node, types, right) ==
    CASE node.op \in DOMAIN LiteralType -> Type(LiteralType[node.op])
      [] node.op = "Identifier" -> VariableType(node.tok)
      [] node.op \in {"Prefix", "Infix"} -> Type("boolean")
      [] node.op = "Ternary" -> CompatibleType(types[2], types[3], right)
      [] node.op = "Call" -> Type(Signature(Functions, node.tok).ret)
      [] node.op = "Array" -> Type("array")

-----------------------------------------------------------------------------
Frame(n) == [node |-> n, todo |-> Positions(tree[n]), types |-> <<>>,
             again |-> FALSE]

Top   == stack[Len(stack)]
Above == SubSeq(stack, 1, Len(stack) - 1)
Node0 == tree[Top.node]

Init == /\ tree \in Trees
        /\ stack = <<Frame(Len(tree))>>
        /\ returned = NotReturned
        /\ verdict = "checking"
        /\ visits = [n \in DOMAIN tree |-> IF n = Len(tree) THEN 1 ELSE 0]

Running == verdict = "checking" /\ stack # <<>>

Refuse == /\ verdict' = "refused"
          /\ UNCHANGED <<tree, stack, returned, visits>>

RefuseNode == Running /\ returned = NotReturned /\ Refused(Node0) /\ Refuse

CheckOperand ==
    /\ Running /\ returned = NotReturned /\ ~Refused(Node0)
    /\ Top.todo # <<>>
    /\ LET n == Node0.kids[Head(Top.todo)]
       IN  /\ stack' = Append(stack, Frame(n))
           /\ visits' = [visits EXCEPT ![n] = @ + 1]
    /\ UNCHANGED <<tree, returned, verdict>>

RefuseOperand == /\ Running /\ returned # NotReturned
                 /\ ~OperandAccepted(Node0, Head(Top.todo), returned)
                 /\ Refuse

AcceptOperand ==
    /\ Running /\ returned # NotReturned
    /\ OperandAccepted(Node0, Head(Top.todo), returned)
    /\ stack' = Append(Above,
                    [Top EXCEPT !.todo = Tail(@),
                        !.types = IF Top.again THEN @ ELSE Append(@, returned)])
    /\ returned' = NotReturned
    /\ UNCHANGED <<tree, verdict, visits>>

AllChecked == /\ Running /\ returned = NotReturned /\ ~Refused(Node0)
              /\ Top.todo = <<>>

RightNode == tree[Node0.kids[RightOf(Node0)]]

ToCheckAgain ==
    IF HasBranches(Node0) /\ ~Top.again
    THEN CheckedAgain(Node0, Top.types[LeftOf(Node0)], Top.types[RightOf(Node0)])
    ELSE <<>>

CheckAgain ==
    /\ AllChecked /\ ToCheckAgain # <<>>
    /\ stack' = Append(Above, [Top EXCEPT !.todo = ToCheckAgain, !.again = TRUE])
    /\ UNCHANGED <<tree, returned, verdict, visits>>

Incompatible ==
    HasBranches(Node0) /\ ~Compatible(Top.types[LeftOf(Node0)],
                                      Top.types[RightOf(Node0)], RightNode)

RefusePair == AllChecked /\ ToCheckAgain = <<>> /\ Incompatible /\ Refuse

Return == /\ AllChecked /\ ToCheckAgain = <<>> /\ ~Incompatible
          /\ returned' = ResultType(Node0, Top.types, RightNode)
          /\ stack' = Above
          /\ verdict' = IF Len(stack) = 1 THEN "accepted" ELSE verdict
          /\ UNCHANGED <<tree, visits>>

Next == \/ RefuseNode \/ CheckOperand \/ RefuseOperand \/ AcceptOperand
        \/ CheckAgain \/ RefusePair \/ Return

Spec == Init /\ [][Next]_cvars

-----------------------------------------------------------------------------
(* Properties                                                              *)

\* The checker, with its order of checks and its shortcuts, accepts what the
\* typing rules accept and gives it the type they give; the declarative rules
\* of TypeCheck, which the other modules use, are those of the code.
ChecksByTheRules ==
    LET type == TypeOf(tree, Variables, Functions)
    IN  /\ verdict = "accepted" => type = returned /\ type # Unknown
        /\ verdict = "refused"  => type = Unknown

\* How often node n may be checked: twice for each comparison or ternary it is
\* below on the right.
IsRightSide(t, n) == LET up == t[t[n].up]
                    IN  HasBranches(up) /\ up.kids[RightOf(up)] = n

Limit(t, n, limits) ==
    CASE t[n].up = 0                        -> 1
      [] t[n].up # 0 /\ IsRightSide(t, n)    -> 2 * limits[t[n].up]
      [] t[n].up # 0 /\ ~IsRightSide(t, n)   -> limits[t[n].up]

Limits(t) == LET limits[n \in DOMAIN t] == Limit(t, n, limits) IN limits

\* The checks of a node double with every pair of sides it is on the right of,
\* and with nothing else, so that a chain of comparisons, which nests on the
\* left, costs no more than its length.
VisitsAreBounded == \A n \in DOMAIN tree : visits[n] <= Limits(tree)[n]
=============================================================================
