--------------------------------- MODULE Ast ---------------------------------
(***************************************************************************)
(* A parsed expression, internal/ast, as a table of its nodes in post-     *)
(* order: kids hold the positions of a node's operands, left to right, up  *)
(* the position of the node it is an operand of.  The root is last, and    *)
(* its up is 0.  tok is the literal, the name or the operator.             *)
(*                                                                         *)
(* A Shell node is an expansion used as an operand, a Template a double-   *)
(* quoted string that holds one; their tok is an index into Expansions.  A *)
(* Dollar is a double-quoted string whose only substitution is $$, which   *)
(* the checker reads as its tok and the evaluator as the word of           *)
(* Expansions[tok].                                                        *)
(***************************************************************************)
EXTENDS Integers, Sequences

LeafOps == {"Boolean", "Null", "Integer", "String", "Dollar", "Template",
            "Shell", "Regexp", "Identifier"}

Ops == LeafOps \cup {"Prefix", "Infix", "Ternary", "Call", "Array"}

Node == [op : Ops, tok : STRING, kids : Seq(Nat), up : Nat]

LogicalOperators == {"&&", "||"}

InfixOperators == LogicalOperators \cup {"==", "!=", "=~", "!~", "includes"}

IsLogical(node) == node.op = "Infix" /\ node.tok \in LogicalOperators

Arity(node) == CASE node.op \in LeafOps -> 0
                 [] node.op = "Prefix"  -> 1
                 [] node.op = "Infix"   -> 2
                 [] node.op = "Ternary" -> 3
                 [] OTHER               -> Len(node.kids)

\* What the parser builds: every node but the root is an operand of exactly
\* one other, which comes later in the table.
WellFormed(t) ==
    /\ t \in Seq(Node) /\ t # <<>>
    /\ t[Len(t)].up = 0
    /\ \A n \in 1..Len(t) :
         LET kids == t[n].kids
         IN  /\ Len(kids) = Arity(t[n])
             /\ \A k \in 1..Len(kids) :
                    kids[k] \in 1..(n - 1) /\ t[kids[k]].up = n
             /\ \A j, k \in 1..Len(kids) : kids[j] = kids[k] => j = k
             /\ n < Len(t) => /\ t[n].up \in (n + 1)..Len(t)
                              /\ \E k \in 1..Len(t[t[n].up].kids) :
                                     t[t[n].up].kids[k] = n
=============================================================================
