------------------------------ MODULE AstTrees ------------------------------
(***************************************************************************)
(* Constructors for the expression tables of Ast, used to write down the   *)
(* expressions of an instance.                                             *)
(***************************************************************************)
EXTENDS Integers, Sequences

Leaf(op, tok) == <<[op |-> op, tok |-> tok, kids |-> <<>>, up |-> 0]>>

\* The tree whose root has the trees ts as operands.
Join(op, tok, ts) ==
    LET end[i \in 0..Len(ts)] ==
            IF i = 0 THEN 0 ELSE end[i - 1] + Len(ts[i])
        root == end[Len(ts)] + 1
        moved(i) ==
            [n \in DOMAIN ts[i] |->
                [ts[i][n] EXCEPT
                    !.kids = [k \in DOMAIN @ |-> @[k] + end[i - 1]],
                    !.up   = IF @ = 0 THEN root ELSE @ + end[i - 1]]]
        nodes[i \in 0..Len(ts)] ==
            IF i = 0 THEN <<>> ELSE nodes[i - 1] \o moved(i)
    IN  Append(nodes[Len(ts)],
               [op |-> op, tok |-> tok, up |-> 0,
                kids |-> [i \in DOMAIN ts |-> end[i]]])

Not(t)           == Join("Prefix", "!", <<t>>)
Infix(l, op, r)  == Join("Infix", op, <<l, r>>)
Ternary(c, a, b) == Join("Ternary", "?", <<c, a, b>>)
CallOf(f, args)  == Join("Call", f, args)
ArrayOf(ts)      == Join("Array", "[", ts)
Name(x)          == Leaf("Identifier", x)
Quote(s)         == Leaf("String", s)
Regex(s)         == Leaf("Regexp", s)
NullLit          == Leaf("Null", "null")
TrueLit          == Leaf("Boolean", "true")
FalseLit         == Leaf("Boolean", "false")
IntLit(i)        == Leaf("Integer", i)
=============================================================================
