---------------------------- MODULE MCNullIncludes ----------------------------
(***************************************************************************)
(* includes on an array variable that is missing, present or empty, with   *)
(* every kind of right operand.                                            *)
(***************************************************************************)
EXTENDS MCConditional

Sought == {Quote("ops"), Regex("^o"), Name("build.tag"), NullLit,
           Leaf("Shell", "$FOO")}

AllCalls ==
    {CallFor("Evaluate", Parsed(t), "build_condition", ctx, Plain, FALSE) :
        t \in {Infix(Name("build.creator.teams"), "includes", x) : x \in Sought},
        ctx \in {Present, Missing, Blanks}}

MCCalls == AllCalls

\* An array that is null includes nothing, whatever is sought in it, as the
\* parity plan says of "regex includes, null array includes" and as the test
\* "null includes string evaluates false" has it for strings.
NullIncludesNothing ==
    phase = "eval" =>
        \A n \in DOMAIN ast :
            ast[n].tok = "includes" /\ Operand(n, 1) = Null
                /\ IsValue(val[n]) /\ ~IsError(Operand(n, 2))
                    => val[n] = False
=============================================================================
