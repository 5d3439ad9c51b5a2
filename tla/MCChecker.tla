------------------------------ MODULE MCChecker ------------------------------
(***************************************************************************)
(* Expressions three operators deep over operands of every type, and       *)
(* comparisons and ternaries that nest on the right.                       *)
(***************************************************************************)
EXTENDS Checker, AstTrees, TLC

MCVariables == {"build.branch", "build.state", "build.fixed", "build.number",
                "build.creator.teams"}

MCFunctions == "vote" :> [args |-> <<"boolean">>, ret |-> "boolean"]

Leaves == {TrueLit, NullLit, IntLit("1"), Quote("main"), Quote("passed"),
           Regex("^m"), Name("build.branch"), Name("build.state"),
           Name("build.creator.teams"), Name("build.nope")}

Some == {TrueLit, NullLit, Quote("main"), Name("build.state")}

Flat == {Infix(x, op, y) : op \in InfixOperators, x, y \in Leaves}
        \cup {Ternary(c, x, y) : c \in {TrueLit, NullLit}, x, y \in Leaves}
        \cup {Not(x) : x \in Leaves}
        \cup {ArrayOf(<<x, y>>) : x, y \in Leaves}
        \cup {CallOf(f, <<x>>) : f \in {"env", "vote", "nope"}, x \in Leaves}
        \cup {CallOf("vote", <<>>), ArrayOf(<<>>)}

Good == {Infix(x, op, y) : op \in {"==", "&&"}, x, y \in Some}
        \cup {Ternary(TrueLit, x, y) : x, y \in Some}
        \cup {CallOf("vote", <<x>>) : x \in Some}

Nested == {Infix(x, op, y) : op \in {"==", "||"}, x, y \in Good}
          \cup {Ternary(c, x, y) : c \in Good, x, y \in Some}
          \cup {Ternary(TrueLit, x, y) : x, y \in Good}

OnTheRight(S) == {Infix(x, "==", y) : x \in Some, y \in S}
                 \cup {Ternary(TrueLit, x, y) : x \in Some, y \in S}

OnTheLeft(S) == {Infix(y, "!=", x) : x \in Some, y \in S}

MCTrees == Leaves \cup Flat \cup Nested \cup OnTheLeft(OnTheLeft(Good))
           \cup OnTheRight(OnTheRight(Good))
=============================================================================
