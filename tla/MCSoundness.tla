----------------------------- MODULE MCSoundness -----------------------------
(***************************************************************************)
(* Every operator of the language on every pair of operands, with operands *)
(* of every type, each also in a form that is null in some context.        *)
(***************************************************************************)
EXTENDS MCConditional

Leaves ==
    {TrueLit, NullLit, IntLit("1"), Quote("main"), Quote("passed"),
     Leaf("Dollar", "$$"), Leaf("Shell", "$FOO"), Leaf("Template", "${FOO:?}"),
     Regex("^m"), CallOf("vote", <<>>),
     CallOf("teams_of", <<Name("build.branch")>>),
     CallOf("build.env", <<Name("build.branch")>>)}
    \cup {Name(x) : x \in MCVariables}

Nullable == {Ternary(Name("build.fixed"), NullLit, x) :
                x \in {Regex("^m"), IntLit("1"), Quote("main"), TrueLit}}

Arrays == {ArrayOf(<<>>), ArrayOf(<<Quote("main"), Name("build.tag")>>)}

Operands2 == Leaves \cup Nullable \cup Arrays

Binary == {Infix(x, op, y) : op \in InfixOperators, x, y \in Operands2}

Conditions == {TrueLit, Name("build.fixed"), CallOf("vote", <<>>),
               Infix(Name("build.creator.teams"), "includes", Regex("^o")),
               Infix(ArrayOf(<<Name("build.tag")>>), "includes", Quote("main"))}

Expressions ==
    Binary \cup Operands2 \cup {Not(x) : x \in Operands2}
    \cup {Ternary(c, x, y) : c \in {Name("build.fixed"), Quote("main")},
                             x, y \in {NullLit, TrueLit, Name("build.state"),
                                       Name("step.outcome"), Quote("passed"),
                                       IntLit("1"), ArrayOf(<<>>)}}
    \cup {Infix(c, op, d) : op \in LogicalOperators, c, d \in Conditions}
    \cup {Infix(x, "==", Ternary(c, y, NullLit)) :
             c \in Conditions, x, y \in {Name("build.state"), Quote("main")}}
    \cup {Infix(CallOf(f, <<x>>), "==", NullLit) :
             f \in {"env", "vote", "teams_of", "nope"}, x \in Operands2}
    \cup {Infix(CallOf("env", <<x>>), "==", y) :
             x \in {Name("build.state"), Quote("BUILDKITE_SECRET"),
                    Quote("FOO"), Quote("$FOO"), Name("build.creator.teams")},
             y \in {Quote("ops"), NullLit}}

\* Names of both lists, of the longer one, of none, and of no list at all.
EnvCalls ==
    {Infix(CallOf(f, <<Quote(x)>>), "==", NullLit) :
        f \in {"env", "build.env"},
        x \in {"BUILDKITE_BRANCH", "BUILDKITE_PULL_REQUEST_LABELS",
               "BUILDKITE_SECRET", "FOO", "no name"}}

AllCalls == {CallFor("Evaluate", Parsed(t), "build_condition_with_step", ctx,
                    Extended, FALSE) :
                t \in Expressions \cup EnvCalls, ctx \in {Present, Missing, Blanks}}

MCCalls == AllCalls
=============================================================================
