----------------------------- MODULE MCEvaluator -----------------------------
(***************************************************************************)
(* Evaluator, on every expression of one operator over a set of leaves of  *)
(* every kind and on those of two operators in which the inner one is an   *)
(* operand that can fail, be null or be skipped.  The expressions are not  *)
(* type-checked: the evaluator must behave on whatever the parser builds.  *)
(***************************************************************************)
EXTENDS Reference, AstTrees, TLC

MCMatching == {<<"main", "^m">>, <<"ops", "^o">>}

MCExpansions ==
    ("$FOO" :> [name |-> "FOO", op |-> "", colon |-> FALSE, word |-> ""])
 @@ ("${FOO:-main}" :>
        [name |-> "FOO", op |-> "-", colon |-> TRUE, word |-> "main"])
 @@ ("${FOO?}" :> [name |-> "FOO", op |-> "?", colon |-> FALSE, word |-> ""])
 @@ ("${FOO+main}" :>
        [name |-> "FOO", op |-> "+", colon |-> FALSE, word |-> "main"])
 @@ ("${FOO%}" :> [name |-> "FOO", op |-> "bad", colon |-> FALSE, word |-> ""])
 @@ ("$$" :> [name |-> "", op |-> "", colon |-> FALSE, word |-> "$"])

Leaves == {TrueLit, FalseLit, NullLit, IntLit("1"), Quote("main"),
           Regex("^m"), Name("build.creator.teams"), Name("env"), Name("nope")}

Others == {Leaf("Dollar", "$$"), Name("build.branch")}
    \cup {Leaf("Shell", x) : x \in DOMAIN MCExpansions \ {"$$"}}
    \cup {Leaf("Template", x) : x \in DOMAIN MCExpansions \ {"$$"}}

Inner ==
    {Not(x) : x \in Leaves} \cup Others
    \cup {Infix(x, op, y) : op \in InfixOperators, x, y \in Leaves}
    \cup {Ternary(c, x, y) : c \in {TrueLit, NullLit, Name("nope")},
                             x, y \in {Quote("main"), Name("nope"), NullLit}}
    \cup {ArrayOf(<<>>)} \cup {ArrayOf(<<x, y>>) : x, y \in Leaves}
    \cup {CallOf(f, <<x>>) : f \in {"env", "build.env", "vote", "nope"},
                             x \in Leaves \cup {Quote("BUILDKITE_SECRET")}}
    \cup {CallOf(f, <<>>) : f \in {"env", "vote", "build.creator.teams"}}

Outer(x) ==
    {Not(x), Infix(TrueLit, "&&", x), Infix(x, "&&", Name("nope")),
     Infix(x, "||", Name("nope")), Infix(x, "includes", Quote("main")),
     Infix(x, "includes", Regex("^m")), Infix(x, "=~", Regex("^m")),
     Infix(Quote("main"), "==", x), Ternary(x, Quote("main"), Name("nope")),
     Ternary(FalseLit, Name("nope"), x), ArrayOf(<<x, Name("nope")>>),
     CallOf("build.env", <<x>>), CallOf("vote", <<x, x>>)}

AllTrees == Inner \cup UNION {Outer(x) : x \in Inner}

MCTrees == AllTrees

Vote == [args |-> <<>>, ret |-> "boolean",
         outcomes |-> {True, Null, Str("main"), Error("callback")}]

ScopeWith(teams, branch, env) ==
    [vars |-> ("build.creator.teams" :> teams) @@ ("build.branch" :> branch)
              @@ [f \in {"env", "build.env", "vote"} |-> Function(f)],
     env |-> env, functions |-> [vote |-> Vote]]

MCScopes == {ScopeWith(Array(<<Str("ops"), Str("main")>>), Str("main"),
                       ("FOO" :> "") @@ ("main" :> "ops")),
             ScopeWith(Null, Null, ("FOO" :> "ops"))}
=============================================================================
