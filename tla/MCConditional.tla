---------------------------- MODULE MCConditional ----------------------------
(***************************************************************************)
(* What the instances of Conditional have in common: a small assignment    *)
(* table with a variable of every type, contexts in which they are all     *)
(* present, all missing, or blank, and two functions of the caller's.      *)
(***************************************************************************)
EXTENDS ConditionalRefinement, AstTrees, TLC

MCMatching == {<<"main", "^m">>, <<"ops", "^o">>}

MCExpansions ==
    ("$FOO" :> [name |-> "FOO", op |-> "", colon |-> FALSE, word |-> ""])
 @@ ("${FOO:?}" :> [name |-> "FOO", op |-> "?", colon |-> TRUE, word |-> ""])
 @@ ("$$" :> [name |-> "", op |-> "", colon |-> FALSE, word |-> "$"])

MCVariables == {"build.branch", "build.tag", "build.state", "build.fixed",
                "build.number", "build.creator.teams", "build.source_event",
                "step.outcome"}

Ctx(fields, buildEnv) == [fields |-> fields, buildEnv |-> buildEnv,
                          projectEnv |-> ("FOO" :> "ops")]

Present ==
    Ctx(("build.branch" :> Str("main")) @@ ("build.tag" :> Str("ops"))
        @@ ("build.state" :> Str("passed")) @@ ("build.fixed" :> True)
        @@ ("build.number" :> Atom("INTEGER", "1"))
        @@ ("build.source" :> Str("webhook"))
        @@ ("build.creator.teams" :> Array(<<Str("ops"), Str("main")>>))
        @@ ("step.outcome" :> Str("errored")),
        ("BUILDKITE_GITHUB_EVENT" :> "main"))

Missing == Ctx("pipeline.name" :> Str("main"), "FOO" :> "")

Blanks ==
    Ctx(("build.branch" :> Str("")) @@ ("build.tag" :> Str(" "))
        @@ ("build.fixed" :> False)
        @@ ("build.creator.teams" :> Array(<<>>)),
        "BUILDKITE_SECRET" :> "main")

Vote == [args |-> <<>>, ret |-> "boolean",
         outcomes |-> {True, Null, Str("main"), Error("callback")}]

TeamsOf == [args |-> <<"string">>, ret |-> "array",
            outcomes |-> {Array(<<Str("main")>>), Null}]

Plain    == [ok |-> TRUE, functions |-> <<>>]
Extended == [ok |-> TRUE, functions |-> [vote |-> Vote, teams_of |-> TeamsOf]]
Broken   == [ok |-> FALSE, functions |-> <<>>]

Parsed(t) == [form |-> "parsed", tree |-> t]

CallFor(api, e, entryPoint, ctx, options, reused) ==
    [api |-> api, expr |-> e, entryPoint |-> entryPoint, ctx |-> ctx,
     options |-> options, reused |-> reused]
=============================================================================
