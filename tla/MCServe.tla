------------------------------- MODULE MCServe -------------------------------
(***************************************************************************)
(* The public calls, one after another: every entry point, the default and *)
(* an unknown one included, Validate and Evaluate, of the package and of   *)
(* an Evaluator, with and without options, on expressions of every fate.   *)
(***************************************************************************)
EXTENDS MCConditional

Expressions ==
    {TrueLit,                                               \* yes
     Infix(Name("build.branch"), "==", Quote("main")),      \* depends
     Name("build.fixed"),                                   \* may be null
     Name("build.number"),                                  \* not a boolean
     Infix(Name("step.outcome"), "==", Quote("errored")),   \* needs a step
     Infix(Name("step.nope"), "==", NullLit),               \* unknown
     Infix(CallOf("env", <<Quote("BUILDKITE_SECRET")>>), "==", Quote("")),
     Infix(CallOf("env", <<Name("build.branch")>>), "==", Quote("")),
     Infix(ArrayOf(<<Name("build.tag")>>), "includes", Quote("main")),
     Infix(CallOf("vote", <<>>), "||", Name("build.fixed"))}

Texts == {Parsed(t) : t \in Expressions}
         \cup {[form |-> f, tree |-> <<>>] : f \in {"blank", "malformed"}}

\* The callers of an Evaluator, and those who register functions, ask about
\* the expressions for which that can make a difference.
Extending ==
    {Parsed(t) : t \in {Infix(CallOf("vote", <<>>), "||", Name("build.fixed")),
                        Infix(Name("step.outcome"), "==", Quote("errored"))}}

AllCalls ==
    {c \in {CallFor(api, e, p, ctx, o, r) :
               api \in {"Validate", "Evaluate"}, e \in Texts,
               p \in EntryPoints \cup {"", "elsewhere"},
               ctx \in {Present, Missing}, o \in {Plain, Extended, Broken},
               r \in BOOLEAN} :
        /\ c.options = Extended <=> c.expr \in Extending
        /\ c.options = Broken => c.expr = Parsed(TrueLit) /\ ~c.reused
        /\ c.reused => c.expr \in Extending
        /\ c.api = "Validate" => c.ctx = Missing
        /\ c.entryPoint = "elsewhere" => c.ctx = Missing}

MCCalls == AllCalls
=============================================================================
