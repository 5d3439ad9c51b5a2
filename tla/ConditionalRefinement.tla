------------------------ MODULE ConditionalRefinement ------------------------
(***************************************************************************)
(* Validate and Evaluate in all their phases, the module Conditional, as   *)
(* the abstract API that ConditionalAPI describes: the pending call is the *)
(* request, the reply the answer, and every step on the way to the reply   *)
(* leaves both alone.                                                      *)
(***************************************************************************)
EXTENDS Conditional, Reference

\* Whether the expression of a call is acceptable, without the steps.
StaticVerdict(c) ==
    LET entryPoint == NormalizeEntryPoint(c.entryPoint)
        t    == c.expr.tree
        type == TypeOf(t, Assigned(entryPoint), c.options.functions)
    IN  CASE c.expr.form # "parsed" -> "parse"
          [] /\ c.expr.form = "parsed"
             /\ \/ ReferencesStep(t) /\ ~StepAllowed(entryPoint)
                \/ ~ValidateEnvCalls(t)
                \/ type = Unknown -> "validation"
          [] OTHER -> IF type.kind = "boolean" THEN "" ELSE "result"

\* The values it may have.  The scope is bound by the set so that TLC builds
\* it once.
MeaningOf(c) ==
    UNION {Meaning(c.expr.tree, Len(c.expr.tree), s) :
           s \in {ScopeOf(c.ctx, NormalizeEntryPoint(c.entryPoint),
                          c.options.functions)}}

API == INSTANCE ConditionalAPI
           WITH request <- call, answer <- reply,
                Verdict <- StaticVerdict, Meaning <- MeaningOf

\* Validate and Evaluate keep the promises of the abstract specification: the
\* reply is one that the verdict and the meaning of the expression allow,
\* whatever the two calls do on the way, and it comes.
ImplementsAPI == API!Spec
=============================================================================
