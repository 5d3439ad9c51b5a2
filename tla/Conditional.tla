----------------------------- MODULE Conditional -----------------------------
(***************************************************************************)
(* The public API, conditional.go: Validate and Evaluate, of the package   *)
(* and of an Evaluator whose options were applied once, from the call to   *)
(* the reply.  One caller makes one call after another; a call goes        *)
(* through the phases                                                      *)
(*                                                                         *)
(*   entry -> options -> blank -> parse -> validate -> check -> scope ->   *)
(*   eval -> done                                                          *)
(*                                                                         *)
(* and leaves them early when it fails.  Evaluation is the module          *)
(* Evaluator, the static checks are the module TypeCheck.                  *)
(*                                                                         *)
(* A call is a record:                                                     *)
(*   api         "Validate" or "Evaluate"                                  *)
(*   expr        [form, tree]: form is "blank", "malformed" or "parsed"    *)
(*   entryPoint  Context.EntryPoint as the caller wrote it                 *)
(*   ctx         the rest of the Context                                   *)
(*   options     [ok, functions]: ok is FALSE when applying them fails     *)
(*   reused      TRUE for the methods of an Evaluator                      *)
(***************************************************************************)
EXTENDS Evaluator, TypeCheck

CONSTANTS Calls   \* the calls of the instance

\* The parser builds well-formed trees, and NewEvaluator makes an Evaluator only
\* of options that apply.
ASSUME CallsAssumption ==
    \A c \in Calls : /\ c.api \in {"Validate", "Evaluate"}
                     /\ c.expr.form = "parsed" => WellFormed(c.expr.tree)
                     /\ c.reused => c.options.ok

\* A value of a static type: null inhabits every type, because any variable
\* may be missing, and so does an error, but not one that says that a name is
\* unbound or that something that is not a function was called.
HasType(o, t) ==
    CASE o.kind = "NULL"  -> TRUE
      [] o.kind = "ERROR" -> o.v \notin {"scope", "callee"}
      [] o.kind = "ARRAY" -> /\ t.kind = "array"
                             /\ \A i \in DOMAIN o.elems :
                                    o.elems[i].kind \in {"STRING", "NULL"}
      [] OTHER            -> /\ t.kind \in DOMAIN RuntimeKind
                             /\ o.kind = RuntimeKind[t.kind]

\* The Go types of Context and Value: a field has the type of its variable, or
\* is nil, and holds no error.
ASSUME ContextsAssumption ==
    \A c \in Calls : \A x \in DOMAIN c.ctx.fields \cap AllVariables :
        /\ HasType(c.ctx.fields[x], VariableType(x))
        /\ ~IsError(c.ctx.fields[x])

\* WithFunction refuses reserved names and unknown types, and a Value is not an
\* error nor an array of anything but strings.
ASSUME FunctionsAssumption ==
    \A c \in Calls : \A f \in DOMAIN c.options.functions :
        /\ f \notin {"env", "build.env"} \cup AllVariables
        /\ c.options.functions[f].ret \in DOMAIN RuntimeKind
        /\ \A r \in c.options.functions[f].outcomes :
             /\ IsValue(r)
             /\ r.kind = "ARRAY" => HasType(r, Type("array"))

VARIABLES phase, call, ty, checked, reply, accepted

callVars == <<phase, call, ty, checked, reply, accepted>>
vars == <<ast, scope, cur, val, phase, call, ty, checked, reply, accepted>>

EntryPoints == {"build_condition", "build_condition_with_step",
                "build_notification", "step_notification"}

NormalizeEntryPoint(entryPoint) ==
    IF entryPoint = "" THEN "build_condition" ELSE entryPoint

IsNotificationEntryPoint(entryPoint) ==
    entryPoint \in {"build_notification", "step_notification"}

\* A reply is the returned bool and the kind of the error, "" for none.
Reply(value, err) == [value |-> value, err |-> err]
NoReply == Reply(FALSE, "none")

\* Validate puts the normalized entry point back into the context before it
\* checks the expression; Evaluate checks and evaluates with the caller's.
ContextEntryPoint(c) == IF c.api = "Validate"
                        THEN NormalizeEntryPoint(c.entryPoint)
                        ELSE c.entryPoint

NoCall == [api |-> "none"]

NoScope == [vars |-> <<>>, env |-> <<>>, functions |-> <<>>]

CInit ==
    /\ phase = "idle"
    /\ call = NoCall
    /\ ast = <<>> /\ scope = NoScope /\ cur = 0 /\ val = <<>>
    /\ ty = <<>> /\ checked = 0
    /\ reply = NoReply
    /\ accepted = {}

\* What a caller who validated an expression may count on later.
Contract(c) == <<c.expr, NormalizeEntryPoint(c.entryPoint), c.options>>

Goto(next) ==
    /\ phase' = next
    /\ UNCHANGED <<call, reply, accepted>>

Answer(r) ==
    /\ phase' = "done"
    /\ reply' = r
    /\ accepted' = IF call.api = "Validate" /\ r.err = ""
                   THEN {Contract(call)} ELSE accepted
    /\ UNCHANGED call

\* An error found before evaluateWithOptions takes over.
FailEarly(kind) == Answer(Reply(FALSE, kind))

\* MUTANT of Fail: only one of the two kinds of notification swallows it.
FailUnlessBuild(kind) ==
    IF /\ call.api = "Evaluate"
       /\ NormalizeEntryPoint(call.entryPoint) = "build_notification"
    THEN Answer(Reply(FALSE, "")) ELSE Answer(Reply(FALSE, kind))

\* An error found inside it: a notification swallows the error.
Fail(kind) ==
    IF /\ call.api = "Evaluate"
       /\ IsNotificationEntryPoint(NormalizeEntryPoint(call.entryPoint))
    THEN Answer(Reply(FALSE, "")) ELSE Answer(Reply(FALSE, kind))

Idle == UNCHANGED <<ast, scope, cur, val, ty, checked>>

Invoke ==
    /\ phase = "idle"
    /\ \E c \in Calls : call' = c
    /\ phase' = "entry"
    /\ UNCHANGED <<reply, accepted>>
    /\ Idle

EntryPoint ==
    /\ phase = "entry"
    /\ IF NormalizeEntryPoint(call.entryPoint) \in EntryPoints
       THEN Goto(IF call.reused THEN "blank" ELSE "options")
       ELSE FailEarly("validation")
    /\ Idle

\* MUTANT of ApplyOptions: the call starts over with its options applied.
ApplyOptionsAgain ==
    /\ phase = "options"
    /\ IF call.options.ok THEN Goto("entry") ELSE FailEarly("validation")
    /\ Idle

ApplyOptions ==
    /\ phase = "options"
    /\ IF call.options.ok THEN Goto("blank") ELSE FailEarly("validation")
    /\ Idle

\* MUTANT of Blank: a blank notification condition says no.
BlankSaysNo ==
    /\ phase = "blank"
    /\ IF call.expr.form # "blank" THEN Goto("parse")
       ELSE IF call.api = "Validate" THEN Answer(Reply(FALSE, ""))
       ELSE IF IsNotificationEntryPoint(NormalizeEntryPoint(call.entryPoint))
       THEN Answer(Reply(FALSE, "")) ELSE Goto("parse")
    /\ Idle

Blank ==
    /\ phase = "blank"
    /\ IF call.expr.form # "blank" THEN Goto("parse")
       ELSE IF call.api = "Validate" THEN Answer(Reply(FALSE, ""))
       ELSE IF IsNotificationEntryPoint(NormalizeEntryPoint(call.entryPoint))
       THEN Answer(Reply(TRUE, "")) ELSE Goto("parse")
    /\ Idle

Parse ==
    /\ phase = "parse"
    /\ IF call.expr.form = "parsed"
       THEN Goto("validate") /\ ast' = call.expr.tree
       ELSE Fail("parse") /\ UNCHANGED ast
    /\ UNCHANGED <<scope, cur, val, ty, checked>>

Names == Assigned(ContextEntryPoint(call))

ValidateExpression ==
    /\ phase = "validate"
    /\ IF \/ ~StepAllowed(ContextEntryPoint(call)) /\ ReferencesStep(ast)
          \/ ~ValidateEnvCalls(ast)
       THEN Fail("validation") /\ UNCHANGED <<ty, checked>>
       ELSE /\ Goto("check")
            /\ ty' = [n \in DOMAIN ast |-> Unknown]
            /\ checked' = 0
    /\ UNCHANGED <<ast, scope, cur, val>>

\* The checker returns from its next node.
Check ==
    /\ phase = "check"
    /\ checked < Len(ast)
    /\ LET n == checked + 1
           type == CheckNode(ast, n, ty, Names, call.options.functions)
       IN  IF type = Unknown
           THEN Fail("validation") /\ UNCHANGED <<ty, checked>>
           ELSE /\ Goto("check")
                /\ ty' = [ty EXCEPT ![n] = type]
                /\ checked' = n
    /\ UNCHANGED <<ast, scope, cur, val>>

\* MUTANT of CheckResult: the type of the result does not matter ...
CheckResultOfAnyType ==
    /\ phase = "check"
    /\ checked = Len(ast)
    /\ IF call.api = "Validate" THEN Answer(Reply(FALSE, "")) ELSE Goto("scope")
    /\ Idle

\* MUTANT of CheckResult: ... or it matters to Evaluate alone.
CheckResultLate ==
    /\ phase = "check"
    /\ checked = Len(ast)
    /\ IF call.api = "Validate" THEN Answer(Reply(FALSE, ""))
       ELSE IF ty[Root].kind # "boolean" THEN Fail("result")
       ELSE Goto("scope")
    /\ Idle

CheckResult ==
    /\ phase = "check"
    /\ checked = Len(ast)
    /\ IF ty[Root].kind # "boolean" THEN Fail("result")
       ELSE IF call.api = "Validate" THEN Answer(Reply(FALSE, ""))
       ELSE Goto("scope")
    /\ Idle

\* Built-in functions, then the caller's, then the assignments.
ScopeOf(ctx, entryPoint, functions) ==
    LET flat == FlatAssignments(ctx, entryPoint)
    IN  [vars |-> [x \in DOMAIN flat \cup Callable(functions) |->
                       IF x \in DOMAIN flat THEN flat[x] ELSE Function(x)],
         env |-> MergedEnv(ctx),
         functions |-> functions]

BuildScope ==
    /\ phase = "scope"
    /\ Goto("eval")
    /\ scope' = ScopeOf(call.ctx, ContextEntryPoint(call),
                        call.options.functions)
    /\ cur' = Root
    /\ val' = Started(ast)
    /\ UNCHANGED <<ast, ty, checked>>

Evaluating ==
    /\ phase = "eval"
    /\ Eval
    /\ UNCHANGED callVars

\* The switch on the result at the end of evaluate.
Result ==
    /\ phase = "eval"
    /\ cur = 0
    /\ LET out == val[Root]
       IN  CASE out.kind = "BOOLEAN" -> Answer(Reply(out = True, ""))
             [] out.kind = "NULL"    -> Answer(Reply(FALSE, ""))
             [] out.kind = "ERROR"   -> Fail("evaluation")
             [] OTHER                -> Fail("result")
    /\ Idle

\* MUTANT of Finish: the call is not forgotten.
FinishKeepingCall ==
    /\ phase = "done"
    /\ phase' = "idle" /\ reply' = NoReply
    /\ UNCHANGED <<call, accepted>>
    /\ ast' = <<>> /\ scope' = NoScope /\ cur' = 0 /\ val' = <<>>
    /\ ty' = <<>> /\ checked' = 0

\* The caller has the reply; what the call built is garbage.
Finish ==
    /\ phase = "done"
    /\ phase' = "idle" /\ call' = NoCall /\ reply' = NoReply
    /\ UNCHANGED accepted
    /\ ast' = <<>> /\ scope' = NoScope /\ cur' = 0 /\ val' = <<>>
    /\ ty' = <<>> /\ checked' = 0

Serve ==
    \/ EntryPoint \/ ApplyOptions \/ Blank \/ Parse \/ ValidateExpression
    \/ Check \/ CheckResult \/ BuildScope \/ Evaluating \/ Result

CNext == Invoke \/ Serve \/ Finish

CSpec == CInit /\ [][CNext]_vars /\ WF_vars(Serve)

-----------------------------------------------------------------------------

Phases == {"idle", "entry", "options", "blank", "parse", "validate", "check",
           "scope", "eval", "done"}

ErrorKinds == {"parse", "validation", "evaluation", "result"}

\* The type invariant.
CTypeOK ==
    /\ phase \in Phases
    /\ phase = "idle" <=> call = NoCall
    /\ ast = <<>> \/ WellFormed(ast)
    /\ checked \in 0..Len(ast)
    /\ DOMAIN ty \in {{}, DOMAIN ast}
    /\ DOMAIN val \in {{}, DOMAIN ast}
    /\ cur \in 0..Len(ast)
    /\ reply.value \in BOOLEAN /\ reply.err \in ErrorKinds \cup {"", "none"}

\* Soundness of the type checker: whatever the evaluator computes for a node
\* is of the type the checker gave it.  The checker reads the assignment
\* table's types, the evaluator its values, and nothing but this property
\* keeps the two columns of the table, the two lists of functions and the
\* two sets of rules for operators in step.
Sound ==
    phase = "eval" =>
        \A n \in DOMAIN ast : IsValue(val[n]) => HasType(val[n], ty[n])

\* An expression that was accepted never fails for the type of its result:
\* the last case of the switch in evaluate is dead code.
ResultIsBoolean ==
    phase = "eval" /\ cur = 0 => val[Root].kind \in {"BOOLEAN", "NULL", "ERROR"}

\* An accepted expression meets an operand it cannot compute with only through
\* a null: every type error of the evaluator is born at a node one of whose
\* operands is null, or an array with a null in it.
NullOperand(o) ==
    o.kind = "NULL" \/ \E i \in DOMAIN o.elems : o.elems[i].kind = "NULL"

TypeErrorsComeFromNull ==
    [][phase = "eval" /\ cur # 0 /\ ~Failed(cur)
         /\ val'[cur] = Error("type")
           => \E k \in DOMAIN ast[cur].kids : NullOperand(Operand(cur, k))]_vars

\* env() and build.env() read every name that the checks accepted as a
\* literal: the checks and the functions have a list of supported names each,
\* and the second must have all that the first has (env.go:69).
AcceptedNamesAreReadable ==
    phase = "eval" =>
        \A n \in DOMAIN ast :
            /\ ast[n].op = "Call" /\ ast[n].tok \in {"env", "build.env"}
            /\ IsStatic(ast[ast[n].kids[1]])
            => val[n] # Error("env")

\* A notification never surfaces what is wrong with an expression.  Only a call
\* that is itself wrong, its options or its entry point, has an error.
NotificationsSwallowErrors ==
    phase = "done" /\ call.api = "Evaluate" /\ call.options.ok
        /\ IsNotificationEntryPoint(call.entryPoint) => reply.err = ""

\* A caller who stores an expression that Validate accepted will not see
\* Evaluate refuse it later at the same entry point with the same options:
\* only its evaluation can fail.  The two take different ways to the checks,
\* one with the caller's entry point and one with the normalized one.  (A
\* blank expression is the documented exception.)
ValidatedIsNotRefused ==
    phase = "done" /\ call.api = "Evaluate" /\ Contract(call) \in accepted
        /\ call.expr.form # "blank" => reply.err \in {"", "evaluation"}

\* Every call is answered.
EveryCallIsAnswered == phase = "entry" ~> phase = "done"
=============================================================================
