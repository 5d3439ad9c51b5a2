-------------------------------- MODULE Repl --------------------------------
(***************************************************************************)
(* The command, internal/repl: it reads a context back from the variables  *)
(* of its process, once, and evaluates the lines of its input in it until  *)
(* the input ends.  A line that is no command asks for a variable of the   *)
(* environment, or for one of the assignments.                             *)
(*                                                                         *)
(*   job    the context of the build that the command runs in; its         *)
(*          merged environment is that of the process                      *)
(*   ctx    the context the command works with                             *)
(*   line   the line that was read last                                    *)
(*   pc     "start", "prompt", "evaluate" or "stopped"                     *)
(*   lines  the number of lines read                                       *)
(*   out    what was printed for each of them                              *)
(***************************************************************************)
EXTENDS Assignments, FiniteSetsExt

CONSTANTS Jobs,      \* contexts of builds
          Lines,     \* what may be typed, and the end of the input
          MaxLines   \* a bound on the lines read

VARIABLES job, ctx, line, pc, lines, out

replvars == <<job, ctx, line, pc, lines, out>>

EndOfInput == "end of input"

-----------------------------------------------------------------------------
(* A context from the variables of a process                               *)

\* strings.Split(text, ",") of a text that is not empty
Split(text) ==
    LET commas == {i \in 1..Len(text) : SubSeq(text, i, i) = ","}
                      \cup {0, Len(text) + 1}
        start(k) == CHOOSE i \in commas :
                        Cardinality({j \in commas : j < i}) = k - 1
    IN  [k \in 1..(Cardinality(commas) - 1) |->
            SubSeq(text, start(k) + 1, start(k + 1) - 1)]

StringEnv(env, k) == IF k \in DOMAIN env THEN Str(env[k]) ELSE Null

\* MUTANT of PullRequestEnvId: a build without a pull request has one.
PullRequestEnvIdAsGiven(env) == StringEnv(env, "BUILDKITE_PULL_REQUEST")

PullRequestEnvId(env) ==
    LET id == StringEnv(env, "BUILDKITE_PULL_REQUEST")
    IN  IF id.v = "false" THEN Null ELSE id

Parts(text) == [k \in DOMAIN Split(text) |-> Str(Split(text)[k])]

PullRequestLabelsEnv(env) ==
    LET text == StringEnv(env, "BUILDKITE_PULL_REQUEST_LABELS")
    IN  CASE text = Null -> Null
          [] text = Str("") -> Array(<<>>)
          [] OTHER -> Array(Parts(text.v))

SourceEnv(env) == IF "BUILDKITE_GITHUB_EVENT" \in DOMAIN env
                  THEN Str("webhook") ELSE Null

BoolEnv(env, k) == IF StringEnv(env, k) \in {Null, Str("")} THEN Null
                   ELSE Bool(env[k] = "true")

Numerals == {"0", "1", "2", "3", "4", "5", "6", "7", "8", "9"}

\* strconv.Atoi: a sign and digits, without the zeros they start with.  A
\* number that does not fit an int is not among the texts.
Digits(text) == IF SubSeq(text, 1, 1) \in {"+", "-"} THEN SubSeq(text, 2, Len(text))
                ELSE text

IsNumber(text) == /\ Digits(text) # ""
                  /\ \A i \in 1..Len(Digits(text)) :
                         SubSeq(Digits(text), i, i) \in Numerals

Significant(digits) ==
    LET from == {i \in 1..Len(digits) : SubSeq(digits, i, i) # "0"}
    IN  IF from = {} THEN "0" ELSE SubSeq(digits, Min(from), Len(digits))

Atoi(text) == LET n == Significant(Digits(text))
              IN  IF SubSeq(text, 1, 1) = "-" /\ n # "0" THEN "-" \o n ELSE n

\* A text that is no number is dropped.
IntEnv(env, k) ==
    LET text == StringEnv(env, k)
    IN  IF text \notin {Null, Str("")} /\ IsNumber(text.v)
        THEN Atom("INTEGER", Atoi(text.v)) ELSE Null

GitDiffBaseEnv(env) == StringEnv(env, "BUILDKITE_GIT_DIFF_BASE")
BaseCommitEnv(env)  == StringEnv(env, "BUILDKITE_MERGE_QUEUE_BASE_COMMIT")

\* mergeQueueEnv: without a base of its own, the base of the diff is taken.
BaseBranchEnv(env) ==
    LET base == StringEnv(env, "BUILDKITE_MERGE_QUEUE_BASE_BRANCH")
    IN  IF base = Null /\ BaseCommitEnv(env) = Null THEN GitDiffBaseEnv(env)
        ELSE base

\* MUTANT of UseBaseCommitEnv: the diff is always against the branch.
UseBaseCommitEnvNever(env) == Null

UseBaseCommitEnv(env) ==
    IF GitDiffBaseEnv(env) = Null \/ BaseCommitEnv(env) = Null THEN Null
    ELSE Bool(GitDiffBaseEnv(env) = BaseCommitEnv(env))

NumberEnvNames == {"BUILDKITE_TRIGGERED_FROM_BUILD_NUMBER",
                   "BUILDKITE_REBUILT_FROM_BUILD_NUMBER"}

\* The names whose text is a field of the context as it is.
FieldOf == [k \in (DOMAIN OptionalEnv \cup DOMAIN BlankableEnv)
                      \ {"BUILDKITE_MERGE_QUEUE_BASE_BRANCH"} |->
               IF k \in DOMAIN OptionalEnv THEN OptionalEnv[k]
               ELSE BlankableEnv[k]]

\* The fields that are worked out.
ComputedFields == {"build.pull_request.id", "build.pull_request.labels",
                   "build.source", "build.pull_request.using_merge_refspec",
                   "build.merge_queue.active", "build.merge_queue.base_branch",
                   "pipeline.use_base_commit_for_diff"}

FieldNames == {FieldOf[k] : k \in DOMAIN FieldOf} \cup ComputedFields

NameOf(f) == CHOOSE k \in {k \in DOMAIN FieldOf : FieldOf[k] = f} : TRUE

FieldFrom(env, f) ==
    CASE f = "build.pull_request.id"     -> PullRequestEnvId(env)
      [] f = "build.pull_request.labels" -> PullRequestLabelsEnv(env)
      [] f = "build.source"              -> SourceEnv(env)
      [] f = "build.pull_request.using_merge_refspec" ->
             BoolEnv(env, "BUILDKITE_PULL_REQUEST_USING_MERGE_REFSPEC")
      [] f = "build.merge_queue.active" -> Bool(GitDiffBaseEnv(env) # Null)
      [] f = "build.merge_queue.base_branch" -> BaseBranchEnv(env)
      [] f = "pipeline.use_base_commit_for_diff" -> UseBaseCommitEnv(env)
      [] OTHER -> IF NameOf(f) \in NumberEnvNames THEN IntEnv(env, NameOf(f))
                  ELSE StringEnv(env, NameOf(f))

ContextFromEnv(env) ==
    LET given == {f \in FieldNames : FieldFrom(env, f) # Null}
    IN  [fields |-> [f \in given |-> FieldFrom(env, f)],
         buildEnv |-> env, projectEnv |-> <<>>]

\* The names that builtinEnv gives values to.
BuiltinNames == DOMAIN OptionalEnv \cup DOMAIN BlankableEnv \cup
    {"BUILDKITE_PULL_REQUEST", "BUILDKITE_PULL_REQUEST_LABELS",
     "BUILDKITE_PULL_REQUEST_USING_MERGE_REFSPEC", "BUILDKITE_GIT_DIFF_BASE"}

\* The variables that are texts of the environment.
RecoveredVariables == StringVariables \cap
    ({FieldOf[k] : k \in DOMAIN FieldOf} \cup
     {"build.pull_request.id", "build.merge_queue.base_branch"})

\* No name of an environment has the dot of a variable's name; strings.Join
\* undoes strings.Split.
ASSUME ProcessAssumption ==
    /\ BuiltinNames \subseteq EnvNames
    /\ EnvNames \cap Variables = {}
    /\ \A c \in Jobs : /\ (DOMAIN c.buildEnv \cup DOMAIN c.projectEnv) \cap Variables = {}
                       /\ LabelsEnv(c) # "" => Joined(Parts(LabelsEnv(c))) = LabelsEnv(c)

\* The fields of a context are typed: texts are texts, and the number of a
\* build is printed in the digits strconv.Itoa gives it.
ASSUME JobsAssumption ==
    \A c \in Jobs :
        /\ \A f \in RecoveredVariables : Field(c, f) \in {Null, Str(Field(c, f).v)}
        /\ \A k \in NumberEnvNames :
               LET n == Field(c, BlankableEnv[k])
               IN  n = Null \/ (n.v # "" /\ IsNumber(n.v) /\ Atoi(n.v) = n.v)

-----------------------------------------------------------------------------
(* The loop                                                                *)

NoContext == [fields |-> <<>>, buildEnv |-> <<>>, projectEnv |-> <<>>]

Init == /\ job \in Jobs
        /\ ctx = NoContext
        /\ line = "" /\ pc = "start" /\ lines = 0 /\ out = <<>>

Start == /\ pc = "start"
         /\ ctx' = ContextFromEnv(MergedEnv(job))
         /\ pc' = "prompt"
         /\ UNCHANGED <<job, line, lines, out>>

ReadLine(text) ==
    /\ pc = "prompt"
    /\ text # EndOfInput => lines < MaxLines
    /\ line' = text
    /\ lines' = IF text = EndOfInput THEN lines ELSE lines + 1
    /\ pc' = IF text \in {EndOfInput, "quit", "exit"} THEN "stopped"
             ELSE "evaluate"
    /\ UNCHANGED <<job, ctx, out>>

\* What a line evaluates to: a value, or an error that ends nothing.
ValueOf(c, text) ==
    IF text \in EnvNames THEN NullableEnvFunction(MergedEnv(c), <<Str(text)>>)
    ELSE IF text \in Variables THEN Value(c, text) ELSE Error("syntax")

EvaluateLine == /\ pc = "evaluate"
                /\ out' = Append(out, ValueOf(ctx, line))
                /\ pc' = "prompt"
                /\ UNCHANGED <<job, ctx, line, lines>>

Next == Start \/ (\E text \in Lines : ReadLine(text)) \/ EvaluateLine

Spec == Init /\ [][Next]_replvars

-----------------------------------------------------------------------------
(* Properties                                                              *)

\* A build whose merge queue is not active, and has a base branch and a base
\* commit: the command takes its blank diff base for that of an active queue
\* that compares against the branch.
LosesTheDiffBase(c) ==
    /\ Field(c, "build.merge_queue.active") # True
    /\ TextOrBlank(Field(c, "build.merge_queue.base_branch")) # ""
    /\ TextOrBlank(Field(c, "build.merge_queue.base_commit")) # ""

\* A line that asks for a variable the build gave to its jobs is answered as
\* the build's own conditions would be: the command reads back what builtinEnv
\* wrote, and merges it with the rest of its process in the same order.  The
\* one answer it gets wrong is the diff base of a build that loses it.
AnswersAsTheBuild ==
    /\ pc = "prompt" /\ out # <<>> /\ line \in DOMAIN MergedEnv(job)
    /\ ~(line = "BUILDKITE_GIT_DIFF_BASE" /\ LosesTheDiffBase(job))
    => out[Len(out)] = ValueOf(job, line)

\* What a test says of conditions, and here of the command that the same job
\* runs: "git diff base is blank outside merge queue builds"
\* (context_test.go:787), the active flag gating BUILDKITE_GIT_DIFF_BASE
\* "independently of the base values" (context.go:104).
DiffBaseIsBlankOutsideMergeQueues ==
    /\ pc = "prompt" /\ out # <<>> /\ line = "BUILDKITE_GIT_DIFF_BASE"
    /\ Field(job, "build.merge_queue.active") # True
    => out[Len(out)] = Str("")

\* The caller of the build set the name under which a variable is exported,
\* which reads as the variable when the build has no value for it.
SetByTheCaller(c, x) ==
    \E k \in DOMAIN OptionalEnv \cap (DOMAIN c.buildEnv \cup DOMAIN c.projectEnv) :
        OptionalEnv[k] = x

\* The variables that are read back from the environment are those of the
\* build, but for a missing one that now is empty, an empty one that is missing
\* and the pull request "false".
RecoversTheVariables ==
    /\ pc = "prompt" /\ out # <<>>
    /\ line \in Variables \cap RecoveredVariables
    /\ ~SetByTheCaller(job, line)
    => LET answer == out[Len(out)]
           meant  == ValueOf(job, line)
       IN  \/ answer = meant
           \/ answer = Str("") /\ meant = Null
           \/ answer = Null /\ meant = Str("")
           \/ answer = Null /\ meant = Str("false") /\ line = "build.pull_request.id"
=============================================================================
