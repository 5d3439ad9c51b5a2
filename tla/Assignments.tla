----------------------------- MODULE Assignments -----------------------------
(***************************************************************************)
(* The assignment table of assignments.go: the variables an expression may *)
(* name, the static type of each and the value it takes from a context.    *)
(* An instance keeps the variables it needs (the constant Variables).      *)
(***************************************************************************)
EXTENDS Environment

CONSTANTS Variables,    \* the variables of the instance
          BlankStrings  \* the texts that are empty or only white space

\* A type is a kind and, for an enumeration, the set of its values.
Type(kind) == [kind |-> kind, enum |-> {}]
Enum(vs)   == [kind |-> "string", enum |-> vs]

\* kindUnknown, which the checker returns only next to an error.
Unknown == Type("unknown")

EnumVariables == {"build.state", "build.blocked_state", "build.source",
                  "step.type", "step.state", "step.outcome"}

EnumValues(x) ==
    CASE x = "build.state" ->
             {"creating", "started", "running", "scheduled", "blocked",
              "passed", "failing", "failed", "canceling", "canceled",
              "skipped", "not_run"}
      [] x = "build.blocked_state" -> {"failed", "passed", "running"}
      [] x = "build.source" -> {"api", "ui", "webhook", "trigger_job",
                                "schedule", "pipeline_trigger"}
      [] x = "step.type" -> {"command", "wait", "input", "trigger", "group"}
      [] x = "step.state" ->
             {"ignored", "waiting_for_dependencies", "ready",
              "waiting_for_input", "running", "failing", "canceled",
              "finished"}
      [] x = "step.outcome" -> {"neutral", "passed", "soft_failed",
                                "hard_failed", "errored"}

BoolVariables ==
    {"build.fixed", "build.creator.verified", "build.pull_request.draft",
     "build.pull_request.repository.fork", "pipeline.started_passing",
     "pipeline.started_failing", "pipeline.next_finished_build_exists"}

NumberVariables == {"build.number"}

ArrayVariables == {"build.creator.teams", "build.author.teams",
                   "build.pull_request.labels"}

\* Strings that read as null when they are blank.
PresenceVariables ==
    {"build.tag", "build.message", "build.author.name", "build.author.email",
     "pipeline.default_branch", "pipeline.repository"}

StringVariables == PresenceVariables \cup
    {"build.id", "build.source_event", "build.source_action", "build.branch",
     "build.commit", "build.creator.id", "build.creator.name",
     "build.creator.email", "build.author.id", "build.scm.author.name",
     "build.scm.author.email", "build.scm.committer.name",
     "build.scm.committer.email", "build.pull_request.id",
     "build.pull_request.base_branch", "build.pull_request.label",
     "build.pull_request.repository", "build.merge_queue.base_branch",
     "build.merge_queue.base_commit", "pipeline.id", "pipeline.slug",
     "organization.id", "organization.slug",
     "step.id", "step.key", "step.label"}

StepVariables == {"step.id", "step.key", "step.type", "step.label",
                  "step.state", "step.outcome"}

AllVariables == EnumVariables \cup BoolVariables \cup NumberVariables
                  \cup ArrayVariables \cup StringVariables

ASSUME VariablesAssumption == Variables \subseteq AllVariables

VariableType(x) == CASE x \in EnumVariables        -> Enum(EnumValues(x))
                     [] x \in BoolVariables        -> Type("boolean")
                     [] x \in NumberVariables      -> Type("number")
                     [] x \in ArrayVariables       -> Type("array")
                     [] OTHER                      -> Type("string")

\* The event and the action of a build exist only when a webhook started it;
\* the build's environment stands in for a value the context does not give.
FromWebhook(ctx, f, envName) ==
    IF Field(ctx, "build.source").v # "webhook" THEN Null
    ELSE IF f \in DOMAIN ctx.fields THEN ctx.fields[f]
    ELSE IF envName \in DOMAIN ctx.buildEnv THEN Str(ctx.buildEnv[envName])
    ELSE Null

SourceEvent(ctx) ==
    FromWebhook(ctx, "build.source_event", "BUILDKITE_GITHUB_EVENT")

SourceAction(ctx) ==
    FromWebhook(ctx, "build.source_action", "BUILDKITE_GITHUB_ACTION")

PullRequestLabel(ctx) == IF SourceEvent(ctx) = Str("pull_request")
                         THEN Field(ctx, "build.pull_request.label") ELSE Null

PresenceStringValue(o) == IF o.v \in BlankStrings THEN Null ELSE o

Value(ctx, x) ==
    CASE x = "build.source_event"       -> SourceEvent(ctx)
      [] x = "build.source_action"      -> SourceAction(ctx)
      [] x = "build.pull_request.label" -> PullRequestLabel(ctx)
      [] x \in PresenceVariables        -> PresenceStringValue(Field(ctx, x))
      [] OTHER                          -> Field(ctx, x)

\* The entry points whose table includes the step's variables.
StepAllowed(entryPoint) ==
    entryPoint \in {"build_condition_with_step", "step_notification"}

Assigned(entryPoint) ==
    {x \in Variables : x \in StepVariables => StepAllowed(entryPoint)}

FlatAssignments(ctx, entryPoint) ==
    [x \in Assigned(entryPoint) |-> Value(ctx, x)]
=============================================================================
