----------------------------- MODULE Environment -----------------------------
(***************************************************************************)
(* The environment that env(), build.env() and shell expansions read.      *)
(*                                                                         *)
(* A context ctx is what the caller passes in conditional.Context:         *)
(*   ctx.fields      the values that are not nil, by the name under which  *)
(*                   the assignment table exposes them (a few have no      *)
(*                   assignment and are named after the Go field)          *)
(*   ctx.buildEnv    BuildEnv, a function from names to texts              *)
(*   ctx.projectEnv  ProjectEnv                                            *)
(***************************************************************************)
EXTENDS Object

CONSTANTS EnvNames,       \* the valid environment variable names in use
          BuildkiteNames, \* those that start with BUILDKITE_
          SupportedNames  \* those of the server's static allowlist

ASSUME NamesAssumption == /\ BuildkiteNames \subseteq EnvNames
                          /\ SupportedNames \subseteq BuildkiteNames

\* MUTANT of RuntimeSupportedNames: the list of the runtime has only what it
\* adds to the other.
RuntimeSupportedNamesAlone == {"BUILDKITE_PULL_REQUEST_LABELS"}

RuntimeSupportedNames == SupportedNames \cup {"BUILDKITE_PULL_REQUEST_LABELS"}

ValidEnvName(key) == key \in EnvNames

UnsupportedBuildkiteEnv(key) == key \in BuildkiteNames \ SupportedNames

UnsupportedRuntimeBuildkiteEnv(key) ==
    key \in BuildkiteNames \ RuntimeSupportedNames

\* A nil pointer in the context is a null at runtime.
Field(ctx, f) == IF f \in DOMAIN ctx.fields THEN ctx.fields[f] ELSE Null

\* Present only when the context has a value.
OptionalEnv ==
    [BUILDKITE_BRANCH            |-> "build.branch",
     BUILDKITE_COMMIT            |-> "build.commit",
     BUILDKITE_REPO              |-> "pipeline.repository",
     BUILDKITE_PIPELINE_SLUG     |-> "pipeline.slug",
     BUILDKITE_PIPELINE_NAME     |-> "pipeline.name",
     BUILDKITE_PIPELINE_ID       |-> "pipeline.id",
     BUILDKITE_ORGANIZATION_SLUG |-> "organization.slug"]

\* Always present, and empty when the context has no value.
BlankableEnv ==
    [BUILDKITE_TAG                      |-> "build.tag",
     BUILDKITE_MESSAGE                  |-> "build.message",
     BUILDKITE_PULL_REQUEST_BASE_BRANCH |-> "build.pull_request.base_branch",
     BUILDKITE_PULL_REQUEST_REPO        |-> "build.pull_request.repository",
     BUILDKITE_MERGE_QUEUE_BASE_BRANCH  |-> "build.merge_queue.base_branch",
     BUILDKITE_MERGE_QUEUE_BASE_COMMIT  |-> "build.merge_queue.base_commit",
     BUILDKITE_TRIGGERED_FROM_BUILD_ID  |-> "build.triggered_from.build_id",
     BUILDKITE_TRIGGERED_FROM_BUILD_NUMBER
         |-> "build.triggered_from.build_number",
     BUILDKITE_TRIGGERED_FROM_BUILD_PIPELINE_SLUG
         |-> "build.triggered_from.pipeline_slug",
     BUILDKITE_TRIGGERED_FROM_BUILD_JOB_ID |-> "build.triggered_from.job_id",
     BUILDKITE_REBUILT_FROM_BUILD_ID     |-> "build.rebuilt_from.build_id",
     BUILDKITE_REBUILT_FROM_BUILD_NUMBER |-> "build.rebuilt_from.build_number"]

TextOrBlank(o) == IF o = Null THEN "" ELSE o.v

PullRequestEnv(ctx) ==
    LET id == Field(ctx, "build.pull_request.id")
    IN  IF TextOrBlank(id) = "" THEN "false" ELSE id.v

\* strings.Join(texts, ",")
Joined(es) ==
    LET join[n \in 1..Len(es)] == IF n = 1 THEN es[1].v
                                  ELSE join[n - 1] \o "," \o es[n].v
    IN  IF es = <<>> THEN "" ELSE join[Len(es)]

LabelsEnv(ctx) == Joined(Field(ctx, "build.pull_request.labels").elems)

MergeRefspecEnv(ctx) ==
    IF Field(ctx, "build.pull_request.using_merge_refspec") = True
    THEN "true" ELSE ""

GitDiffBase(ctx) ==
    CASE Field(ctx, "build.merge_queue.active") # True -> ""
      [] /\ Field(ctx, "build.merge_queue.active") = True
         /\ Field(ctx, "pipeline.use_base_commit_for_diff") = True ->
             TextOrBlank(Field(ctx, "build.merge_queue.base_commit"))
      [] OTHER -> TextOrBlank(Field(ctx, "build.merge_queue.base_branch"))

ComputedEnv(ctx) ==
    [BUILDKITE_PULL_REQUEST                     |-> PullRequestEnv(ctx),
     BUILDKITE_PULL_REQUEST_LABELS              |-> LabelsEnv(ctx),
     BUILDKITE_PULL_REQUEST_USING_MERGE_REFSPEC |-> MergeRefspecEnv(ctx),
     BUILDKITE_GIT_DIFF_BASE                    |-> GitDiffBase(ctx)]

\* Restricted to the names in use, so that small instances stay small.
BuiltinEnv(ctx) ==
    LET optional == {k \in DOMAIN OptionalEnv :
                         Field(ctx, OptionalEnv[k]) # Null}
        names == optional \cup DOMAIN BlankableEnv \cup DOMAIN ComputedEnv(ctx)
    IN  [k \in names \cap EnvNames |->
            CASE k \in DOMAIN OptionalEnv -> Field(ctx, OptionalEnv[k]).v
              [] k \in DOMAIN BlankableEnv ->
                     TextOrBlank(Field(ctx, BlankableEnv[k]))
              [] OTHER -> ComputedEnv(ctx)[k]]

\* A caller's value for an unsupported BUILDKITE_ name is dropped.
UserNames(env) == {k \in DOMAIN env : ~UnsupportedBuildkiteEnv(k)}

\* Built-in values override the build's, which override the project's.
MergedEnv(ctx) ==
    LET builtin == BuiltinEnv(ctx)
        build   == UserNames(ctx.buildEnv)
        project == UserNames(ctx.projectEnv)
    IN  [k \in DOMAIN builtin \cup build \cup project |->
            CASE k \in DOMAIN builtin         -> builtin[k]
              [] k \in build \ DOMAIN builtin -> ctx.buildEnv[k]
              [] OTHER                        -> ctx.projectEnv[k]]

RefusesEnvNameArg(args) ==
    \/ Len(args) # 1
    \/ args[1].kind # "STRING"
    \/ args[1].v = ""
    \/ UnsupportedRuntimeBuildkiteEnv(args[1].v)

\* env(): a variable that is missing reads as the empty string ...
EnvFunction(env, args) ==
    IF RefusesEnvNameArg(args) THEN Error("env")
    ELSE IF args[1].v \in DOMAIN env THEN Str(env[args[1].v]) ELSE Str("")

\* ... and build.env(): as null.
NullableEnvFunction(env, args) ==
    IF RefusesEnvNameArg(args) THEN Error("env")
    ELSE IF args[1].v \in DOMAIN env THEN Str(env[args[1].v]) ELSE Null
=============================================================================
