------------------------------- MODULE MCRepl -------------------------------
(***************************************************************************)
(* Builds whose pull request, merge queue and other values are missing,    *)
(* empty or given, a merge queue that is not active among them.            *)
(***************************************************************************)
EXTENDS Repl, TLC

\* The fields of a function to values, without those that are null.
Given(f) == LET given == {k \in DOMAIN f : f[k] # Null}
            IN  [k \in given |-> f[k]]

Texts(S) == {Str(s) : s \in S} \cup {Null}

Labels == {Null} \cup {Array([i \in DOMAIN l |-> Str(l[i])]) :
                           l \in {<<>>, <<"a">>, <<"a", "bc">>}}

PullRequests ==
    {("build.pull_request.id" :> id) @@ ("build.pull_request.labels" :> l)
       @@ ("build.pull_request.using_merge_refspec" :> r)
       @@ ("build.pull_request.base_branch" :> b) :
        id \in Texts({"", "5", "false"}), l \in Labels, r \in {Null, True, False},
        b \in Texts({"", "main"})}

MergeQueues ==
    {("build.merge_queue.active" :> a)
       @@ ("pipeline.use_base_commit_for_diff" :> u)
       @@ ("build.merge_queue.base_branch" :> b)
       @@ ("build.merge_queue.base_commit" :> c) :
        a \in {True, False, Null}, u \in {Null, True, False},
        b \in Texts({"", "main", "c1"}), c \in Texts({"", "c1"})}

Others ==
    {("build.branch" :> b) @@ ("build.tag" :> t)
       @@ ("build.triggered_from.build_number" :> n)
       @@ ("pipeline.slug" :> s) :
        b \in Texts({"", "main"}), t \in Texts({"", " ", "v1"}),
        n \in {Null} \cup {Atom("INTEGER", i) : i \in {"0", "42", "-7"}},
        s \in Texts({"demo"})}

Job(fields, own) ==
    [fields |-> Given(fields), buildEnv |-> own,
     projectEnv |-> ("FOO" :> "project")]

MCJobs == {Job(f, "FOO" :> "build") : f \in PullRequests \cup MergeQueues}
          \cup {Job(f, own) : f \in Others,
                    own \in {"BUILDKITE_SECRET" :> "x", "BUILDKITE_BRANCH" :> "caller"}}

MCEnvNames == DOMAIN OptionalEnv \cup DOMAIN BlankableEnv
    \cup {"BUILDKITE_PULL_REQUEST", "BUILDKITE_PULL_REQUEST_LABELS",
          "BUILDKITE_PULL_REQUEST_USING_MERGE_REFSPEC",
          "BUILDKITE_GIT_DIFF_BASE", "BUILDKITE_SECRET", "FOO"}

MCBuildkiteNames == MCEnvNames \ {"FOO"}

MCSupported == MCBuildkiteNames \ {"BUILDKITE_SECRET",
                                   "BUILDKITE_PULL_REQUEST_LABELS"}

MCVariables == {"build.branch", "build.tag", "build.pull_request.id",
                "build.pull_request.base_branch", "build.merge_queue.base_branch",
                "build.merge_queue.base_commit", "pipeline.slug",
                "pipeline.id", "build.source"}

MCLines == MCEnvNames \cup MCVariables \cup {"quit", "1 +", EndOfInput}
=============================================================================
