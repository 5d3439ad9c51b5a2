----------------------------- MODULE ReplProofs -----------------------------
(***************************************************************************)
(* Theorems about the command, for every context of a build: the context   *)
(* read back from the environment of a job gives the job's conditions the  *)
(* same environment, but for a diff base that is lost.                     *)
(***************************************************************************)
EXTENDS Repl, TLAPS, SequenceTheorems

-----------------------------------------------------------------------------
(* The two tables of names                                                 *)

LEMMA NamesOfTables ==
    /\ DOMAIN OptionalEnv = {"BUILDKITE_BRANCH", "BUILDKITE_COMMIT", "BUILDKITE_REPO",
                             "BUILDKITE_PIPELINE_SLUG", "BUILDKITE_PIPELINE_NAME",
                             "BUILDKITE_PIPELINE_ID", "BUILDKITE_ORGANIZATION_SLUG"}
    /\ DOMAIN BlankableEnv =
           {"BUILDKITE_TAG", "BUILDKITE_MESSAGE", "BUILDKITE_PULL_REQUEST_BASE_BRANCH",
            "BUILDKITE_PULL_REQUEST_REPO", "BUILDKITE_MERGE_QUEUE_BASE_BRANCH",
            "BUILDKITE_MERGE_QUEUE_BASE_COMMIT", "BUILDKITE_TRIGGERED_FROM_BUILD_ID",
            "BUILDKITE_TRIGGERED_FROM_BUILD_NUMBER",
            "BUILDKITE_TRIGGERED_FROM_BUILD_PIPELINE_SLUG",
            "BUILDKITE_TRIGGERED_FROM_BUILD_JOB_ID", "BUILDKITE_REBUILT_FROM_BUILD_ID",
            "BUILDKITE_REBUILT_FROM_BUILD_NUMBER"}
BY DEF OptionalEnv, BlankableEnv

ComputedNames == {"BUILDKITE_PULL_REQUEST", "BUILDKITE_PULL_REQUEST_LABELS",
                  "BUILDKITE_PULL_REQUEST_USING_MERGE_REFSPEC",
                  "BUILDKITE_GIT_DIFF_BASE"}

LEMMA ComputedDomain ==
    ASSUME NEW c
    PROVE  /\ DOMAIN ComputedEnv(c) = ComputedNames
           /\ ComputedEnv(c)["BUILDKITE_PULL_REQUEST"] = PullRequestEnv(c)
           /\ ComputedEnv(c)["BUILDKITE_PULL_REQUEST_LABELS"] = LabelsEnv(c)
           /\ ComputedEnv(c)["BUILDKITE_PULL_REQUEST_USING_MERGE_REFSPEC"]
                  = MergeRefspecEnv(c)
           /\ ComputedEnv(c)["BUILDKITE_GIT_DIFF_BASE"] = GitDiffBase(c)
BY DEF ComputedEnv, ComputedNames

LEMMA TablesAreDisjoint ==
    /\ DOMAIN OptionalEnv \cap DOMAIN BlankableEnv = {}
    /\ DOMAIN OptionalEnv \cap ComputedNames = {}
    /\ DOMAIN BlankableEnv \cap ComputedNames = {}
BY NamesOfTables DEF ComputedNames

LEMMA OptionalIsInjective ==
    \A k, l \in DOMAIN OptionalEnv : OptionalEnv[k] = OptionalEnv[l] => k = l
BY DEF OptionalEnv

LEMMA BlankableIsInjective ==
    \A k, l \in DOMAIN BlankableEnv : BlankableEnv[k] = BlankableEnv[l] => k = l
BY DEF BlankableEnv

LEMMA FieldsAreDisjoint ==
    \A k \in DOMAIN OptionalEnv, l \in DOMAIN BlankableEnv : OptionalEnv[k] # BlankableEnv[l]
BY DEF BlankableEnv, OptionalEnv

LEMMA FieldOfProperties ==
    /\ DOMAIN FieldOf = (DOMAIN OptionalEnv \cup DOMAIN BlankableEnv)
                            \ {"BUILDKITE_MERGE_QUEUE_BASE_BRANCH"}
    /\ \A k \in DOMAIN OptionalEnv : k \in DOMAIN FieldOf /\ FieldOf[k] = OptionalEnv[k]
    /\ \A k \in DOMAIN BlankableEnv \ {"BUILDKITE_MERGE_QUEUE_BASE_BRANCH"} :
           k \in DOMAIN FieldOf /\ FieldOf[k] = BlankableEnv[k]
    /\ \A k \in DOMAIN FieldOf : FieldOf[k] \notin ComputedFields
    /\ \A k, l \in DOMAIN FieldOf : FieldOf[k] = FieldOf[l] => k = l
<1>1. /\ DOMAIN FieldOf = (DOMAIN OptionalEnv \cup DOMAIN BlankableEnv)
                              \ {"BUILDKITE_MERGE_QUEUE_BASE_BRANCH"}
      /\ \A k \in DOMAIN FieldOf : FieldOf[k] = IF k \in DOMAIN OptionalEnv THEN OptionalEnv[k]
                                                ELSE BlankableEnv[k]
  BY Zenon DEF FieldOf
<1>2. "BUILDKITE_MERGE_QUEUE_BASE_BRANCH" \notin DOMAIN OptionalEnv
  BY NamesOfTables
<1>3. \A k \in DOMAIN OptionalEnv : OptionalEnv[k] \notin ComputedFields
  BY DEF OptionalEnv, ComputedFields
<1>4. \A k \in DOMAIN BlankableEnv \ {"BUILDKITE_MERGE_QUEUE_BASE_BRANCH"} :
          BlankableEnv[k] \notin ComputedFields
  BY DEF BlankableEnv, ComputedFields
<1>5. /\ \A k \in DOMAIN OptionalEnv : k \in DOMAIN FieldOf /\ FieldOf[k] = OptionalEnv[k]
      /\ \A k \in DOMAIN BlankableEnv \ {"BUILDKITE_MERGE_QUEUE_BASE_BRANCH"} :
             k \in DOMAIN FieldOf /\ FieldOf[k] = BlankableEnv[k]
  BY <1>1, <1>2, TablesAreDisjoint
<1>6. \A k, l \in DOMAIN FieldOf : FieldOf[k] = FieldOf[l] => k = l
  BY <1>1, <1>5, OptionalIsInjective, BlankableIsInjective, FieldsAreDisjoint, Zenon
<1>7. \A k \in DOMAIN FieldOf : FieldOf[k] \notin ComputedFields
  BY <1>1, <1>3, <1>4, <1>5, Zenon
<1> QED
  BY <1>1, <1>5, <1>6, <1>7, Zenon

-----------------------------------------------------------------------------
(* The context that is read back                                           *)

LEMMA ContextFields ==
    ASSUME NEW env
    PROVE  /\ ContextFromEnv(env).buildEnv = env
           /\ ContextFromEnv(env).projectEnv = <<>>
           /\ \A f \in FieldNames : Field(ContextFromEnv(env), f) = FieldFrom(env, f)
<1> DEFINE given == {f \in FieldNames : FieldFrom(env, f) # Null}
           c == ContextFromEnv(env)
<1>1. c = [fields |-> [f \in given |-> FieldFrom(env, f)],
           buildEnv |-> env, projectEnv |-> <<>>]
  BY Zenon DEF ContextFromEnv
<1> HIDE DEF c
<1>2. /\ c.buildEnv = env /\ c.projectEnv = <<>>
      /\ c.fields = [f \in given |-> FieldFrom(env, f)]
  BY <1>1
<1>3. \A f \in FieldNames : Field(c, f) = FieldFrom(env, f)
  BY <1>2, Zenon DEF Field
<1> QED
  BY <1>2, <1>3 DEF c

LEMMA SpecialFields ==
    ASSUME NEW env
    PROVE  LET c == ContextFromEnv(env)
           IN  /\ Field(c, "build.pull_request.id") = PullRequestEnvId(env)
               /\ Field(c, "build.pull_request.labels") = PullRequestLabelsEnv(env)
               /\ Field(c, "build.pull_request.using_merge_refspec") =
                      BoolEnv(env, "BUILDKITE_PULL_REQUEST_USING_MERGE_REFSPEC")
               /\ Field(c, "build.merge_queue.active") = Bool(GitDiffBaseEnv(env) # Null)
               /\ Field(c, "build.merge_queue.base_branch") = BaseBranchEnv(env)
               /\ Field(c, "pipeline.use_base_commit_for_diff") = UseBaseCommitEnv(env)
<1>1. ComputedFields \subseteq FieldNames
  BY DEF FieldNames
<1>2. \A f \in ComputedFields : Field(ContextFromEnv(env), f) = FieldFrom(env, f)
  BY <1>1, ContextFields
<1> DEFINE c == ContextFromEnv(env)
<1> HIDE DEF c
<1>3. Field(c, "build.pull_request.id") = PullRequestEnvId(env)
  BY <1>2, Zenon DEF ComputedFields, FieldFrom, c
<1>4. Field(c, "build.pull_request.labels") = PullRequestLabelsEnv(env)
  BY <1>2, Zenon DEF ComputedFields, FieldFrom, c
<1>5. Field(c, "build.pull_request.using_merge_refspec") =
          BoolEnv(env, "BUILDKITE_PULL_REQUEST_USING_MERGE_REFSPEC")
  BY <1>2, Zenon DEF ComputedFields, FieldFrom, c
<1>6. Field(c, "build.merge_queue.active") = Bool(GitDiffBaseEnv(env) # Null)
  BY <1>2, Zenon DEF ComputedFields, FieldFrom, c
<1>7. Field(c, "build.merge_queue.base_branch") = BaseBranchEnv(env)
  BY <1>2, Zenon DEF ComputedFields, FieldFrom, c
<1>8. Field(c, "pipeline.use_base_commit_for_diff") = UseBaseCommitEnv(env)
  BY <1>2, Zenon DEF ComputedFields, FieldFrom, c
<1> QED
  BY <1>3, <1>4, <1>5, <1>6, <1>7, <1>8, Zenon DEF c

LEMMA PlainFields ==
    ASSUME NEW env, NEW k \in DOMAIN FieldOf
    PROVE  Field(ContextFromEnv(env), FieldOf[k]) =
               IF k \in NumberEnvNames THEN IntEnv(env, k) ELSE StringEnv(env, k)
<1> DEFINE f == FieldOf[k]
<1>1. f \in FieldNames /\ f \notin ComputedFields
  BY FieldOfProperties DEF FieldNames
<1>2. NameOf(f) = k
  <2>1. {l \in DOMAIN FieldOf : FieldOf[l] = f} = {k}
    BY FieldOfProperties
  <2> QED
    BY <2>1 DEF NameOf
<1> HIDE DEF f
<1>3. FieldFrom(env, f) = IF NameOf(f) \in NumberEnvNames THEN IntEnv(env, NameOf(f))
                          ELSE StringEnv(env, NameOf(f))
  BY <1>1, Zenon DEF FieldFrom, ComputedFields
<1> QED
  BY <1>1, <1>2, <1>3, ContextFields, Zenon DEF f

-----------------------------------------------------------------------------
(* The environment of a context                                            *)

LEMMA BuiltinIs ==
    ASSUME NEW c, BuiltinNames \subseteq EnvNames
    PROVE  LET given == {k \in DOMAIN OptionalEnv : Field(c, OptionalEnv[k]) # Null}
               b     == BuiltinEnv(c)
           IN  /\ DOMAIN b = given \cup DOMAIN BlankableEnv \cup ComputedNames
               /\ \A k \in given : b[k] = Field(c, OptionalEnv[k]).v
               /\ \A k \in DOMAIN BlankableEnv : b[k] = TextOrBlank(Field(c, BlankableEnv[k]))
               /\ \A k \in ComputedNames : b[k] = ComputedEnv(c)[k]
<1> DEFINE given == {k \in DOMAIN OptionalEnv : Field(c, OptionalEnv[k]) # Null}
           names == given \cup DOMAIN BlankableEnv \cup ComputedNames
           b     == BuiltinEnv(c)
<1>1. names \cap EnvNames = names
  BY DEF BuiltinNames, ComputedNames
<1>2. b = [k \in names |->
              CASE k \in DOMAIN OptionalEnv -> Field(c, OptionalEnv[k]).v
                [] k \in DOMAIN BlankableEnv -> TextOrBlank(Field(c, BlankableEnv[k]))
                [] OTHER -> ComputedEnv(c)[k]]
  <2>1. {k \in DOMAIN OptionalEnv : Field(c, OptionalEnv[k]) # Null}
            \cup DOMAIN BlankableEnv \cup DOMAIN ComputedEnv(c) = names
    BY ComputedDomain
  <2> HIDE DEF given
  <2> QED
    BY <1>1, <2>1, Zenon DEF BuiltinEnv
<1> HIDE DEF b
<1>3. DOMAIN b = names
  BY <1>2
<1>4. \A k \in given : b[k] = Field(c, OptionalEnv[k]).v
  <2> TAKE k \in given
  <2>1. k \in names /\ k \in DOMAIN OptionalEnv /\ k \notin DOMAIN BlankableEnv
    BY TablesAreDisjoint
  <2> HIDE DEF given, names
  <2> QED
    BY <1>2, <2>1, Zenon
<1>5. \A k \in DOMAIN BlankableEnv : b[k] = TextOrBlank(Field(c, BlankableEnv[k]))
  <2> TAKE k \in DOMAIN BlankableEnv
  <2>1. k \in names /\ k \notin DOMAIN OptionalEnv
    BY TablesAreDisjoint
  <2> HIDE DEF given, names
  <2> QED
    BY <1>2, <2>1, Zenon
<1>6. \A k \in ComputedNames : b[k] = ComputedEnv(c)[k]
  <2> TAKE k \in ComputedNames
  <2>1. k \in names /\ k \notin DOMAIN OptionalEnv /\ k \notin DOMAIN BlankableEnv
    BY TablesAreDisjoint
  <2> HIDE DEF given, names
  <2> QED
    BY <1>2, <2>1, Zenon
<1> QED
  BY <1>3, <1>4, <1>5, <1>6 DEF b

LEMMA MergedIs ==
    ASSUME NEW c
    PROVE  LET b == BuiltinEnv(c)
               e == MergedEnv(c)
           IN  /\ DOMAIN e = DOMAIN b \cup UserNames(c.buildEnv) \cup UserNames(c.projectEnv)
               /\ \A k \in DOMAIN b : e[k] = b[k]
               /\ \A k \in UserNames(c.buildEnv) \ DOMAIN b : e[k] = c.buildEnv[k]
<1> DEFINE b       == BuiltinEnv(c)
           e       == MergedEnv(c)
           build   == UserNames(c.buildEnv)
           project == UserNames(c.projectEnv)
<1>1. e = [k \in DOMAIN b \cup build \cup project |->
              CASE k \in DOMAIN b         -> b[k]
                [] k \in build \ DOMAIN b -> c.buildEnv[k]
                [] OTHER                  -> c.projectEnv[k]]
  BY Zenon DEF MergedEnv
<1> HIDE DEF b, e, build, project
<1>2. DOMAIN e = DOMAIN b \cup build \cup project
  BY <1>1
<1>3. \A k \in DOMAIN b : e[k] = b[k]
  <2> TAKE k \in DOMAIN b
  <2>1. k \notin build \ DOMAIN b
    OBVIOUS
  <2> QED
    BY <1>1, <2>1, Zenon
<1>4. \A k \in build \ DOMAIN b : e[k] = c.buildEnv[k]
  <2> TAKE k \in build \ DOMAIN b
  <2>1. k \notin DOMAIN b /\ k \in DOMAIN b \cup build \cup project
    OBVIOUS
  <2> QED
    BY <1>1, <2>1, Zenon
<1> QED
  BY <1>2, <1>3, <1>4 DEF b, e, build, project

-----------------------------------------------------------------------------
(* The environment of the context that is read back                        *)

LEMMA TextsAreTexts ==
    /\ \A s : Str(s) # Null /\ Str(s).v = s /\ TextOrBlank(Str(s)) = s
    /\ TextOrBlank(Null) = ""
    /\ \A s, t : Str(s) = Str(t) => s = t
    /\ True # Null /\ False # Null /\ True # False
    /\ Null.elems = <<>>
BY DEF Str, Null, Atom, TextOrBlank, True, False

LEMMA AtomsAreValues ==
    ASSUME NEW x
    PROVE  TextOrBlank(Atom("INTEGER", x)) = x
<1>1. Atom("INTEGER", x).v = x /\ Atom("INTEGER", x).kind = "INTEGER"
  BY DEF Atom
<1>2. Null.kind = "NULL"
  BY DEF Null, Atom
<1>3. Atom("INTEGER", x) # Null
  BY <1>1, <1>2
<1> QED
  BY <1>1, <1>3, Zenon DEF TextOrBlank

\* What a name of the process is read as.
LEMMA StringEnvIs ==
    ASSUME NEW env, NEW k
    PROVE  /\ k \in DOMAIN env => StringEnv(env, k) = Str(env[k])
           /\ k \notin DOMAIN env => StringEnv(env, k) = Null
BY DEF StringEnv

LEMMA OptionalReadBack ==
    ASSUME NEW env, NEW k \in DOMAIN OptionalEnv
    PROVE  Field(ContextFromEnv(env), OptionalEnv[k]) = StringEnv(env, k)
<1>1. k \in DOMAIN FieldOf /\ FieldOf[k] = OptionalEnv[k]
  BY FieldOfProperties
<1>2. k \notin NumberEnvNames
  BY NamesOfTables DEF NumberEnvNames
<1> QED
  BY <1>1, <1>2, PlainFields

LEMMA BlankableReadBack ==
    ASSUME NEW env, NEW k \in DOMAIN BlankableEnv, k \in DOMAIN env,
           k \in NumberEnvNames =>
               env[k] = "" \/ (IsNumber(env[k]) /\ Atoi(env[k]) = env[k])
    PROVE  TextOrBlank(Field(ContextFromEnv(env), BlankableEnv[k])) = env[k]
<1> DEFINE c == ContextFromEnv(env)
<1>1. CASE k = "BUILDKITE_MERGE_QUEUE_BASE_BRANCH"
  <2>1. BlankableEnv[k] = "build.merge_queue.base_branch"
    BY <1>1 DEF BlankableEnv
  <2>2. Field(c, "build.merge_queue.base_branch") = BaseBranchEnv(env)
    BY SpecialFields
  <2>3. StringEnv(env, k) = Str(env[k])
    BY StringEnvIs
  <2>4. Str(env[k]) # Null
    BY TextsAreTexts
  <2>5. BaseBranchEnv(env) = Str(env[k])
    BY <1>1, <2>3, <2>4 DEF BaseBranchEnv
  <2> QED
    BY <2>1, <2>2, <2>5, TextsAreTexts
<1>2. CASE k # "BUILDKITE_MERGE_QUEUE_BASE_BRANCH"
  <2>1. k \in DOMAIN FieldOf /\ FieldOf[k] = BlankableEnv[k]
    BY <1>2, FieldOfProperties
  <2>2. Field(c, BlankableEnv[k]) = IF k \in NumberEnvNames THEN IntEnv(env, k)
                                    ELSE StringEnv(env, k)
    BY <2>1, PlainFields
  <2>3. StringEnv(env, k) = Str(env[k])
    BY StringEnvIs
  <2>4. k \in NumberEnvNames => TextOrBlank(IntEnv(env, k)) = env[k]
    <3> SUFFICES ASSUME k \in NumberEnvNames
                 PROVE  TextOrBlank(IntEnv(env, k)) = env[k]
      OBVIOUS
    <3>1. CASE env[k] = ""
      <4>1. IntEnv(env, k) = Null
        BY <2>3, <3>1 DEF IntEnv
      <4> QED
        BY <3>1, <4>1, TextsAreTexts
    <3>2. CASE env[k] # ""
      <4>1. StringEnv(env, k) \notin {Null, Str("")} /\ IsNumber(StringEnv(env, k).v)
        BY <2>3, <3>2, TextsAreTexts
      <4>2. Atoi(StringEnv(env, k).v) = env[k]
        BY <2>3, <3>2, TextsAreTexts
      <4>3. IntEnv(env, k) = Atom("INTEGER", env[k])
        BY <4>1, <4>2, Zenon DEF IntEnv
      <4> QED
        BY <4>3, AtomsAreValues
    <3> QED
      BY <3>1, <3>2
  <2> QED
    BY <2>2, <2>3, <2>4, TextsAreTexts
<1> QED
  BY <1>1, <1>2

\* The identifier of the pull request: "false" is a build without one.
LEMMA PullRequestReadBack ==
    ASSUME NEW c, NEW env, "BUILDKITE_PULL_REQUEST" \in DOMAIN env,
           env["BUILDKITE_PULL_REQUEST"] = PullRequestEnv(c)
    PROVE  PullRequestEnv(ContextFromEnv(env)) = PullRequestEnv(c)
<1> DEFINE id == PullRequestEnv(c)
           r  == ContextFromEnv(env)
<1>1. StringEnv(env, "BUILDKITE_PULL_REQUEST") = Str(id)
  BY StringEnvIs
<1>2. Field(r, "build.pull_request.id") = PullRequestEnvId(env)
  BY SpecialFields
<1>3. PullRequestEnvId(env) = IF id = "false" THEN Null ELSE Str(id)
  BY <1>1, TextsAreTexts, Zenon DEF PullRequestEnvId
<1>4. id # ""
  <2>1. "false" # ""
    OBVIOUS
  <2>2. TextOrBlank(Field(c, "build.pull_request.id")) # "" =>
            Field(c, "build.pull_request.id").v # ""
    BY TextsAreTexts, Zenon DEF TextOrBlank
  <2> QED
    BY <2>1, <2>2, Zenon DEF PullRequestEnv
<1> HIDE DEF id, r
<1>5. CASE id = "false"
  <2>1. Field(r, "build.pull_request.id") = Null
    BY <1>2, <1>3, <1>5, Zenon
  <2>2. PullRequestEnv(r) = "false"
    BY <2>1, TextsAreTexts, Zenon DEF PullRequestEnv
  <2> QED
    BY <2>2, <1>5, Zenon DEF id, r
<1>6. CASE id # "false"
  <2>1. Field(r, "build.pull_request.id") = Str(id)
    BY <1>2, <1>3, <1>6, Zenon
  <2>2. PullRequestEnv(r) = id
    BY <2>1, <1>4, TextsAreTexts, Zenon DEF PullRequestEnv
  <2> QED
    BY <2>2, Zenon DEF id, r
<1> QED
  BY <1>5, <1>6, Zenon

\* The labels, split at their commas and joined again.
LEMMA LabelsReadBack ==
    ASSUME NEW c, NEW env, "BUILDKITE_PULL_REQUEST_LABELS" \in DOMAIN env,
           env["BUILDKITE_PULL_REQUEST_LABELS"] = LabelsEnv(c),
           LabelsEnv(c) # "" => Joined(Parts(LabelsEnv(c))) = LabelsEnv(c)
    PROVE  LabelsEnv(ContextFromEnv(env)) = LabelsEnv(c)
<1> DEFINE text == LabelsEnv(c)
           r    == ContextFromEnv(env)
<1>1. StringEnv(env, "BUILDKITE_PULL_REQUEST_LABELS") = Str(text)
  BY StringEnvIs
<1>2. Field(r, "build.pull_request.labels") = PullRequestLabelsEnv(env)
  BY SpecialFields
<1>3. \A es : Array(es).elems = es
  BY DEF Array
<1> HIDE DEF text, r
<1>4. CASE text = ""
  <2>1. Str(text) # Null /\ Str(text) = Str("")
    BY <1>4, TextsAreTexts, Zenon
  <2>2. PullRequestLabelsEnv(env) = Array(<<>>)
    BY <1>1, <2>1, Zenon DEF PullRequestLabelsEnv
  <2>3. Joined(<<>>) = ""
    BY Zenon DEF Joined
  <2>4. LabelsEnv(r) = Joined(<<>>)
    BY <1>2, <1>3, <2>2, Zenon DEF LabelsEnv
  <2> QED
    BY <1>4, <2>3, <2>4, Zenon DEF text, r
<1>5. CASE text # ""
  <2>1. Str(text) # Null /\ Str(text) # Str("") /\ Str(text).v = text
    BY <1>5, TextsAreTexts, Zenon
  <2>2. PullRequestLabelsEnv(env) = Array(Parts(text))
    BY <1>1, <2>1, Zenon DEF PullRequestLabelsEnv
  <2>3. LabelsEnv(r) = Joined(Parts(text))
    BY <1>2, <1>3, <2>2, Zenon DEF LabelsEnv
  <2> QED
    BY <1>5, <2>3, Zenon DEF text, r
<1> QED
  BY <1>4, <1>5, Zenon

\* The merge refspec: only "true" is true.
LEMMA MergeRefspecReadBack ==
    ASSUME NEW c, NEW env, "BUILDKITE_PULL_REQUEST_USING_MERGE_REFSPEC" \in DOMAIN env,
           env["BUILDKITE_PULL_REQUEST_USING_MERGE_REFSPEC"] = MergeRefspecEnv(c)
    PROVE  MergeRefspecEnv(ContextFromEnv(env)) = MergeRefspecEnv(c)
<1> DEFINE k    == "BUILDKITE_PULL_REQUEST_USING_MERGE_REFSPEC"
           text == MergeRefspecEnv(c)
           r    == ContextFromEnv(env)
<1>1. StringEnv(env, k) = Str(text) /\ env[k] = text
  <2>1. env[k] = text /\ k \in DOMAIN env
    OBVIOUS
  <2> QED
    BY <2>1, StringEnvIs, Zenon
<1>2. Field(r, "build.pull_request.using_merge_refspec") = BoolEnv(env, k)
  BY SpecialFields
<1>3. text \in {"true", ""} /\ "true" # ""
  BY DEF MergeRefspecEnv
<1> HIDE DEF k, text, r
<1>4. CASE text = "true"
  <2>1. Str(text) # Null /\ Str(text) # Str("")
    BY <1>3, <1>4, TextsAreTexts, Zenon
  <2>2. BoolEnv(env, k) = True
    BY <1>1, <1>4, <2>1, Zenon DEF BoolEnv, Bool
  <2> QED
    BY <1>2, <1>4, <2>2, Zenon DEF MergeRefspecEnv, text, r
<1>5. CASE text = ""
  <2>1. BoolEnv(env, k) = Null
    BY <1>1, <1>5, Zenon DEF BoolEnv
  <2>2. Null # True
    BY TextsAreTexts
  <2>3. MergeRefspecEnv(r) = ""
    BY <1>2, <2>1, <2>2, Zenon DEF MergeRefspecEnv
  <2> QED
    BY <1>5, <2>3, Zenon DEF text, r
<1> QED
  BY <1>3, <1>4, <1>5, Zenon

\* The base of the diff is the queue's branch or its commit: of a merge queue
\* that is not active it is blank, and so is one of the two unless it is lost.
LEMMA DiffBaseReadBack ==
    ASSUME NEW c, NEW env,
           {"BUILDKITE_GIT_DIFF_BASE", "BUILDKITE_MERGE_QUEUE_BASE_BRANCH",
            "BUILDKITE_MERGE_QUEUE_BASE_COMMIT"} \subseteq DOMAIN env,
           env["BUILDKITE_GIT_DIFF_BASE"] = GitDiffBase(c),
           env["BUILDKITE_MERGE_QUEUE_BASE_BRANCH"] =
               TextOrBlank(Field(c, "build.merge_queue.base_branch")),
           env["BUILDKITE_MERGE_QUEUE_BASE_COMMIT"] =
               TextOrBlank(Field(c, "build.merge_queue.base_commit")),
           ~LosesTheDiffBase(c)
    PROVE  GitDiffBase(ContextFromEnv(env)) = GitDiffBase(c)
<1> DEFINE base   == GitDiffBase(c)
           branch == TextOrBlank(Field(c, "build.merge_queue.base_branch"))
           commit == TextOrBlank(Field(c, "build.merge_queue.base_commit"))
           r      == ContextFromEnv(env)
<1>1. /\ GitDiffBaseEnv(env) = Str(base) /\ BaseCommitEnv(env) = Str(commit)
      /\ StringEnv(env, "BUILDKITE_MERGE_QUEUE_BASE_BRANCH") = Str(branch)
  BY StringEnvIs DEF GitDiffBaseEnv, BaseCommitEnv
<1>2. base = commit \/ base = branch
  <2>1. CASE Field(c, "build.merge_queue.active") # True
    <3>1. base = ""
      BY <2>1, Zenon DEF GitDiffBase
    <3>2. branch = "" \/ commit = ""
      BY <2>1, Zenon DEF LosesTheDiffBase
    <3> QED
      BY <3>1, <3>2, Zenon
  <2>2. CASE Field(c, "build.merge_queue.active") = True
    BY <2>2, Zenon DEF GitDiffBase
  <2> QED
    BY <2>1, <2>2, Zenon
<1>3. /\ Field(r, "build.merge_queue.active") = Bool(GitDiffBaseEnv(env) # Null)
      /\ Field(r, "build.merge_queue.base_branch") = BaseBranchEnv(env)
      /\ Field(r, "pipeline.use_base_commit_for_diff") = UseBaseCommitEnv(env)
  BY SpecialFields
<1>4. Field(r, "build.merge_queue.base_commit") = Str(commit)
  <2>1. /\ "BUILDKITE_MERGE_QUEUE_BASE_COMMIT" \in DOMAIN BlankableEnv
        /\ BlankableEnv["BUILDKITE_MERGE_QUEUE_BASE_COMMIT"] = "build.merge_queue.base_commit"
        /\ "BUILDKITE_MERGE_QUEUE_BASE_COMMIT" # "BUILDKITE_MERGE_QUEUE_BASE_BRANCH"
        /\ "BUILDKITE_MERGE_QUEUE_BASE_COMMIT" \notin NumberEnvNames
    BY DEF BlankableEnv, NumberEnvNames
  <2>2. /\ "BUILDKITE_MERGE_QUEUE_BASE_COMMIT" \in DOMAIN FieldOf
        /\ FieldOf["BUILDKITE_MERGE_QUEUE_BASE_COMMIT"] = "build.merge_queue.base_commit"
    BY <2>1, FieldOfProperties
  <2>3. Field(r, "build.merge_queue.base_commit") =
            StringEnv(env, "BUILDKITE_MERGE_QUEUE_BASE_COMMIT")
    BY <2>1, <2>2, PlainFields
  <2> QED
    BY <1>1, <2>3, Zenon DEF BaseCommitEnv
<1> HIDE DEF base, branch, commit, r
<1>5. Field(r, "build.merge_queue.active") = True
  <2>1. GitDiffBaseEnv(env) # Null
    BY <1>1, TextsAreTexts, Zenon
  <2> QED
    BY <1>3, <2>1, Zenon DEF Bool
<1>6. Field(r, "build.merge_queue.base_branch") = Str(branch)
  <2>1. Str(branch) # Null
    BY TextsAreTexts
  <2> QED
    BY <1>1, <1>3, <2>1, Zenon DEF BaseBranchEnv
<1>7. Field(r, "pipeline.use_base_commit_for_diff") = Bool(base = commit)
  <2>1. Str(base) # Null /\ Str(commit) # Null
    BY TextsAreTexts
  <2>2. UseBaseCommitEnv(env) = Bool(Str(base) = Str(commit))
    BY <1>1, <2>1, Zenon DEF UseBaseCommitEnv
  <2>3. (Str(base) = Str(commit)) <=> (base = commit)
    BY TextsAreTexts, Zenon
  <2> QED
    BY <1>3, <2>2, <2>3, Zenon DEF Bool
<1>8. CASE base = commit
  <2>1. Field(r, "pipeline.use_base_commit_for_diff") = True
    BY <1>7, <1>8, Zenon DEF Bool
  <2>2. GitDiffBase(r) = TextOrBlank(Str(commit))
    BY <1>4, <1>5, <2>1, Zenon DEF GitDiffBase
  <2> QED
    BY <1>8, <2>2, TextsAreTexts, Zenon DEF base, r
<1>9. CASE base # commit
  <2>1. Field(r, "pipeline.use_base_commit_for_diff") # True
    BY <1>7, <1>9, TextsAreTexts, Zenon DEF Bool
  <2>2. GitDiffBase(r) = TextOrBlank(Str(branch))
    BY <1>5, <1>6, <2>1, Zenon DEF GitDiffBase
  <2>3. base = branch
    BY <1>2, <1>9
  <2> QED
    BY <2>2, <2>3, TextsAreTexts, Zenon DEF base, r
<1> QED
  BY <1>8, <1>9

-----------------------------------------------------------------------------
(* The variables of a job, read back and merged again                      *)

LEMMA BuiltinValues ==
    ASSUME NEW c \in Jobs
    PROVE  LET e == MergedEnv(c)
           IN  /\ DOMAIN BlankableEnv \cup ComputedNames \subseteq DOMAIN e
               /\ \A k \in DOMAIN BlankableEnv : e[k] = TextOrBlank(Field(c, BlankableEnv[k]))
               /\ \A k \in ComputedNames : e[k] = ComputedEnv(c)[k]
<1> DEFINE e == MergedEnv(c)
           b == BuiltinEnv(c)
<1>1. BuiltinNames \subseteq EnvNames
  BY ProcessAssumption
<1>2. /\ DOMAIN BlankableEnv \cup ComputedNames \subseteq DOMAIN b
      /\ \A k \in DOMAIN BlankableEnv : b[k] = TextOrBlank(Field(c, BlankableEnv[k]))
      /\ \A k \in ComputedNames : b[k] = ComputedEnv(c)[k]
  BY <1>1, BuiltinIs
<1>3. /\ DOMAIN b \subseteq DOMAIN e
      /\ \A k \in DOMAIN b : e[k] = b[k]
  BY MergedIs
<1> QED
  BY <1>2, <1>3

\* The build number is a number.
LEMMA NumbersAreNumbers ==
    ASSUME NEW c \in Jobs, NEW k \in NumberEnvNames
    PROVE  /\ k \in DOMAIN BlankableEnv
           /\ LET text == TextOrBlank(Field(c, BlankableEnv[k]))
              IN  text = "" \/ (IsNumber(text) /\ Atoi(text) = text)
<1>1. k \in DOMAIN BlankableEnv
  BY NamesOfTables DEF NumberEnvNames
<1> DEFINE n == Field(c, BlankableEnv[k])
<1>2. n = Null \/ (n.v # "" /\ IsNumber(n.v) /\ Atoi(n.v) = n.v)
  BY JobsAssumption
<1> HIDE DEF n
<1>3. \/ TextOrBlank(n) = ""
      \/ IsNumber(TextOrBlank(n)) /\ Atoi(TextOrBlank(n)) = TextOrBlank(n)
  BY <1>2, Zenon DEF TextOrBlank
<1> QED
  BY <1>1, <1>3 DEF n

\* Every variable of the job is one of the conditions of the command, with
\* the same text, but for a diff base that is lost.
LEMMA JobReadBack ==
    ASSUME NEW c \in Jobs, NEW k \in DOMAIN MergedEnv(c),
           ~(k = "BUILDKITE_GIT_DIFF_BASE" /\ LosesTheDiffBase(c))
    PROVE  LET r == ContextFromEnv(MergedEnv(c))
           IN  k \in DOMAIN MergedEnv(r) /\ MergedEnv(r)[k] = MergedEnv(c)[k]
<1> DEFINE e == MergedEnv(c)
           r == ContextFromEnv(e)
           d == BuiltinEnv(r)
<1>1. BuiltinNames \subseteq EnvNames
  BY ProcessAssumption
<1>2. /\ DOMAIN d = {l \in DOMAIN OptionalEnv : Field(r, OptionalEnv[l]) # Null}
                        \cup DOMAIN BlankableEnv \cup ComputedNames
      /\ \A l \in {l \in DOMAIN OptionalEnv : Field(r, OptionalEnv[l]) # Null} :
             d[l] = Field(r, OptionalEnv[l]).v
      /\ \A l \in DOMAIN BlankableEnv : d[l] = TextOrBlank(Field(r, BlankableEnv[l]))
      /\ \A l \in ComputedNames : d[l] = ComputedEnv(r)[l]
  BY <1>1, BuiltinIs
<1>3. /\ DOMAIN MergedEnv(r) = DOMAIN d \cup UserNames(e) \cup UserNames(r.projectEnv)
      /\ \A l \in DOMAIN d : MergedEnv(r)[l] = d[l]
      /\ \A l \in UserNames(e) \ DOMAIN d : MergedEnv(r)[l] = e[l]
  <2>1. r.buildEnv = e
    BY ContextFields
  <2> QED
    BY <2>1, MergedIs
<1>4. /\ DOMAIN BlankableEnv \cup ComputedNames \subseteq DOMAIN e
      /\ \A l \in DOMAIN BlankableEnv : e[l] = TextOrBlank(Field(c, BlankableEnv[l]))
      /\ \A l \in ComputedNames : e[l] = ComputedEnv(c)[l]
  BY BuiltinValues
<1>5. CASE k \in DOMAIN OptionalEnv
  <2>1. Field(r, OptionalEnv[k]) = Str(e[k])
    BY <1>5, OptionalReadBack, StringEnvIs
  <2>2. Str(e[k]) # Null /\ Str(e[k]).v = e[k]
    BY TextsAreTexts
  <2> HIDE DEF e, r, d
  <2>3. k \in DOMAIN d /\ d[k] = e[k]
    BY <1>2, <1>5, <2>1, <2>2
  <2> QED
    BY <1>3, <2>3 DEF e, r, d
<1>6. CASE k \in DOMAIN BlankableEnv
  <2>1. k \in NumberEnvNames => e[k] = "" \/ (IsNumber(e[k]) /\ Atoi(e[k]) = e[k])
    BY <1>4, <1>6, NumbersAreNumbers
  <2>2. TextOrBlank(Field(r, BlankableEnv[k])) = e[k]
    BY <1>6, <2>1, BlankableReadBack
  <2> HIDE DEF e, r, d
  <2>3. k \in DOMAIN d /\ d[k] = e[k]
    BY <1>2, <1>6, <2>2
  <2> QED
    BY <1>3, <2>3 DEF e, r, d
<1>7. CASE k \in ComputedNames
  <2>1. ComputedEnv(r)[k] = ComputedEnv(c)[k]
    <3>1. PullRequestEnv(r) = PullRequestEnv(c)
      <4>1. "BUILDKITE_PULL_REQUEST" \in ComputedNames
        BY DEF ComputedNames
      <4>2. /\ "BUILDKITE_PULL_REQUEST" \in DOMAIN e
            /\ e["BUILDKITE_PULL_REQUEST"] = PullRequestEnv(c)
        BY <1>4, <4>1, ComputedDomain
      <4> QED
        BY <4>2, PullRequestReadBack
    <3>2. LabelsEnv(r) = LabelsEnv(c)
      <4>1. "BUILDKITE_PULL_REQUEST_LABELS" \in ComputedNames
        BY DEF ComputedNames
      <4>2. /\ "BUILDKITE_PULL_REQUEST_LABELS" \in DOMAIN e
            /\ e["BUILDKITE_PULL_REQUEST_LABELS"] = LabelsEnv(c)
        BY <1>4, <4>1, ComputedDomain
      <4>3. LabelsEnv(c) # "" => Joined(Parts(LabelsEnv(c))) = LabelsEnv(c)
        BY ProcessAssumption
      <4> QED
        BY <4>2, <4>3, LabelsReadBack
    <3>3. MergeRefspecEnv(r) = MergeRefspecEnv(c)
      <4>1. "BUILDKITE_PULL_REQUEST_USING_MERGE_REFSPEC" \in ComputedNames
        BY DEF ComputedNames
      <4>2. /\ "BUILDKITE_PULL_REQUEST_USING_MERGE_REFSPEC" \in DOMAIN e
            /\ e["BUILDKITE_PULL_REQUEST_USING_MERGE_REFSPEC"] = MergeRefspecEnv(c)
        BY <1>4, <4>1, ComputedDomain
      <4> QED
        BY <4>2, MergeRefspecReadBack
    <3>4. ASSUME k = "BUILDKITE_GIT_DIFF_BASE"
          PROVE  GitDiffBase(r) = GitDiffBase(c)
      <4>1. /\ "BUILDKITE_GIT_DIFF_BASE" \in ComputedNames
            /\ {"BUILDKITE_MERGE_QUEUE_BASE_BRANCH",
                "BUILDKITE_MERGE_QUEUE_BASE_COMMIT"} \subseteq DOMAIN BlankableEnv
            /\ BlankableEnv["BUILDKITE_MERGE_QUEUE_BASE_BRANCH"]
                   = "build.merge_queue.base_branch"
            /\ BlankableEnv["BUILDKITE_MERGE_QUEUE_BASE_COMMIT"]
                   = "build.merge_queue.base_commit"
        BY DEF ComputedNames, BlankableEnv
      <4>2. /\ "BUILDKITE_GIT_DIFF_BASE" \in DOMAIN e
            /\ e["BUILDKITE_GIT_DIFF_BASE"] = GitDiffBase(c)
        BY <1>4, <4>1, ComputedDomain
      <4>3. /\ {"BUILDKITE_MERGE_QUEUE_BASE_BRANCH",
                "BUILDKITE_MERGE_QUEUE_BASE_COMMIT"} \subseteq DOMAIN e
            /\ e["BUILDKITE_MERGE_QUEUE_BASE_BRANCH"] =
                   TextOrBlank(Field(c, "build.merge_queue.base_branch"))
            /\ e["BUILDKITE_MERGE_QUEUE_BASE_COMMIT"] =
                   TextOrBlank(Field(c, "build.merge_queue.base_commit"))
        BY <1>4, <4>1
      <4> HIDE DEF e
      <4> QED
        BY <3>4, <4>2, <4>3, DiffBaseReadBack
    <3> HIDE DEF r
    <3> QED
      BY <1>7, <3>1, <3>2, <3>3, <3>4, ComputedDomain DEF ComputedNames
  <2> HIDE DEF e, r, d
  <2>2. k \in DOMAIN d /\ d[k] = e[k]
    BY <1>2, <1>4, <1>7, <2>1
  <2> QED
    BY <1>3, <2>2 DEF e, r, d
<1>8. CASE k \notin DOMAIN OptionalEnv \cup DOMAIN BlankableEnv \cup ComputedNames
  <2>1. k \in UserNames(c.buildEnv) \cup UserNames(c.projectEnv)
    BY <1>1, <1>8, BuiltinIs, MergedIs
  <2>2. ~UnsupportedBuildkiteEnv(k)
    BY <2>1 DEF UserNames
  <2>3. k \in UserNames(e)
    BY <2>2 DEF UserNames
  <2> HIDE DEF e, r, d
  <2>4. k \notin DOMAIN d
    BY <1>2, <1>8
  <2> QED
    BY <1>3, <2>3, <2>4 DEF e, r, d
<1> QED
  BY <1>5, <1>6, <1>7, <1>8

-----------------------------------------------------------------------------
(* The loop                                                                *)

\* A line that names a variable of the job, and no lost diff base, is answered
\* as the job's own conditions would be.
LEMMA SameAnswer ==
    ASSUME NEW c \in Jobs, NEW k \in DOMAIN MergedEnv(c),
           ~(k = "BUILDKITE_GIT_DIFF_BASE" /\ LosesTheDiffBase(c))
    PROVE  ValueOf(ContextFromEnv(MergedEnv(c)), k) = ValueOf(c, k)
<1> DEFINE r == ContextFromEnv(MergedEnv(c))
<1>1. k \in DOMAIN MergedEnv(r) /\ MergedEnv(r)[k] = MergedEnv(c)[k]
  BY JobReadBack
<1>2. k \in EnvNames \/ k \notin Variables
  <2>1. BuiltinNames \subseteq EnvNames /\ DOMAIN BuiltinEnv(c) \subseteq BuiltinNames
    BY ProcessAssumption, BuiltinIs DEF BuiltinNames, ComputedNames
  <2>2. (DOMAIN c.buildEnv \cup DOMAIN c.projectEnv) \cap Variables = {}
    BY ProcessAssumption
  <2> QED
    BY <2>1, <2>2, MergedIs DEF UserNames
<1> HIDE DEF r
<1>3. CASE k \in EnvNames
  <2>1. /\ <<Str(k)>>[1].v = k
        /\ k \in DOMAIN MergedEnv(r) <=> k \in DOMAIN MergedEnv(c)
    BY <1>1, TextsAreTexts
  <2>2. NullableEnvFunction(MergedEnv(r), <<Str(k)>>) =
        NullableEnvFunction(MergedEnv(c), <<Str(k)>>)
    BY <1>1, <2>1, Zenon DEF NullableEnvFunction
  <2> QED
    BY <1>3, <2>2, Zenon DEF ValueOf, r
<1>4. CASE k \notin EnvNames
  BY <1>2, <1>4, Zenon DEF ValueOf, r
<1> QED
  BY <1>3, <1>4

Answers == {ValueOf(ContextFromEnv(MergedEnv(j)), l) : j \in Jobs, l \in Lines}

\* The command works with one context to its end, and its last answer is
\* that to the last line.
LoopInv ==
    /\ job \in Jobs
    /\ pc \in {"start", "prompt", "evaluate", "stopped"}
    /\ pc # "start" => ctx = ContextFromEnv(MergedEnv(job))
    /\ pc = "start" => out = <<>>
    /\ pc = "evaluate" => line \in Lines
    /\ out \in Seq(Answers)
    /\ pc = "prompt" /\ out # <<>> => out[Len(out)] = ValueOf(ctx, line)

LEMMA LoopInitially == Init => LoopInv
<1> SUFFICES ASSUME Init
             PROVE  LoopInv
  OBVIOUS
<1>1. job \in Jobs /\ pc = "start" /\ out = <<>>
  BY DEF Init
<1>2. out \in Seq(Answers)
  BY <1>1
<1> QED
  BY <1>1, <1>2 DEF LoopInv

LEMMA LoopStep == LoopInv /\ [Next]_replvars => LoopInv'
<1> SUFFICES ASSUME LoopInv, [Next]_replvars
             PROVE  LoopInv'
  OBVIOUS
<1>1. CASE Start
  BY <1>1 DEF Start, LoopInv
<1>2. CASE \E text \in Lines : ReadLine(text)
  <2> PICK text \in Lines : ReadLine(text)
    BY <1>2
  <2> QED
    BY DEF ReadLine, LoopInv
<1>3. CASE EvaluateLine
  <2> DEFINE answer == ValueOf(ctx, line)
  <2>1. /\ pc = "evaluate" /\ pc' = "prompt"
        /\ out' = Append(out, answer)
        /\ UNCHANGED <<job, ctx, line, lines>>
    BY <1>3 DEF EvaluateLine
  <2>2. answer \in Answers
    BY <2>1 DEF LoopInv, Answers
  <2>3. answer' = answer
    BY <2>1
  <2> HIDE DEF answer
  <2>4. /\ out' \in Seq(Answers)
        /\ out'[Len(out')] = answer
    BY <2>1, <2>2 DEF LoopInv
  <2>5. out'[Len(out')] = ValueOf(ctx, line)'
    BY <2>3, <2>4 DEF answer
  <2> QED
    BY <2>1, <2>4, <2>5 DEF LoopInv
<1>4. CASE UNCHANGED replvars
  BY <1>4 DEF replvars, LoopInv
<1> QED
  BY <1>1, <1>2, <1>3, <1>4 DEF Next

\* A variable that a build gives to its jobs is answered, in the command, as
\* the build's own conditions would answer it: the context that main reads
\* from the process gives the merged environment of the build again, whatever
\* was missing, empty or made up in it.  The diff base is left out for the
\* builds that lose it, those with an inactive merge queue that has a base
\* branch and a base commit.
THEOREM TheCommandAnswersAsTheBuild == Spec => []AnswersAsTheBuild
<1>1. LoopInv => AnswersAsTheBuild
  BY SameAnswer DEF LoopInv, AnswersAsTheBuild
<1> QED
  BY LoopInitially, LoopStep, <1>1, PTL DEF Spec

-----------------------------------------------------------------------------
(* The variables that are read back                                        *)

\* What a field may have become: only "" and null are taken for each other,
\* and "false" is no pull request.
Recovered(x, meant, answer) ==
    \/ answer = meant
    \/ answer = Str("") /\ meant = Null
    \/ answer = Null /\ meant = Str("")
    \/ answer = Null /\ meant = Str("false") /\ x = "build.pull_request.id"

LEMMA BlankRecovered ==
    ASSUME NEW x, NEW f, f \in {Null, Str(f.v)}
    PROVE  Recovered(x, f, Str(TextOrBlank(f)))
<1>1. CASE f = Null
  <2>1. Str(TextOrBlank(f)) = Str("")
    BY <1>1, TextsAreTexts, Zenon
  <2> QED
    BY <1>1, <2>1, Zenon DEF Recovered
<1>2. CASE f # Null
  <2>1. f = Str(f.v)
    BY <1>2
  <2>2. Str(TextOrBlank(f)) = f
    BY <1>2, <2>1, Zenon DEF TextOrBlank
  <2> QED
    BY <2>2, Zenon DEF Recovered
<1> QED
  BY <1>1, <1>2

LEMMA FieldRecovered ==
    ASSUME NEW c \in Jobs, NEW x \in RecoveredVariables, ~SetByTheCaller(c, x)
    PROVE  Recovered(x, Field(c, x), Field(ContextFromEnv(MergedEnv(c)), x))
<1> DEFINE e == MergedEnv(c)
           r == ContextFromEnv(e)
           f == Field(c, x)
<1>1. f \in {Null, Str(f.v)}
  BY JobsAssumption
<1>2. BuiltinNames \subseteq EnvNames
  BY ProcessAssumption
<1>3. x \in StringVariables
  BY DEF RecoveredVariables
<1>4. CASE x = "build.pull_request.id"
  <2>1. /\ "BUILDKITE_PULL_REQUEST" \in DOMAIN e
        /\ e["BUILDKITE_PULL_REQUEST"] = PullRequestEnv(c)
    <3>1. "BUILDKITE_PULL_REQUEST" \in ComputedNames
      BY DEF ComputedNames
    <3> QED
      BY <3>1, BuiltinValues, ComputedDomain
  <2> DEFINE id == PullRequestEnv(c)
  <2>2. StringEnv(e, "BUILDKITE_PULL_REQUEST") = Str(id)
    BY <2>1, StringEnvIs
  <2>3. Field(r, x) = PullRequestEnvId(e)
    BY <1>4, SpecialFields
  <2>4. PullRequestEnvId(e) = IF id = "false" THEN Null ELSE Str(id)
    BY <2>2, TextsAreTexts, Zenon DEF PullRequestEnvId
  <2>5. id = IF TextOrBlank(f) = "" THEN "false" ELSE f.v
    BY <1>4, Zenon DEF PullRequestEnv
  <2> HIDE DEF id, f, r, e
  <2>6. CASE TextOrBlank(f) = ""
    <3>1. f = Null \/ f = Str("")
      BY <1>1, <2>6, TextsAreTexts DEF TextOrBlank
    <3>2. Field(r, x) = Null
      BY <2>3, <2>4, <2>5, <2>6
    <3> QED
      BY <3>1, <3>2, Zenon DEF Recovered, f, r, e
  <2>7. CASE TextOrBlank(f) # ""
    <3>1. f # Null
      BY <2>7, TextsAreTexts, Zenon
    <3>2. f = Str(f.v)
      BY <1>1, <3>1
    <3>3. id = f.v
      BY <2>5, <2>7
    <3>4. Field(r, x) = f \/ (Field(r, x) = Null /\ f = Str("false"))
      BY <2>3, <2>4, <3>2, <3>3, Zenon
    <3> QED
      BY <1>4, <3>4, Zenon DEF Recovered, f, r, e
  <2> QED
    BY <2>6, <2>7
<1>5. CASE x = "build.merge_queue.base_branch"
  <2> DEFINE k == "BUILDKITE_MERGE_QUEUE_BASE_BRANCH"
  <2>1. k \in DOMAIN BlankableEnv /\ BlankableEnv[k] = x
    BY <1>5 DEF BlankableEnv
  <2>2. k \in DOMAIN e /\ e[k] = TextOrBlank(f)
    BY <2>1, BuiltinValues
  <2>3. StringEnv(e, k) = Str(TextOrBlank(f))
    BY <2>2, StringEnvIs
  <2>4. Str(TextOrBlank(f)) # Null
    BY TextsAreTexts
  <2>5. Field(r, x) = BaseBranchEnv(e)
    BY <1>5, SpecialFields
  <2>6. Field(r, x) = Str(TextOrBlank(f))
    BY <2>3, <2>4, <2>5, Zenon DEF BaseBranchEnv
  <2> QED
    BY <1>1, <2>6, BlankRecovered
<1>6. CASE x \notin {"build.pull_request.id", "build.merge_queue.base_branch"}
  <2> PICK k \in DOMAIN FieldOf : FieldOf[k] = x
    BY <1>6 DEF RecoveredVariables
  <2>1. k \notin NumberEnvNames
    <3>1. \A l \in NumberEnvNames : BlankableEnv[l] \notin StringVariables
      BY DEF NumberEnvNames, BlankableEnv, StringVariables, PresenceVariables
    <3>2. \A l \in NumberEnvNames :
              l \in DOMAIN BlankableEnv \ {"BUILDKITE_MERGE_QUEUE_BASE_BRANCH"}
      BY NamesOfTables DEF NumberEnvNames
    <3> QED
      BY <1>3, <3>1, <3>2, FieldOfProperties
  <2>2. Field(r, x) = StringEnv(e, k)
    BY <2>1, PlainFields
  <2>3. CASE k \in DOMAIN BlankableEnv
    <3>1. BlankableEnv[k] = x
      <4>1. k # "BUILDKITE_MERGE_QUEUE_BASE_BRANCH"
        BY FieldOfProperties
      <4> QED
        BY <2>3, <4>1, FieldOfProperties
    <3>2. k \in DOMAIN e /\ e[k] = TextOrBlank(f)
      BY <2>3, <3>1, BuiltinValues
    <3>3. Field(r, x) = Str(TextOrBlank(f))
      BY <2>2, <3>2, StringEnvIs
    <3> QED
      BY <1>1, <3>3, BlankRecovered
  <2>4. CASE k \in DOMAIN OptionalEnv
    <3>1. OptionalEnv[k] = x
      BY <2>4, FieldOfProperties
    <3> DEFINE b == BuiltinEnv(c)
    <3>2. CASE f = Null
      <4>1. k \notin DOMAIN b
        BY <1>2, <2>4, <3>1, <3>2, BuiltinIs, TablesAreDisjoint
      <4>2. k \notin DOMAIN c.buildEnv \cup DOMAIN c.projectEnv
        BY <2>4, <3>1 DEF SetByTheCaller
      <4>3. k \notin DOMAIN e
        BY <4>1, <4>2, MergedIs DEF UserNames
      <4>4. Field(r, x) = Null
        BY <2>2, <4>3, StringEnvIs
      <4> QED
        BY <3>2, <4>4, Zenon DEF Recovered
    <3>3. CASE f # Null
      <4>1. k \in DOMAIN b /\ b[k] = f.v
        BY <1>2, <2>4, <3>1, <3>3, BuiltinIs
      <4>2. k \in DOMAIN e /\ e[k] = f.v
        BY <4>1, MergedIs
      <4>3. Field(r, x) = Str(f.v) /\ f = Str(f.v)
        BY <1>1, <2>2, <3>3, <4>2, StringEnvIs
      <4> HIDE DEF f, r, e
      <4>4. Field(r, x) = f
        BY <4>3, Zenon
      <4> QED
        BY <4>4, Zenon DEF Recovered, f, r, e
    <3> QED
      BY <3>2, <3>3
  <2> QED
    BY <2>3, <2>4, FieldOfProperties
<1> QED
  BY <1>4, <1>5, <1>6

\* A blank text that reads as null reads so in both.
LEMMA VariableRecovered ==
    ASSUME NEW c \in Jobs, NEW x \in Variables \cap RecoveredVariables,
           ~SetByTheCaller(c, x)
    PROVE  Recovered(x, ValueOf(c, x), ValueOf(ContextFromEnv(MergedEnv(c)), x))
<1> DEFINE r      == ContextFromEnv(MergedEnv(c))
           meant  == Field(c, x)
           answer == Field(r, x)
<1>1. Recovered(x, meant, answer)
  BY FieldRecovered
<1>2. x \notin EnvNames
  BY ProcessAssumption
<1>3. x \notin {"build.source_event", "build.source_action", "build.pull_request.label"}
  <2>1. \A k \in DOMAIN OptionalEnv :
            OptionalEnv[k] \notin {"build.source_event", "build.source_action",
                                   "build.pull_request.label"}
    BY DEF OptionalEnv
  <2>2. \A k \in DOMAIN BlankableEnv :
            BlankableEnv[k] \notin {"build.source_event", "build.source_action",
                                    "build.pull_request.label"}
    BY DEF BlankableEnv
  <2>3. x \in {FieldOf[k] : k \in DOMAIN FieldOf} \/
        x \in {"build.pull_request.id", "build.merge_queue.base_branch"}
    BY DEF RecoveredVariables
  <2>4. \A k \in DOMAIN FieldOf : \/ k \in DOMAIN OptionalEnv /\ FieldOf[k] = OptionalEnv[k]
                                  \/ k \in DOMAIN BlankableEnv /\ FieldOf[k] = BlankableEnv[k]
    BY FieldOfProperties
  <2> QED
    BY <2>1, <2>2, <2>3, <2>4
<1> HIDE DEF r, meant, answer
<1>4. /\ Value(c, x) = IF x \in PresenceVariables THEN PresenceStringValue(meant) ELSE meant
      /\ Value(r, x) = IF x \in PresenceVariables THEN PresenceStringValue(answer) ELSE answer
  BY <1>3, Zenon DEF Value, meant, answer
<1>5. ValueOf(c, x) = Value(c, x) /\ ValueOf(r, x) = Value(r, x)
  BY <1>2, Zenon DEF ValueOf
<1>6. CASE x \notin PresenceVariables
  BY <1>1, <1>4, <1>5, <1>6, Zenon DEF r
<1>7. CASE x \in PresenceVariables
  <2>1. x # "build.pull_request.id"
    BY <1>7 DEF PresenceVariables
  <2>2. \A o : PresenceStringValue(o) \in {Null, o}
    BY DEF PresenceStringValue
  <2>3. \/ answer = meant
        \/ answer = Str("") /\ meant = Null
        \/ answer = Null /\ meant = Str("")
    BY <1>1, <2>1, Zenon DEF Recovered
  <2>4. PresenceStringValue(Null) = Null
    BY <2>2
  <2>5. Recovered(x, PresenceStringValue(meant), PresenceStringValue(answer))
    <3>1. CASE answer = meant
      BY <3>1, Zenon DEF Recovered
    <3>2. CASE answer = Str("") /\ meant = Null
      BY <2>2, <2>4, <3>2 DEF Recovered
    <3>3. CASE answer = Null /\ meant = Str("")
      BY <2>2, <2>4, <3>3 DEF Recovered
    <3> QED
      BY <2>3, <3>1, <3>2, <3>3, Zenon
  <2> QED
    BY <1>4, <1>5, <1>7, <2>5, Zenon DEF r
<1> QED
  BY <1>6, <1>7

\* A line of the command that asks for a variable which main reads back from
\* the process is answered with the build's own value; only an empty text and
\* a missing one are taken for each other, and the pull request "false" for
\* none.
THEOREM TheCommandRecoversTheVariables == Spec => []RecoversTheVariables
<1>1. LoopInv => RecoversTheVariables
  <2> SUFFICES ASSUME LoopInv, pc = "prompt", out # <<>>,
                      line \in Variables \cap RecoveredVariables,
                      ~SetByTheCaller(job, line)
               PROVE  Recovered(line, ValueOf(job, line), out[Len(out)])
    BY Zenon DEF RecoversTheVariables, Recovered
  <2>1. job \in Jobs /\ ctx = ContextFromEnv(MergedEnv(job)) /\ out[Len(out)] = ValueOf(ctx, line)
    BY DEF LoopInv
  <2> QED
    BY <2>1, VariableRecovered
<1> QED
  BY LoopInitially, LoopStep, <1>1, PTL DEF Spec
=============================================================================
