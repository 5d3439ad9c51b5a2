CONSTANTS
    Matching <- MCMatching
    Expansions <- MCExpansions
    Trees = {}
    Scopes = {}
    Calls <- MCCalls
    EnvNames = {"FOO", "main", "ops", "BUILDKITE_SECRET", "BUILDKITE_BRANCH", "BUILDKITE_PULL_REQUEST_LABELS"}
    BuildkiteNames = {"BUILDKITE_SECRET", "BUILDKITE_BRANCH", "BUILDKITE_PULL_REQUEST_LABELS"}
    SupportedNames = {"BUILDKITE_BRANCH"}
    Variables <- MCVariables
    BlankStrings = {"", " "}
    StepNames = {"step.outcome", "step.nope"}
SPECIFICATION CSpec
INVARIANTS
    CTypeOK
    Sound
    ResultIsBoolean
    AcceptedNamesAreReadable
PROPERTY TypeErrorsComeFromNull
