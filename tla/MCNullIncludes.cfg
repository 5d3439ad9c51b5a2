CONSTANTS
    Matching <- MCMatching
    Expansions <- MCExpansions
    Trees = {}
    Scopes = {}
    Calls <- MCCalls
    EnvNames = {"FOO", "main", "ops", "BUILDKITE_SECRET", "BUILDKITE_BRANCH"}
    BuildkiteNames = {"BUILDKITE_SECRET", "BUILDKITE_BRANCH"}
    SupportedNames = {"BUILDKITE_BRANCH"}
    Variables <- MCVariables
    BlankStrings = {"", " "}
    StepNames = {"step.outcome", "step.nope"}
SPECIFICATION CSpec
INVARIANT NullIncludesNothing
