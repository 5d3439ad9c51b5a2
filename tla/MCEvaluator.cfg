CONSTANTS
    Matching <- MCMatching
    Expansions <- MCExpansions
    Trees <- MCTrees
    Scopes <- MCScopes
    EnvNames = {"FOO", "main", "BUILDKITE_SECRET"}
    BuildkiteNames = {"BUILDKITE_SECRET"}
    SupportedNames = {}
    Variables = {}
    BlankStrings = {""}
    StepNames = {}
SPECIFICATION Spec
INVARIANTS
    TypeOK
    CallStack
    ErrorsPropagate
    OnlyChosenOperands
    AgreesWithMeaning
PROPERTY EveryEvaluationReturns
