SPECIFICATION Spec
CONSTANTS
    Matching = {}
    EnvNames = {}
    BuildkiteNames = {}
    SupportedNames = {}
    Variables <- MCVariables
    BlankStrings = {""}
    StepNames = {}
    Trees <- MCTrees
    Functions <- MCFunctions
INVARIANT ChecksByTheRules
INVARIANT VisitsAreBounded
CHECK_DEADLOCK FALSE
