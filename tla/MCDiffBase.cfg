SPECIFICATION Spec
CONSTANTS
    Matching = {}
    EnvNames <- MCEnvNames
    BuildkiteNames <- MCBuildkiteNames
    SupportedNames <- MCSupported
    Variables <- MCVariables
    BlankStrings = {"", " "}
    Jobs <- MCJobs
    Lines <- MCLines
    MaxLines = 2
INVARIANT DiffBaseIsBlankOutsideMergeQueues
CHECK_DEADLOCK FALSE
