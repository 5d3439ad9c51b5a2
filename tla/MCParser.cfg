SPECIFICATION Spec
CONSTANTS
    g1 = g1
    g2 = g2
    Goroutines <- MCGoroutines
    Scenarios <- MCScenarios
    Refused <- MCRefused
INVARIANT ParserTypeOK
INVARIANT ParsesTheGrammar
INVARIANT NilIsReported
INVARIANT ParsedIsWellFormed
PROPERTY TraceLevelDriftsOnlyInRaces
PROPERTY EveryParseReturns
