SPECIFICATION OSpec
CONSTANTS
    Letters <- MCLetters
    Digits = {"1"}
    Keywords = {}
    Roots <- MCRoots
    Goroutines = {g1, g2}
    Option <- MCOption
    Lists <- MCLists
    Types = {"number", "object"}
    NilOption = "nil"
INVARIANTS
    AllOrNothing
    RegisteredIsValid
    OneSignaturePerOption
PROPERTIES
    SignaturesAreStable
    EveryBuildReturns
