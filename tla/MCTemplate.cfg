SPECIFICATION TSpec
CONSTANTS
    MaxInt = 7
    Byte <- MCByte
    Letters <- MCLetters
    Digits = {"0", "1", "2", "4"}
    Keywords <- MCKeywords
    Roots = {}
    NUL = "NUL"
    Inputs <- MCInputs
    Operands <- MCOperands
    Strings <- MCStrings
    Environments <- MCEnvironments
INVARIANT LexerTypeOK
INVARIANT LongestLexeme
INVARIANT NothingIsLost
INVARIANT RegisteredNamesAreCallable
INVARIANT EvaluatesToMeaning
INVARIANT StaticStringsAreConstant
PROPERTY EveryTextEnds
