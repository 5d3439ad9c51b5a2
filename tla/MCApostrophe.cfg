SPECIFICATION TSpec
CONSTANTS
    MaxInt = 7
    Byte <- MCByte
    Letters <- MCLetters
    Digits = {"0", "1", "2"}
    Keywords = {}
    Roots = {}
    NUL = "NUL"
    Inputs = {}
    Operands = {}
    Strings <- ApostropheStrings
    Environments <- MCEnvironments
INVARIANT DoubleQuotedStringsInterpolate
CHECK_DEADLOCK FALSE
