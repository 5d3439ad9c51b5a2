SPECIFICATION Spec
CONSTANT Patterns <- MCPatterns
INVARIANT RefusesTheUnsupported
CHECK_DEADLOCK FALSE
