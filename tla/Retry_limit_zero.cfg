CONSTANTS
    Limits <- ZeroOrOne
    UsizeMax <- SmallUsizeMax
    MaxAttempts = 4

SPECIFICATION Spec
INVARIANT AttemptsWithinLimit
