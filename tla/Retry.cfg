CONSTANTS
    Limits <- PositiveLimits
    UsizeMax <- SmallUsizeMax
    MaxAttempts = 4

SPECIFICATION Spec
INVARIANT TypeOK
INVARIANT AttemptsWithinLimit
INVARIANT GivesUpOnlyAtLimit
INVARIANT PanicsOnlyOnMisuse

