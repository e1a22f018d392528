CONSTANTS
    d1 = d1
    d2 = d2
    d3 = d3
    Deciders <- ThreeDeciders
    StartTimes <- BootTimes
    KillScale = 10
    StepUp = 1
    UpdateInterval = 1
    OngoingLogInterval = 2
    LongAgo = 2
    ClockLimit = 4

SPECIFICATION Spec
INVARIANT OverloadStartConsistent
