CONSTANTS
    h1 = h1
    h2 = h2
    h3 = h3
    s1 = s1
    s2 = s2
    s3 = s3
    Handlers <- TwoHandlers
    Shapes <- TwoShapes
    Blocked <- NoShapes
    StoreAvgs <- StoreCalmOrSlow
    StartTimes <- BootLate
    Durations <- SubAndWholeMs
    KillScale = 10
    StepUp = 1
    UpdateInterval = 1
    OngoingLogInterval = 2
    LongAgo = 2
    LoadThreshold = 1
    JailQueries = TRUE
    JailNum = 9
    JailDen = 10
    Simulate = FALSE
    MaxConcurrent = 1
    SubMs = 2
    ClockLimit = 4
    MaxRequests = 2

SPECIFICATION Spec
INVARIANT ThrottleNeedsKillRate
