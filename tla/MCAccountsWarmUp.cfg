SPECIFICATION AccountSpec
CONSTANTS
    Members = {m1}
    JoinWorkers = {w1}
    JoinLimits <- TwoDayRamp
    StartLimit = 1
    MaxDays = 2
    MaxCalls = 2
    MaxWriteDeaths = 0
INVARIANT WarmUpBounds
CHECK_DEADLOCK FALSE
