SPECIFICATION SchedulerFairSpec
CONSTANTS
    Worker = {w1, w2}
    Bot = Bot
    Gone = Gone
    Nobody = Nobody
    MaxSchedules = 2
    Observation = {1}
    Interval = 1
    LeaseTTL = 2
    PauseAfterMisses = 2
    MaxInterrupts = 1
    MaxControls = 2
    PassesFit = TRUE
    WritesDontOverlap = TRUE
INVARIANTS DispatchedOnce PauseStops
PROPERTIES PauseOutlivesRun DueIsServed
