SPECIFICATION ConversationSpec
CONSTANTS
    Parts = {"inbound", "pipeline", "held", "signals", "bot", "accounts"}
    Sender = {s1}
    a1 = a1
    a2 = a2
    a3 = a3
    e1 = e1
    e2 = e2
    e3 = e3
    e4 = e4
    Message = {a1, a2, a3}
    Campaign = {a1, a2}
    Event = {e1, e2, e3, e4}
    Private = Private
    Target <- GroupTargets
    NoEvent = NoEvent
    NoMessage = NoMessage
    NoRecord = NoRecord
    DedupeLimit = 2
    ReferenceLimit = 2
    MaxDeliveries = 4
    MaxCrashes = 1
    MaxControls = 2
    SendersDontOverlap = TRUE
    TextKinds = {"price", "refusal"}
    DaySlots = 3
    ModelTriages <- TwoJudgements
    Settings <- TwoThreads
    WakeupDelays = {0}
    FollowUpLimit = 1
    MaxTexts = 2
    MaxSlot = 2
    MaxReviews = 2
    MaxReviewDeaths = 1
    Drafts = {d1}
    MaxEvents = 2
    MaxCommands = 1
    MaxHeldDeaths = 1
    SignalKeys = {k1, k2}
    Urgent = {k1}
    Reporters = {live, lis}
    ReportsDontOverlap = TRUE
    MaxReports = 3
    MaxObservations = 2
    MaxSignalDeaths = 1
    MaxUpdates = 3
    MaxBotDeaths = 1
    MaxFailures = 1
    Members = {m1, m2}
    JoinWorkers = {w1, w2}
    JoinLimits <- TwoDayRamp
    StartLimit = 1
    MaxDays = 2
    MaxCalls = 2
    MaxWriteDeaths = 1
INVARIANTS  RepetitionsAreHarmless  TurnsSurviveTrouble
INVARIANTS  NoSignalGoesBy ReadyLeadIsCarried RepliesAreWelcome
 
CHECK_DEADLOCK FALSE
