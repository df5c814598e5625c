SPECIFICATION CampaignSpec
CONSTANTS
    Parts = {"planning", "prepared", "intents", "alerts", "policy"}
    s1 = s1
    Schedule = {s1}
    NoSchedule = NoSchedule
    ScheduledKind <- Scheduled
    Advice <- BackToDiscovery
    Hold = Hold
    MaxTurns = 5
    MaxRuns = 1
    MaxFailures = 1
    Due = {p1, p2}
    Later = {p3}
    Unplaced = {p4}
    MaxPlans = 2
    MaxActivations = 2
    MaxReturns = 1
    MaxDeaths = 1
    Clerks <- TwoClerks
    Batches <- SmallBatches
    MaxTasks = 2
    MaxIntents = 3
    MaxTroubles = 1
    MaxShown = 1
    MaxChanges = 2
    MaxRefreshes = 2
    MaxAnswers = 2
    MaxAlertDeaths = 1
    PolicyAccounts = {a1}
    Chats = {c1}
    Executors = {x1, x2}
    Bot = Bot
    NoEntry = NoEntry
    PauseThreshold = 2
    MaxOrders = 2
    MaxSends = 3
    MaxPolicyDeaths = 1
INVARIANTS BatchIsCurrent NoDraftForgotten ChainKept  RevisionTakesEffect
INVARIANTS EffectIsOnRecord CopiesBounded OperatorIsTold PolicyIsKept
PROPERTIES ActivatedWasApproved UsesContract
CHECK_DEADLOCK FALSE
