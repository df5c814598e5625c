\* Liveness: no aborted ticks.
SPECIFICATION FairSpec
CONSTANTS
    a1 = a1
    a2 = a2
    a3 = a3
    a4 = a4
    acct1 = acct1
    acct2 = acct2
    chat1 = chat1
    NoWorker = NoWorker
    NoAction = NoAction
    NoCommunity = NoCommunity
    Action = {a1, a3}
    Account = {acct1}
    Community = {}
    Worker = {w1}
    AccountOf <- MCAccountOf
    CommunityOf <- MCNoChat
    Visible = {a1}
    Approved = {a1, a3}
    ClaimTTL = 2
    MaxRetries = 1
    RetryMaxDelay = 1
    FrictionThreshold = 2
    FloodWaits = {1}
    StartDelays = {0}
    OperatorPauses = {}
    CampaignPauses = FALSE
    MaxTime = 2
    MaxCrashes = 0
    WorkersKeepUp = TRUE
    ClosingCanFlood = FALSE
PROPERTIES EventuallySettles
\* The bounded clock and the finite set of actions end every behaviour.
CHECK_DEADLOCK FALSE
