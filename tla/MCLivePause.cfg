\* Two accounts, one of which the operator pauses, write to one chat; no time passes.
SPECIFICATION Spec
CONSTANTS
    a1 = a1
    a2 = a2
    a3 = a3
    a4 = a4
    acct1 = acct1
    acct2 = acct2
    chat1 = chat1
    NoWorker = NoWorker
    NoAction = NoAction
    NoCommunity = NoCommunity
    Action = {a1, a2, a3, a4}
    Account = {acct1, acct2}
    Community = {chat1}
    Worker = {w1, w2}
    AccountOf <- MCAccountOf
    CommunityOf <- MCOneChat
    Visible = {a1, a2, a3, a4}
    Approved = {a1, a2, a3, a4}
    ClaimTTL = 2
    MaxRetries = 0
    RetryMaxDelay = 1
    FrictionThreshold = 1
    FloodWaits = {}
    StartDelays = {0}
    OperatorPauses = {acct1}
    CampaignPauses = FALSE
    MaxTime = 0
    MaxCrashes = 0
    WorkersKeepUp = TRUE
    ClosingCanFlood = FALSE
SYMMETRY ActionSymmetry
INVARIANTS PauseLeakBound FrictionBound
\* The bounded clock and the finite set of actions end every behaviour.
CHECK_DEADLOCK FALSE
