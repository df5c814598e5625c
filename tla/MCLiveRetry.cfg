\* One visible action, two retries, two aborted ticks, time for claims to expire.
SPECIFICATION Spec
CONSTANTS
    a1 = a1
    a2 = a2
    a3 = a3
    a4 = a4
    acct1 = acct1
    acct2 = acct2
    chat1 = chat1
    NoWorker = NoWorker
    NoAction = NoAction
    NoCommunity = NoCommunity
    Action = {a1}
    Account = {acct1}
    Community = {}
    Worker = {w1, w2}
    AccountOf <- MCAccountOf
    CommunityOf <- MCNoChat
    Visible = {a1}
    Approved = {a1}
    ClaimTTL = 2
    MaxRetries = 2
    RetryMaxDelay = 2
    FrictionThreshold = 2
    FloodWaits = {1, 3}
    StartDelays = {0}
    OperatorPauses = {}
    CampaignPauses = TRUE
    MaxTime = 6
    MaxCrashes = 2
    WorkersKeepUp = TRUE
    ClosingCanFlood = FALSE
SYMMETRY WorkerSymmetry
INVARIANTS ExclusiveExecution AtMostOnePost JournalAgrees
PROPERTIES TerminalIsFinal KeepsPromise KeepsContract
\* The bounded clock and the finite set of actions end every behaviour.
CHECK_DEADLOCK FALSE
