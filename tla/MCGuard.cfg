\* Two processes, each of which may die, and time for its guard to become stale.
SPECIFICATION FairSpec
CONSTANTS
    Process = {p1, p2}
    Nobody = Nobody
    Attempts = 3
    Stale = 2
    MaxTime = 5
    MaxCrashes = 2
    HoldersKeepUp = TRUE
INVARIANTS ExclusionWhileAllLive NoLostUpdate
PROPERTIES GuardIsFreed
