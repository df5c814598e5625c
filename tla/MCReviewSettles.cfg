\* Liveness: one worker, one aborted review, one pause or resume.
SPECIFICATION FairSpec
CONSTANTS
    Reviewer = {r1}
    Nobody = Nobody
    NoCopy = NoCopy
    Draft = {d1}
    Origin = "direct_inbound_dm"
    DmFollowUpLimit = 1
    ClaimTTL = 2
    FollowUpDelays = {1}
    MaxEvents = 2
    MaxControls = 1
    MaxAborts = 1
    MaxTime = 3
    UpdatesDontOverlap = TRUE
PROPERTIES DueWindowSettles
\* The bounded clock and the bounded number of events end every behaviour.
CHECK_DEADLOCK FALSE
