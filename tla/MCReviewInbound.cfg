\* An event arrives while the one before is under review.
SPECIFICATION FairSpec
CONSTANTS
    Reviewer = {r1}
    Nobody = Nobody
    NoCopy = NoCopy
    Draft = {d1}
    Origin = "direct_inbound_dm"
    DmFollowUpLimit = 1
    ClaimTTL = 2
    FollowUpDelays = {1}
    MaxEvents = 2
    MaxControls = 0
    MaxAborts = 0
    MaxTime = 1
    UpdatesDontOverlap = TRUE
PROPERTIES InboundEventuallyReviewed
\* The bounded clock and the bounded number of events end every behaviour.
CHECK_DEADLOCK FALSE
