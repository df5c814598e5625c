\* Two workers, no overlapping updates.
SPECIFICATION Spec
CONSTANTS
    Reviewer = {r1, r2}
    Nobody = Nobody
    NoCopy = NoCopy
    Draft = {d1}
    Origin = "direct_inbound_dm"
    DmFollowUpLimit = 1
    ClaimTTL = 2
    FollowUpDelays = {1}
    MaxEvents = 2
    MaxControls = 1
    MaxAborts = 1
    MaxTime = 3
    UpdatesDontOverlap = TRUE
INVARIANTS ExclusiveReview FollowUpsBounded
PROPERTIES ReviewedOnce
SYMMETRY ReviewerSymmetry
\* The bounded clock and the bounded number of events end every behaviour.
CHECK_DEADLOCK FALSE
