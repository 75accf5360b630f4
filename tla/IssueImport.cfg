SPECIFICATION FairSpec
CONSTANTS
    p1 = p1
    p2 = p2
    m1 = m1
    Issues <- TwoIssues
    Pollers <- TwoReplicas
    Manual <- OnePerson
    FullChoices <- SinceWatermark
    Limits <- Enough
    Overlap = 1
    Lag = 1
    MaxBackoff = 8
    RateLimited = 3
    Overlaps = FALSE
    MaxTime = 3
    Interrupts = FALSE
    MaxIncidents = 1
INVARIANTS
    NothingFallsBehind
    OnePollerPerLease
PROPERTIES
    DeletedStays
    BoardConverges
CHECK_DEADLOCK FALSE
