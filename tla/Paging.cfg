SPECIFICATION AllSpec
CONSTANTS
    p1 = p1
    p2 = p2
    Appenders <- TwoAppenders
    Fields <- TwoFields
    Legacies <- EmptyOrForked
    FirstId = 4
    Acknowledged <- TheFork
    Limit = 2
    MaxId = 6
    MaxChanges = 1
    Numbers <- ThreeNumbers
    Pulls <- OnePull
    Backlog = 2
    Providers <- AllProviders
    Limits <- TightAndWide
    PageSize = 1
    HostCap = 1
    Overlap = 1
    MaxTime = 4
    MaxIssueChanges = 2
    MaxMishaps = 1
INVARIANTS
    HonestChainIsSound
    
    PagesMissNothing
PROPERTIES
    KeepsTheTrail
    IncrementalReadsMissNothing
CHECK_DEADLOCK FALSE
