SPECIFICATION FairSpec
CONSTANTS
    loop = loop
    issue = issue
    af1 = af1
    af2 = af2
    Tasks <- TwoTasks
    ServiceCount = 2
    ServiceOf <- SameService
    Place <- OldestFirst
    Statuses <- ThreeStatuses
    Keys <- OneIssue
    Fallback <- OwnKeys
    Pollers <- OneLoop
    Refreshers <- NoButton
    Overlaps = TRUE
    MaxIncidents = 1
PROPERTIES
    BoardHeals
CHECK_DEADLOCK FALSE
