SPECIFICATION AllSpec
CONSTANTS
    loop = loop
    button = button
    issue = issue
    af1 = af1
    af2 = af2
    Tasks <- TwoTasks
    ServiceCount = 2
    ServiceOf <- SameService
    Place <- NewestFirst
    Statuses <- ThreeStatuses
    Keys <- OneIssue
    Fallback <- OwnKeys
    Pollers <- OneLoop
    Refreshers <- OneButton
    Overlaps = FALSE
    MaxIncidents = 1
    w1 = w1
    w2 = w2
    github = github
    gitlab = gitlab
    board = board
    site = site
    Workers <- TwoThreads
    Hosts <- TwoHosts
    Projects <- OneProject
    MaxConn = 2
    MaxRepo = 2
    Legacies <- FreshOrPhase2
    EnvHost = github
    EnvProject = board
    VerifyAnswers <- Reachable
    Keyed = TRUE
    MaxConnMishaps = 1
INVARIANTS
    HistoryKept
    ProofIsCurrent
PROPERTIES
    DeadTakesNothing
    LeavesDefault
CONSTRAINT Calm
SYMMETRY Alike
