SPECIFICATION Spec
CONSTANTS
    w1 = w1
    w2 = w2
    Workers <- TwoWorkers
    Answers <- OneKey
    StatusChoices <- Promotions
    TierChoices <- LowTier
    Channels <- Post
    Reports <- NoReports
    Polls = FALSE
    MaxRuns = 2
    LostAnswers = FALSE
    Crashes = TRUE
    ProjectEdits = FALSE
INVARIANTS
    TestHasBuild
    DoneIsReal
    JoinIsReal
PROPERTIES
    DoneIsAVerdict
SYMMETRY Threads
CHECK_DEADLOCK FALSE
