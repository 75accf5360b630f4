SPECIFICATION Spec
CONSTANTS
    w1 = w1
    w2 = w2
    Workers <- OneWorker
    Answers <- OneKey
    StatusChoices <- ButtonsOnly
    TierChoices <- LowTier
    Channels <- Post
    Reports <- Stuck
    Polls = TRUE
    MaxRuns = 2
    LostAnswers = FALSE
    Crashes = TRUE
    ProjectEdits = FALSE
INVARIANTS
    TypeOK
PROPERTIES
    KeepsLedger
CHECK_DEADLOCK FALSE
