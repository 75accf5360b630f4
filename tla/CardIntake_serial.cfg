SPECIFICATION Spec
CONSTANTS
    w1 = w1
    w2 = w2
    Workers <- OneWorker
    Answers <- OneKey
    StatusChoices <- Promotions
    TierChoices <- AnyTier
    Channels <- Post
    Reports <- NoReports
    Polls = FALSE
    MaxRuns = 3
    LostAnswers = FALSE
    Crashes = TRUE
    ProjectEdits = TRUE

    
PROPERTIES
    KeepsLedger
    NeverDoneWhileOwed
CHECK_DEADLOCK FALSE
