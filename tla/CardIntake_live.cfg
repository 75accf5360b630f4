SPECIFICATION FairSpec
CONSTANTS
    w1 = w1
    w2 = w2
    Workers <- OneWorker
    Answers <- OneKey
    StatusChoices <- Promotions
    TierChoices <- Routes
    Channels <- Post
    Reports <- NoReports
    Polls = FALSE
    MaxRuns = 3
    LostAnswers = FALSE
    Crashes = FALSE
    ProjectEdits = FALSE
PROPERTIES
    StageSettles
    SequenceAdvances
CHECK_DEADLOCK FALSE
