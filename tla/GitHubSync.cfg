SPECIFICATION AllSpec
CONSTANTS
    w1 = w1
    w2 = w2
    x = x
    y = y
    poll1 = poll1
    press1 = press1
    Workers <- TwoWorkers
    MaxCard = 2
    MaxIssue = 3
    Titles <- TwoTitles
    Projects = {TRUE, FALSE}
    MaxMishaps = 1
    MaxRequests = 4
    MaxEdits = 1
    CardIssues <- TwoIssues
    Comments <- ThreeComments
    IssueOf <- TwoOnTheFirst
    Providers <- AllProviders
    Backlog = 2
    PageSize = 1
    MaxPages = 3
    BackfillMax = 1
    Overlap = 2
    Polls <- ThePoll
    Presses <- APress
    MaxTime = 5
    MaxChanges = 1
    MaxCommentMishaps = 1
INVARIANTS
    OneCardPerIssue
    ExtraIssuesNeedMishaps
    ThreadsAreWhole
PROPERTIES
    EntersAsTheHostHasIt
SYMMETRY Alike
CHECK_DEADLOCK FALSE
