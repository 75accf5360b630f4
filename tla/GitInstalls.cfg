SPECIFICATION FairInstallSpec
CONSTANTS
    t1 = t1
    t2 = t2
    Threads <- TwoThreads
    Providers <- Both
    MaxGrant = 2
    MaxLinks = 2
    MaxKey = 2
    MaxFaults = 1
INVARIANTS
    RefreshSurvives
    
PROPERTIES
    DisconnectForgets
    InstallRecovers
