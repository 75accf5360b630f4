SPECIFICATION AllSpec
CONSTANTS
    key1 = key1
    cockpit1 = cockpit1
    writer1 = writer1
    RowKeys <- OneRow
    Cockpits <- OneCockpit
    Writers <- OneWriter
    Buffer = 1
    MaxWrites = 1
    MaxFeedMishaps = 1
    Unmanaged <- SinceTheChain
    Managed <- SinceTheConnections
    MaxCrashes = 2
    session1 = session1
    session2 = session2
    Sessions <- TwoSessions
    MaxFrames = 2
    MaxConsoleMishaps = 1
INVARIANTS
    
    ServesItsSchema
PROPERTIES
    PolledBoardsCatchUp
    FollowsOneSession
CHECK_DEADLOCK FALSE
