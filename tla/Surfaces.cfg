SPECIFICATION AllSpec
CONSTANTS
    Deployments <- Hosts
    Tenants <- TwoTenants
    MaxMishaps = 1
    caller1 = caller1
    caller2 = caller2
    Stages <- CodeAndPlan
    Callers <- TwoCallers
    MaxMoves = 1
    MaxActions = 2
    MaxActionMishaps = 1
INVARIANTS
    
    EveryWriteIsTold
    EffectsAreRecorded
CONSTRAINT Calm
SYMMETRY Alike
CHECK_DEADLOCK FALSE
