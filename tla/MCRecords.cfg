SPECIFICATION RecordsSpec
CONSTANTS
    n1 = n1
    n2 = n2
    n3 = n3
    CastNodes = {n1, n2, n3}
    CastConns <- Conns
    CastHome <- Homes
    CastUser <- Users
    CastSpace <- Spaces
    CastGroups <- Groups
    CastSSE = {"c3"}
    CastObservers = {"a1", "b2"}
    CastSetups <- Setups
    CastPoolCap = 1
    CastPermits = 3
    CastDelayCap = 1
    CastWindowCap = 1
    CastObsCap = 1
    Nodes = {n1, n2}
    Sender = n1
    MaxTries = 2
    HandlerTries = 2
    MayFail = TRUE
    MaxCrashes = 1
    LnTypes <- LaneTypes
    LnDefault = 3
    LnCtrlCap = 2
    LnBatch = 2
    LnFrames = 5
    SdkMsgs = {"m", "n"}
    SdkBuffer = 2
    SdkUrls <- SdkServers
    SdkDrops = 1
    SdkCloses = TRUE
INVARIANTS
    RowClaimedOnce
    
PROPERTIES
    SendingIsTemporary
    SentIsNotLost
    
    LanesAreServed
    
CHECK_DEADLOCK FALSE
