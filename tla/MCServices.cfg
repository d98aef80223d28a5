SPECIFICATION ServicesSpec
CONSTANTS
    n1 = n1
    n2 = n2
    n3 = n3
    g1 = g1
    g2 = g2
    s1 = s1
    s2 = s2
    u1 = u1
    u2 = u2
    GtNodes = {n1, n2}
    GtGroups = {g1, g2}
    GtSpaces = {s1, s2}
    GtUsers = {u1, u2}
    GtMaxMembers = 1
    GtCacheMembers = 1
    GtMaxFaults = 1
    GtScripts <- GtServiceScripts
    WlAgents = {u1, u2}
    WlMaxTasks = 2
    WlMaxUpserts = 1
    WlMaxCalls = 5
    BrNodes <- BrServiceNodes
    BrScenarios <- BrServiceScenarios
    BrQueueSize = 1
    BrMaxRedeliver = 1
    BrMaxErrors = 2
    BrMaxPanics = 1
    BrMaxSwaps = 2
    AkPending = {"p1", "p2"}
    AkId <- AkServiceId
    AkPlain = {"p2"}
    AkMaxRetry = 1
    AkMaxCleanups = 1
    Nodes = {n1, n2, n3}
    MaxTries = 2
    Setups <- RouteSetups
INVARIANTS
    CachedTopologyIsCurrent
    
    
    RoutingIsExact
PROPERTIES
    
    RetryKeepsPromise
    WaitsEnd
    RoutingSettles
CHECK_DEADLOCK FALSE
