SPECIFICATION DeliverySpec
CONSTANTS
    Clients = {c1}
    Senders = {s1, s2}
    ChanCap = 2
    BatchSize = 2
    SlowMark = 1
    SlowLimit = 1
    SalvageBound = 1
    LsKinds <- FrameKinds
    LsUser <- DeviceUsers
    LsSSE = {"b2"}
    LsOrigin = "a1"
    LsLeavers = {"b1"}
    LsRoom = 1
    LsRetries = 1
    LsFaults = 1
    JpKeys <- PeekKeys
    JpTexts <- PeekTexts
    JpTokens = 13
    JpDepth = 3
    SpMessages = {"m1", "m2", "m3", "m4"}
    SpKeyOf <- ShapedKey
    SpShardOf <- ShapedShard
    SpShards = 2
    SpCapacity = 1
    SpPayloads = {"p1", "p2", "p3", "p4"}
    SpGroupOf <- ShapedGroup
    SpMaxPerGroup = 2
    SpMaxGroups = 1
    SpCallers = {"c1", "c2", "c3"}
    SpInterval = 2
    SpBurst = 1
    SpTime = 2
    SpAdded <- BatchAdded
    SpRuns = 2
    CrConns = {k1, k2}
    CrUntracked = {}
    CrItems = {1, 2}
    CrQueueSize = 1
    CrBudgets <- RowBudgets
    CrNone = CrNone
    CrPings = {60}
    CrDurations = {10}
SYMMETRY deliverySymmetry
INVARIANTS
    PendingIsExact
    HubIsSumOfPending
    
    PeekIsRight
    ShapingIsExact
PROPERTY RowsAreExact
CHECK_DEADLOCK FALSE
