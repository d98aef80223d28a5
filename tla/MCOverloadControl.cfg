SPECIFICATION WriteSpec
CONSTANTS
    Clients = {c1}
    Senders = {s1}
    ChanCap = 2
    BatchSize = 1
    SlowMark = 3
    SlowLimit = 1
    SalvageBound = 1
    HighArg = 2
    LowArg = 1
    DefaultHigh = 8
    DefaultLow = 2
    Cooldown = 2
    Sender = sender
    N = 2
    GroupMsgs = {2}
    Replays = {r1, r2}
    MaxEvents = 3
    HoldMax = 1
    PageSize = 3
    MaxRetry = 1
    MaxTries = 2
    MayRefuse = TRUE
    MayFailIO = FALSE
    ClientNS = "tenant"
INVARIANTS LiveMessageIsSafe OneReplayDrains
PROPERTIES GateRecovers GateReopens
CHECK_DEADLOCK FALSE
