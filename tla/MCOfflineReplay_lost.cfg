SPECIFICATION OfflineSpec
CONSTANTS
    Sender = sender
    N = 1
    GroupMsgs = {}
    Replays = {r1}
    MaxEvents = 2
    HoldMax = 2
    PageSize = 3
    MaxRetry = 1
    MaxTries = 1
    MayRefuse = TRUE
    MayFailIO = FALSE
    ClientNS = "default"
INVARIANT NoMessageLost
CHECK_DEADLOCK FALSE
