SPECIFICATION ConnSpec
CONSTANTS
    MaxDials = 2
    MaxPanics = 1
    MaxTasks = 2
    MaxConnectionsPerUser = 1
    None = None
    IxConns <- IxC
    IxUser <- IxU
    IxSpace <- IxS
    IxGroups <- IxG
    IxScope <- IxW
    IxAttrs <- IxA
    IxClass <- IxK
    IxAdds = 2
    EnConns = {"ws", "sse"}
    EnSetups <- EntrySetups
    EnPanics = 1
INVARIANTS CountIsExact IndexNeverForgets ClosedStaysOut SingleLogin IndexesFindClients
PROPERTIES DeadIsClosed EntriesSettle
CHECK_DEADLOCK FALSE
