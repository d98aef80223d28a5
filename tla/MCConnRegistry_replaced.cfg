SPECIFICATION FairSpec
CONSTANTS
    MaxDials = 2
    MaxPanics = 0
    MaxTasks = 1
    MaxConnectionsPerUser = 1
    None = None

PROPERTIES PumpsEndTogether
CHECK_DEADLOCK FALSE
