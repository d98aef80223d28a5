SPECIFICATION EnSpec
CONSTANTS
    EnConns = {"ws"}
    EnSetups <- SocketSetups
    EnPanics = 0
PROPERTY ShutdownWaits
CHECK_DEADLOCK FALSE
