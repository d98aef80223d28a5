SPECIFICATION SdkSpec
CONSTANTS
    SdkMsgs = {"m", "n"}
    SdkBuffer = 2
    SdkUrls <- SdkServers
    SdkDrops = 1
    SdkCloses = TRUE
PROPERTY CloseIsFinal
CHECK_DEADLOCK FALSE
