SPECIFICATION Spec
CONSTANTS
    Nodes = {n1, n2}
    Sender = n1
    MaxTries = 1
    HandlerTries = 1
    MayFail = FALSE
    MaxCrashes = 0
INVARIANT DeliveredIsNotStored
CHECK_DEADLOCK FALSE
