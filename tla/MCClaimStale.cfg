SPECIFICATION Spec
CONSTANTS
    Conns = {c1}
    Kinds <- MCChunked
    MaxTotal = 1
    MaxHdr = 3
    MaxRequests = 2
    MaxFails = 0
    NULL = NULL
INVARIANT PostedAsSent
CHECK_DEADLOCK FALSE
