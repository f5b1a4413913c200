SPECIFICATION Spec
CONSTANTS
    Conns = {c1}
    Kinds <- MCKinds
    MaxTotal = 1
    MaxHdr = 3
    MaxRequests = 2
    MaxFails = 1
    NULL = NULL
INVARIANTS TypeOK TotalExact OneAnswerEach PostedIsBody RoutedRight NeverRefused
PROPERTY RequestAnswered
CHECK_DEADLOCK FALSE
