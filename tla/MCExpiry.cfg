SPECIFICATION Spec
CONSTANTS
    m1 = m1
    q1 = q1
    q2 = q2
    q3 = q3
    k1 = k1
    NULL = NULL
    DANGLING = DANGLING
    Msgs = {}
    Queues = {q1, q2}
    Consumers = {k1}
    QueueOf <- MCQueueOf
    Period <- MCPeriod
    ClockMod = 10
    MaxNow = 5
INVARIANTS TypeOK SleepCovers NodePtrExact
PROPERTIES OverdueExpires InactivityRespected
CHECK_DEADLOCK FALSE
