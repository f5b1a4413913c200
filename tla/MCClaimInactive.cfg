SPECIFICATION Spec
CONSTANTS
    m1 = m1
    q1 = q1
    q2 = q2
    q3 = q3
    k1 = k1
    NULL = NULL
    DANGLING = DANGLING
    Msgs = {}
    Queues = {q1, q2}
    Consumers = {}
    QueueOf <- MCQueueOf
    Period <- MCPeriod
    ClockMod = 10
    MaxNow = 6
PROPERTIES InactivityPromised
CHECK_DEADLOCK FALSE
