SPECIFICATION FollowerSpec
CONSTANTS
    qa = qa
    qb = qb
    q1 = q1
    q2 = q2
    c1 = c1
    c2 = c2
    k1 = k1
    NULL = NULL
    QIds = {qa}
    Queues = {q1}
    Clients = {c1, c2}
    ConsumerIds = {k1}
    QueueOptions <- MCOptions
    PollRevs = {0, 1, 2}
    MaxRev = 2
SYMMETRY Symmetry
INVARIANTS NoGap NoRepeat BriefIsConsumed
CHECK_DEADLOCK FALSE
