SPECIFICATION Spec
CONSTANTS
    qa = qa
    qb = qb
    q1 = q1
    q2 = q2
    c1 = c1
    c2 = c2
    k1 = k1
    NULL = NULL
    QIds = {qa, qb}
    Queues = {q1, q2}
    Clients = {c1, c2}
    ConsumerIds = {k1}
    QueueOptions <- MCTracked
    PollRevs = {0}
    MaxRev = 1
SYMMETRY Symmetry
INVARIANTS StoreExact NoLostWakeup
CHECK_DEADLOCK FALSE
