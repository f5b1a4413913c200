SPECIFICATION ContractSpec
CONSTANTS
    qa = qa
    qb = qb
    q1 = q1
    q2 = q2
    c1 = c1
    c2 = c2
    k1 = k1
    NULL = NULL
    QIds = {qa}
    Queues = {q1, q2}
    Clients = {c1, c2}
    ConsumerIds = {k1}
    QueueOptions <- MCOptionsContract
    PollRevs = {0}
    MaxRev = 2
SYMMETRY Symmetry
INVARIANTS NoFault LateIsUnseen QueueRefExact
CHECK_DEADLOCK FALSE
