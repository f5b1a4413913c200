SPECIFICATION Spec
CONSTANTS
    qa = qa
    qb = qb
    qc = qc
    k1 = k1
    k2 = k2
    NULL = NULL
    LH_EMPTY = LH_EMPTY
    LH_FREED = LH_FREED
    QIds = {qa, qb, qc}
    Fields <- MCFields
    ConsumersOf <- MCConsumersOf
    lh_char_hash <- MCHash
    MsgData <- MCData
    PrintbufSize = 4
    DefHashEntries = 3
    DefArraySize = 1
    MaxPending = 4
INVARIANTS TypeOK SearchesEnd TablesExact FreedOnce BuffersFit ResultExact
CHECK_DEADLOCK FALSE
