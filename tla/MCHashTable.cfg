SPECIFICATION Spec
CONSTANTS
    ab = ab
    ba = ba
    ca = ca
    cb = cb
    i1 = i1
    i2 = i2
    i3 = i3
    i4 = i4
    NULL = NULL
    Order = Order
    Keys = {ab, ba, ca, cb}
    Items = {i1, i2, i3, i4}
    Buckets = {0, 1}
    h_hash_func <- MCHash
INVARIANTS TypeOK ListsExact
PROPERTY ImplementsOrderedMap
CHECK_DEADLOCK FALSE
