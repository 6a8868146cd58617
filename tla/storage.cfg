CONSTANTS
    t1 = t1
    t2 = t2
    v1 = v1
    v2 = v2
    w1 = w1
    w2 = w2
    k1 = k1
    k2 = k2
    Keys = {k1, k2}
    PutValues <- MCPutValues
    None = None
    Threads = {t1, t2}
    Shared = {k1}
    Capacity = 1
SPECIFICATION Spec
INVARIANTS
    TypeOK
    AtRestOnDisk
PROPERTIES
    ReadsLatest
SYMMETRY StorageSymmetry
