SPECIFICATION Spec
CONSTANTS
    a1 = a1  a2 = a2  a3 = a3  a4 = a4  a5 = a5  a6 = a6  a7 = a7  b = b  c = c
    Keys <- FullKeys
    hash <- FullHash
    Word = 64
    MIN_CAPACITY = 4
    MIN_HT_CAPACITY = 8
    MIN_REBUILD_OP_COUNT = 8
    LoadFactors = {16}
    MaxCount <- FullMaxCount
    MaxChurn = 0
    KEY_EMPTY = KEY_EMPTY
    KEY_DELETED = KEY_DELETED
    Null = Null
INVARIANT ProbeFindsAll
SYMMETRY FullSymmetry
CHECK_DEADLOCK FALSE
