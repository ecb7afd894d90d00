SPECIFICATION Spec
CONSTANTS
    a1 = a1  a2 = a2  a3 = a3  a4 = a4  a5 = a5  a6 = a6  a7 = a7  b = b  c = c
    Keys <- MCKeys
    hash <- MCHash
    Word = 32
    MIN_CAPACITY = 2
    MIN_HT_CAPACITY = 4
    MIN_REBUILD_OP_COUNT = 4
    LoadFactors = {2, 16}
    MaxCount = 0
    MaxChurn = 1
    KEY_EMPTY = KEY_EMPTY
    KEY_DELETED = KEY_DELETED
    Null = Null
SYMMETRY MCSymmetry
INVARIANTS OccupancyExact RunsOrdered NoFault ViewsRepresented
CHECK_DEADLOCK FALSE
