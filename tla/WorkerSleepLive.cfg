SPECIFICATION FairSpec
CONSTANTS
    NWorkers = 3
    AS_RATIO = 1
    SENTINEL_THRESHOLD = 1
    MIN_FAILS = 0
    HISTORY_THRESHOLD = 2
    NAP_THRESHOLD = 1
    IntMax = 10
    HalfWord = 4
PROPERTIES AllJoined
