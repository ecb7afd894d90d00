SPECIFICATION Spec
CONSTANTS
    NWorkers = 4
    Self = 1
    SENTINEL_THRESHOLD = 4
    ATTEMPTS = 2
    MIN_FAILS = 2
    NAP_THRESHOLD = 16
    HISTORY_LENGTH = 4
    HISTORY_THRESHOLD = 3
    SENTINEL_COUNT_HISTORY = 3
    AS_RATIO = 2
    Word = 128
    TimeScale = 4
    MaxElapsed = 40
INVARIANT WorkPays
