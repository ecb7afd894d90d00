SPECIFICATION Spec
CONSTANTS
    NWorkers = 2
    Caps = {0, 2, 5}
    MaxHeld = 18
INVARIANTS TypeOK BatchSuffices FibersConserved
