SPECIFICATION FairSpec
CONSTANTS
    Thieves = {t1, t2}
    Victim = v
    Returner = r
    NoWorker = none
    DequeLimit = 4
    MaxSpawns = 4
    MaxKids = 1
INVARIANTS
    IndInv
    ResumedOnce
    NoneLost
    ThiefFindsRunning
    ExcTracksHead
PROPERTIES
    SlotStable
    ImplementsDequeSpec
    VictimGetsOn
