SPECIFICATION FairSpec
CONSTANTS
    NWorkers = 4
    MaxClosures = 9
    MaxFibers = 10
    Programs <- AllPrograms
INVARIANTS
    TypeOK
    TreeConsistent
    ViewsConserved
    SerialResult
    ExceptionsSerial
    FibersSafe
    OnHomeFiber
    FrameOnce
PROPERTIES
    SyncWaits
    RegionEnds
