SPECIFICATION Spec
CONSTANTS
    NWorkers = 4
    MaxClosures = 9
    MaxFibers = 10
    Programs <- StackPrograms
INVARIANT StackPrivate
