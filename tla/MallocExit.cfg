SPECIFICATION Spec
CONSTANTS
    NWorkers = 2
    BucketCapacity = 4
    ChunkBlocks = 3
    MEM_LIST_SIZE = 1
    MaxInUse = 8
    MaxDrift = 8
INVARIANT CheckAtExit
