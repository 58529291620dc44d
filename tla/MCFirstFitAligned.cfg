CONSTANTS
    ALIGN = 16
    CHUNK_SIZE = 12
    ALLOC_SIZE = 20
    WordSize = 1024
    StartMem <- MCStartMem
    HeapSizes <- MCHeapSizes
    MallocSizes <- MCMallocSizes
    ReallocSizes <- MCReallocSizes
SPECIFICATION Spec
INVARIANT ChunksAligned
