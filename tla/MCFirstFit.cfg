CONSTANTS
    ALIGN = 16
    CHUNK_SIZE = 12
    ALLOC_SIZE = 20
    WordSize = 1024
    StartMem <- MCStartMem
    HeapSizes <- MCHeapSizes
    MallocSizes <- MCMallocSizes
    ReallocSizes <- MCReallocSizes
SPECIFICATION FairSpec
INVARIANTS
    TypeOK
    RingOK
    NoAdjacentFree
    BlocksOK
    EmptyHeapIsOneChunk
    StatsCount
    HeadersIntact
PROPERTIES
    NullMeansNoFit
    CallReturns
