CONSTANTS
    Files <- MCFiles
    RamWordBytes = 2
    ChunkBytes = 4
    RamWords = 8
    CpuBytes = 4
    AddrSpace = 32
    HeapStart = 2
    HeapEnd = 9
    AddrMod = 32
    Failed = failed
    WordBits = 4
    WordBytes = 4
    RegionWords = 3
    MaxLen = 12
    OtherCap = 1
    Patterns <- MCPatterns
    Buffers <- MCBuffers
    Masks <- MCMasks
    Values <- MCValues
    MemSize = 6
    ByteMod = 2
    Ints = {0, 1, 3}
SPECIFICATION Spec
INVARIANTS
    TypeOK
    ImageLoaded
    BrkInHeap
    BlocksApart
    OperationIsExact
    ResultIsRight
PROPERTIES
    LoopsEnd
    NeighboursKept
CHECK_DEADLOCK FALSE
