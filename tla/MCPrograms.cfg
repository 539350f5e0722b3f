SPECIFICATION Spec
CONSTANTS
    CoreId <- MCCoreId
    Word <- MCWord
    Address <- MCAddress
    Garbage <- MCGarbage
    Reg <- MCReg
    DecodeInstruction <- MCDecode
    FAdd <- MCFAdd
    FSub <- MCFSub
    StartAddress <- MCStartAddress
    InitialSp <- MCInitialSp
    Binaries <- MCBinaries
    Arrays <- MCArrays
    RandomWords <- MCRandomWords
    Alphabet <- MCAlphabet
    UINT32_MAX = 127
    read_write_delay = 2
    CountBound = 1000
    clock_cycle_limit = 40
INVARIANTS
    SimTypeOK
    HoldMatchesStore
    CompleteMeansFinished
    EndsOnTime
    EndsComplete
    LaterFileStands
    SimInv
    CyclesCounted
    PipelineInv
PROPERTIES
    ArbitratesMemory
    ImplementsInOrder
CHECK_DEADLOCK FALSE
