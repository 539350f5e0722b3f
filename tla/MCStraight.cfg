SPECIFICATION Spec
CONSTANTS
    CoreId <- MCCoreId
    Word <- MCWord
    Address <- MCAddress
    Garbage <- MCGarbage
    Reg <- MCReg
    DecodeInstruction <- MCDecode
    FAdd <- MCFAdd
    FSub <- MCFSub
    StartAddress <- MCStartAddress
    InitialSp <- MCInitialSp
    Binaries <- MCBinaries
    Arrays <- MCArrays
    RandomWords <- MCRandomWords
    Alphabet <- MCAlphabet
    UINT32_MAX = 127
    read_write_delay = 2
    CountBound = 100
    clock_cycle_limit = 0
INVARIANTS
    SequentialResult
    BusUsersAreReal
    CodeLeftAlone
    NoReservedWord
    CodeInPlace
    LinesKept
    KeepersKeepUp
PROPERTIES
    StoreStaysPut
    Finishes
CHECK_DEADLOCK FALSE
