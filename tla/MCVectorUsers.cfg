SPECIFICATION Spec
CONSTANTS
    CoreId <- MCCoreId
    Word <- MCWord
    Address <- MCAddress
    Garbage <- MCGarbage
    Reg <- MCReg
    DecodeInstruction <- MCDecode
    FAdd <- MCFAdd
    FSub <- MCFSub
    StartAddress <- MCStartAddress
    InitialSp <- MCInitialSp
    Binaries <- MCBinaries
    Arrays <- MCArrays
    RandomWords <- MCRandomWords
    UINT32_MAX = 65535
    read_write_delay = 2
    CountBound = 1000
    clock_cycle_limit = 0
    Last = 0
INVARIANT
    BusUsersAreReal
CHECK_DEADLOCK FALSE
