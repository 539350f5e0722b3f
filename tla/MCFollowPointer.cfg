SPECIFICATION Spec
CONSTANTS
    CoreId <- MCCoreId
    Word <- MCWord
    Address <- MCAddress
    Garbage <- MCGarbage
    Reg <- MCReg
    DecodeInstruction <- MCDecode
    FAdd <- MCFAdd
    FSub <- MCFSub
    StartAddress <- MCStartAddress
    InitialSp <- MCInitialSp
    Binaries <- MCFollowPointer
    Arrays <- MCArrays
    RandomWords <- MCRandomWords
    Alphabet <- MCAlphabet
    UINT32_MAX = 127
    read_write_delay = 2
    CountBound = 60
    clock_cycle_limit = 0
INVARIANT
    PointerIsFollowed
CHECK_DEADLOCK FALSE
