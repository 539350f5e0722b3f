SPECIFICATION ClientsSpec
CONSTANTS
    Word <- MCWord
    Address <- MCAddress
    CoreId <- MCCoreId
    Garbage <- MCGarbage
    AddedDelay <- MCAddedDelay
    UINT32_MAX = 15
    read_write_delay = 2
    Data <- MCDataWithMax
PROPERTY
    CompletedReadReleases
