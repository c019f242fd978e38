CONSTANTS
    Byte <- MCByte
    Garbage = garbage
    Paths <- MCPaths
    Beyond <- MCBeyond
    Names <- MCNames
    Messages <- MCMessages
    Disk0 <- MCDisk0
    ETH_BUFFERS = 2
    Hosts = {"server", "other"}
    Unspecified = "::"
    LinkLocal = "ll"
    SolicitedNode = "snm"
    AllNodes = "all"
    Frames <- MCFrames
    MaxQueue = 2
    Server = "server"
    Files <- MCFiles
    Requests = {"CMD_FWSETUP", "CMD_SHUTDOWN"}
    Bystander <- MCBystander
SPECIFICATION SysSpec
INVARIANTS
    AcknowledgedMeansWritten
    VolumeIntact
    NoOverrun
    PrefixOfServedFile
    NamesOnVolume
PROPERTIES
    DeliverySpec
CHECK_DEADLOCK FALSE
