CONSTANTS
    Byte <- MCByte
    Garbage = garbage
    Paths <- MCPaths
    Beyond <- MCBeyond
    Names <- MCNames
    Messages <- MCMessages
    Disk0 <- MCDisk0
    ETH_BUFFERS = 2
    Hosts = {"server", "other"}
    Unspecified = "::"
    LinkLocal = "ll"
    SolicitedNode = "snm"
    AllNodes = "all"
    Frames <- MCFrames
    MaxQueue = 1
SPECIFICATION StackFairSpec
INVARIANTS
    StackTypeOK
    IdleMeansCleared
    RightLinkAddress
    AcksReachThePeer
PROPERTIES
    QuietWhenStopped
    KeepsAdvertising
CHECK_DEADLOCK FALSE
