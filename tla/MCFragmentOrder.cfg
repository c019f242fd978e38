CONSTANTS
    Byte <- MCByte
    Garbage = garbage
    Paths <- MCPaths
    Beyond <- MCBeyond
    Names <- MCNames
    Messages <- MCMessages
    Disk0 <- MCDisk0
    File <- MCFile
    Path <- MCPath
    Fragments = 4
    Bounds <- MCBounds
SPECIFICATION OrderSpec
INVARIANTS
    ReceivedPrefix
    WholeFileOrNone
CHECK_DEADLOCK FALSE
