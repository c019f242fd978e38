CONSTANTS
    NicCount = 4
    Path <- MCPath
    NoDevicePath = {3}
    Device <- MCDevice
    MaxMCastFilterCount <- MCFilters
    CurrentAddress <- MCCurrentAddress
    Remotes <- MCRemotes
    Messages <- MCMessages
    EchoRequests <- MCEchoRequests
    Reports <- MCReports
SPECIFICATION StartSpec
INVARIANTS
    OnlySameDeviceSkipped
