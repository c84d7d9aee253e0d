SPECIFICATION FairSpec
CONSTANTS
    None = None
    Images <- SomeImages
    Factory <- OnlyDelivered
    Manifests <- SomeManifests
    Project = "gateway"
    Schema = 1
    PartBound = 16
    AutoReboot = TRUE
    RcpImages <- BothRcp
    RcpRequests <- SomeRequests
    RcpFactory <- OldRcp
    HasReset = TRUE
    HasProbe = TRUE
    MaxFaults = 1
    MaxUpdates = 2
    MaxPowerCuts = 2
INVARIANTS
    ImagesAreSafe
    RcpIsSafe
PROPERTIES
    StagedIsWanted
    FirmwareSettles
CHECK_DEADLOCK FALSE
