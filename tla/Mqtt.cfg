SPECIFICATION FairSpec
CONSTANTS
    d1 = d1
    d2 = d2
    warm = warm
    None = None
    NoReading = NoReading
    Devices = {d1,d2}
    Readings = {warm}
    Restored <- OneDevice
    MaxDevices = 1
    BatchBound = 2
    Window = 1
    MaxChanges = 2
    MaxCommands = 1
    MaxFaults = 1
INVARIANTS
    CacheHolds
    ConnectedIsSubscribed

    
