SPECIFICATION FairSpec
CONSTANTS
    d1 = d1
    d2 = d2
    v1 = v1
    v2 = v2
    None = None
    NoEndpoint = 0
    Devices = {d1, d2}
    Classes <- SomeClasses
    Values <- ValuesOf
    Default <- ByClass
    Map <- SomeMap
    Restored <- Nobody
    MaxDevices = 1
    MaxChanges = 3
    MaxFaults = 1
INVARIANTS
    ShadowsAreSound
PROPERTIES
    EndpointsSettle
