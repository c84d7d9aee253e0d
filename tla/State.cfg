SPECIFICATION FairSpec
CONSTANTS
    i1 = i1
    i2 = i2
    a1 = a1
    a2 = a2
    k1 = k1
    v1 = v1
    NoId = NoId
    NoAddr = NoAddr
    NoReading = NoReading
    NoBlob = NoBlob
    MaxDevices = 2
    Ids <- MCOneId
    Addrs <- MCAddrs
    Kinds <- MCKinds
    Readings <- MCReadings
    Times <- MCTimes
    RevisionRange = 2
    EventsPerCycle = 1
    Inputs <- MCLives
INVARIANTS
    RecordsAreExact
    CleanIsSaved
PROPERTIES
    ChangesArePublished
    FlashCatchesUp
