SPECIFICATION Spec

CONSTANTS
    d1 = d1
    d2 = d2
    NoId = NoId
    NoAddr = NoAddr
    NoReading = NoReading
    Addrs <- MCAddrs
    Ids = {}
    Kinds <- MCKinds
    Readings <- MCReadings
    Times <- MCTimes
    MaxDevices = 1
    RevisionRange = 2
    QueueCapacity = 1
    EventsPerCycle = 1
    Removals = 1
    History = 1
    ClockRange = 3
    DedupWindow = 1
    SilenceWindow = 1
    RemovalDelay = 1
    Debounce = 1
    Hold = 1
    MaxInputs = 4
    Heard <- MCHeard
INVARIANTS
    SuppressedIsAccounted
    ReportingAgrees
PROPERTIES
    SilenceIsNoticed
    ForcedOutLeaves
