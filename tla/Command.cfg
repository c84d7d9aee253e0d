SPECIFICATION FairSpec
CONSTANTS
    c1 = c1
    c2 = c2
    Commands <- MCCommands
    Correlation <- MCSameIds
    Power <- MCCommands
    MaxRetries = 1
    MaxPending = 1
    IngressCapacity = 1
    ResultCapacity = 1
    EventCapacity = 2
    EventsPerCycle = 1
    Timeout = 1
    TimeRange = 4
    MaxLag = 1
    MaxOther = 2
INVARIANTS
    OneStage
    TablesAgree
    RetriesKeepLimits
PROPERTIES
    NoSendAfterCompletion
    AcceptedEnds
