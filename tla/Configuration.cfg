SPECIFICATION FairSpec
CONSTANTS
    Slots = 2
    QueueBound = 2
    MaxRetries = 5
    DefaultTimeout = 5
    DefaultRetries = 1
    Olds <- AllOlds
    Changes <- SomeChanges
    Profiles <- SomeProfiles
    MaxRequests = 3
    MaxFaults = 2
INVARIANTS
    RestartIsNoSurprise
    AcceptedIsKept
PROPERTIES
    AcceptedIsApplied
CHECK_DEADLOCK FALSE
