SPECIFICATION FairSpec

CONSTANTS
    Capacity = 2
    QueueBound = 1
    Limit = 2
    ConnectTimeout = 1
    Delay = 1
    Asked = {"good", "bad"}
    Saves = {TRUE, FALSE}
    MaxRequests = 2
    MaxFaults = 2
INVARIANTS
    ScansAreTold
PROPERTIES
    SnapshotSettles
    NothingHangs
CHECK_DEADLOCK FALSE
