SPECIFICATION FairSpec

CONSTANTS
    Durations = {1, 2}
    RejoinWindow = 1
    LongWindow = 1
    StackWindow = 2
    RetryDelay = 1
    Cooldown = 1
    SignalBound = 2
    MaxInputs = 3
    MaxFaults = 1
INVARIANTS
    WindowIsKnown
PROPERTIES
    StartCompletes
    AllCloses
CHECK_DEADLOCK FALSE
