SPECIFICATION Spec
CONSTANTS
    Capacity = 2
    MaxRequests = 2
    Submitted = {"ota", "rcp"}
    AutoReboot = TRUE
INVARIANTS
    NeverBothRun
CHECK_DEADLOCK FALSE
