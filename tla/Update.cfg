SPECIFICATION FairSpec
CONSTANTS
    Capacity = 2
    MaxRequests = 2
    Submitted = {"ota", "rcp"}
    AutoReboot = TRUE
INVARIANTS
    NeverBothWait
    ClientsAreTold
    MqttComesBack
PROPERTIES
    ImplementsQueues
    AcceptedEnds
CHECK_DEADLOCK FALSE
