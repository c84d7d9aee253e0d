SPECIFICATION Spec
CONSTANTS
    SlotCount = 3
    Runtime = runtime
    r1 = r1
    r2 = r2
    a = a
    b = b
    Readers <- MCReaders
    Payload <- MCPayload
    InitPayload <- MCInitPayload
    NoPayload = none
    MaxRevision = 3
SYMMETRY Symmetry
INVARIANTS
    ReadsAreSound
    ReadersHoldUpOneSlot
PROPERTIES
    ReadsNeverGoBack
    ImplementsStore
