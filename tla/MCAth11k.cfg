SPECIFICATION ModelSpec
CONSTANTS
    Entries = 4
    MaxTx = 2
    MaxRx = 3
    MaxFaults = 2
    Bad = FALSE
INVARIANTS
    CeSafe
    HtcSound
PROPERTIES
    TransportSteps
CHECK_DEADLOCK FALSE
