SPECIFICATION FairControlSpec
CONSTANTS
    MaxEpoch = 3
    MaxScans = 1
    MaxUpcalls = 2
    Faulty = FALSE
    MaxCommands = 2
    Limit = 4
PROPERTY
    ScanAnswered
CHECK_DEADLOCK FALSE
