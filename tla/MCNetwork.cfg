SPECIFICATION ModelSpec
CONSTANTS
    MaxLinks = 3
    Room = 2
    MaxChanges = 1
    Faults = TRUE
INVARIANTS
    LinkSafe
    RelaySafe
    NamespaceSafe
CHECK_DEADLOCK FALSE
