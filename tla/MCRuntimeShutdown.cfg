SPECIFICATION ModelSpec
CONSTANTS
    e1 = e1
    e2 = e2
    s1 = s1
    Epochs <- MCEpochs
    Children <- MCChildren
    ParentOf <- MCParentOf
    NoEpoch = NoEpoch
    MaxTime = 1
    COMMAND_CAPACITY = 1
    CONTROL_CAPACITY = 1
    Kinds = {"operation"}
    MaxRequests = 2
    Capacity = 2
    EventCap = 1
    MaxEpoch = 2
    MaxGen = 2
    MaxCalls = 3
INVARIANTS
    ShutdownTypeOK
PROPERTIES
    OwnershipSurvives
    OkMeansContained
    HostServes
CHECK_DEADLOCK FALSE
