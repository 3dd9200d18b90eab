SPECIFICATION ModelSpec
CONSTANTS
    e1 = e1
    e2 = e2
    s1 = s1
    Epochs <- MCEpochs
    Children <- MCChildren
    ParentOf <- MCParentOf
    NoEpoch = NoEpoch
    MaxTime = 1
    COMMAND_CAPACITY = 2
    CONTROL_CAPACITY = 1
    Kinds = {"link_up", "operation", "transmit"}
    MaxRequests = 3
    Capacity = 2
    EventCap = 1
    MaxEpoch = 5
    MaxGen = 3
    MaxCalls = 3
INVARIANTS
    ActorSafe
    RepliesConserved
    BridgeSafe
PROPERTIES
    CallsSound
CHECK_DEADLOCK FALSE
