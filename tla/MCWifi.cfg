SPECIFICATION ModelSpec
CONSTANTS
    Apps = {"a1", "a2", "a3"}
    Networks = {"n1", "n2"}
    Used = {"Connect", "Disconnect", "Forget"}
    MaxClients = 2
    Limit = 1
    None = "none"
INVARIANTS
    RuntimeSafe
    ControlSafe
    SessionSafe
    PolicySafe
PROPERTIES
    CleanupSound
    AnswersAreTrue
CHECK_DEADLOCK FALSE
