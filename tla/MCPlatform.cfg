SPECIFICATION ModelSpec
CONSTANTS
    Segments = {s1, s2, s3, s4}
    Parts = {1, 2}
    PerPage = 2
    high_watermark = 1
    MaxGen = 2
    Flavor = "Platform"
    Vectors = {0, 1}
    Eventfds = 2
    MaxIova = 2
    MaxIds = 3
    MaxGenerations = 3
    MaxFaults = 2
INVARIANTS
    PoolSafe
    SessionTracks
    ConfigHonest
PROPERTIES
    ImplementsOwnership
    ResetClears
    OnlyEnableStartsDma
CHECK_DEADLOCK FALSE
