SPECIFICATION ModelSpec
CONSTANTS
    RxRings = 2
    TxRings = 4
    Page = 4
    BufferBytes = 2
    RxCount = 4
    Limit = 31
    Addresses = {0, 2, 4, 12, 28}
    Tokens = {1}
    Peers <- OnePeerOfEach
    Tids = {0, 7}
    MaxPn = 2
    MaxGeneration = 2
    MaxHidden = 1
    DRIVER_OWN_ATTEMPTS = 2
    DRIVER_OWN_ATTEMPT_MS = 3
    DRIVER_OWN_POLL_MS = 1
    ASPM_DELAY_MS = 2
    MaxDeadline = 9
    MaxAxis = 1
    MaxLineage = 2
    MaxObservation = 4
    Fingerprints = {1, 2}
INVARIANTS
    BringupSafe
    OwnershipSafe
    MailboxSafe
    ClientSafe
    AuthoritySafe
PROPERTIES
    RadioSteps
    OneTerminalPerAttempt
CHECK_DEADLOCK FALSE
