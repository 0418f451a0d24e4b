\* Three customer jobs leased over two epochs, with expiring leases and little storage.
CONSTANTS
    Hotkeys = {h1}
    Jobs = {j1, j2, j3}
    Customers = {c1}
    Keys = {k1}
    Payloads = {w1}
    Audiences = {}
    Evidence = {}
    Snapshots <- NoSnapshots
    Publishers = {}
    PosterAudience = a1
    SourceEpochs = {0}
    Units = {1}
    MaxEpochs = 2
    MaxTime = 1
    LeaseTime = 1
    MaxAttempts = 2
    MaxActive = 2
    MaxActivePerCustomer = 2
    ResultSizes = {2}
    PayloadBytes = 1
    ErrorBytes = 1
    MaxResultBytes = 2
    MaxStorageBytes = 7
    MaxCandidates = 2
    MaxVerified = 2
    None = None
SPECIFICATION CustomerSpec
INVARIANTS LeaseFence JobCreditedOnce QueueBounded
SYMMETRY Interchangeable
CHECK_DEADLOCK FALSE
