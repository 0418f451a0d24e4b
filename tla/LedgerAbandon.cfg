\* What an abandoned epoch's report may have become downstream.
CONSTANTS
    Hotkeys = {}
    Jobs = {}
    Customers = {}
    Keys = {}
    Payloads = {}
    Audiences = {a1}
    Evidence = {}
    Snapshots <- NoSnapshots
    Publishers = {p1}
    PosterAudience = a1
    SourceEpochs = {0}
    Units = {1}
    MaxEpochs = 2
    MaxTime = 0
    LeaseTime = 1
    MaxAttempts = 1
    MaxActive = 1
    MaxActivePerCustomer = 1
    ResultSizes = {}
    PayloadBytes = 1
    ErrorBytes = 1
    MaxResultBytes = 1
    MaxStorageBytes = 1
    MaxCandidates = 2
    MaxVerified = 2
    None = None
SPECIFICATION Spec
INVARIANTS AbandonedNeverAccepted
CHECK_DEADLOCK FALSE
