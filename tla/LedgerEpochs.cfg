\* Three epoch attempts without work, and one epoch that scores two workers and a job.
CONSTANTS
    Hotkeys = {h1, h2}
    Jobs = {j1}
    Customers = {c1}
    Keys = {}
    Payloads = {w1}
    Audiences = {a1}
    Evidence = {d1}
    Snapshots <- TwoSnapshots
    Publishers = {p1}
    PosterAudience = a1
    SourceEpochs = {0, 1, 2}
    Units = {1}
    MaxEpochs = 3
    MaxTime = 0
    LeaseTime = 1
    MaxAttempts = 1
    MaxActive = 1
    MaxActivePerCustomer = 1
    ResultSizes = {1}
    PayloadBytes = 1
    ErrorBytes = 1
    MaxResultBytes = 1
    MaxStorageBytes = 6
    MaxCandidates = 2
    MaxVerified = 1
    None = None
SPECIFICATION SceneSpec
INVARIANTS TablesAgree EpochsInOrder PublishedWasAccepted FrozenReportReproducible
PROPERTIES SettledForever
CHECK_DEADLOCK FALSE
SYMMETRY Interchangeable
