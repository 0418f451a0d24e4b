SPECIFICATION SceneSpec
CONSTANTS
    h1 = h1
    h2 = h2
    h3 = h3
    e1 = e1
    e2 = e2
    e3 = e3
    x1 = x1
    x2 = x2
    k1 = k1
    k2 = k2
    None = None
    m1 = m1
    m2 = m2
    p2 = p2
    n2 = n2
    p1 = p1
    r1 = r1
    s1 = s1
    s2 = s2
    n1 = n1
    Hotkeys = {h1, h2, h3}
    Coldkeys = {k1, k2}
    Endpoints = {e1, e2, e3}
    Chips = {x1, x2}
    Measurements = {m1, m2}
    Probers = {p1, p2}
    Runtimes = {r1}
    Nonces = {n1, n2}
    Governed = {TRUE, FALSE}
    Operator = {"remove", "reenroll"}
    TTL = 1
    RetryDelay = 1
    MaxFailures = 2
    MaxPerColdkey = 1
    MaxTotal = 2
    MaxTime = 1
    MaxGeneration = 2
    MaxRevision = 3
    Coldkey <- TwoOwners
    Services = {s1, s2}
    Versions = {1, 2}
    Damaged = 3
    ApprovedBy <- SecondOnlyK2
    Snapshots <- ThreeSnapshots
    Requests <- TwoWorkers
    AttemptLimit = 2
    Window = 0
    MaxRestarts = 1
    ChipAt <- SharedHost
INVARIANTS OneChipOneWorker EvidenceFromCurrentEndpoint RemovedOffBoard CapsHold AdmittedByNewest LostAnswersCheap
PROPERTIES TokenAdvances NoSelfRecovery
CHECK_DEADLOCK FALSE
SYMMETRY Anonymous
