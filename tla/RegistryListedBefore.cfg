SPECIFICATION Spec
CONSTANTS
    h1 = h1
    h2 = h2
    h3 = h3
    e1 = e1
    e2 = e2
    e3 = e3
    x1 = x1
    x2 = x2
    k1 = k1
    k2 = k2
    None = None
    m1 = m1
    r1 = r1
    n1 = n1
    n2 = n2
    Hotkeys = {h1}
    Coldkeys = {k1, k2}
    Endpoints = {e1, e2}
    Chips = {x1, x2}
    Measurements = {m1}
    Probers = {}
    Runtimes = {r1}
    Nonces = {n1, n2}
    Governed = {FALSE}
    Operator = {}
    TTL = 1
    RetryDelay = 1
    MaxFailures = 2
    MaxPerColdkey = 1
    MaxTotal = 2
    MaxTime = 0
    MaxGeneration = 2
    MaxRevision = 3
    Coldkey <- OneOwner
    ChipAt <- SharedHost
INVARIANT EvidenceFromCurrentEndpoint
CHECK_DEADLOCK FALSE
