SPECIFICATION ProberSpec
CONSTANTS
    h1 = h1
    h2 = h2
    h3 = h3
    e1 = e1
    e2 = e2
    e3 = e3
    x1 = x1
    x2 = x2
    k1 = k1
    k2 = k2
    None = None
    m1 = m1
    p1 = p1
    n1 = n1
    Hotkeys = {h1, h2}
    Coldkeys = {k1, k2}
    Endpoints = {e1}
    Chips = {x1, x2}
    Measurements = {m1}
    Probers = {p1}
    Runtimes = {}
    Nonces = {n1}
    Governed = {FALSE}
    Operator = {"retire"}
    TTL = 1
    RetryDelay = 0
    MaxFailures = 2
    MaxPerColdkey = 1
    MaxTotal = 2
    MaxTime = 0
    MaxGeneration = 1
    MaxRevision = 3
    Coldkey <- OneOwner
    ChipAt <- SharedHost
PROPERTY Settles
CHECK_DEADLOCK FALSE
