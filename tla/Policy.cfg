\* A timer and an operator installing two releases after the first.
CONSTANTS
    p1 = p1
    p2 = p2
    k1 = k1
    k2 = k2
    m1 = m1
    m2 = m2
    Profiles = {p1, p2}
    Keys = {k1, k2}
    Materials = {m1, m2}
    First <- OneOfEach
    Edits <- SomeEdits
    Operators = {operator}
    Timers = {timer}
    Runtimes = {v1, v2}
    MinRelease = 1
    MaxRelease = 3
    MaxTime = 1
    MaxAge = 0
    MaxReceipts = 1
    MaxFails = 1
    None = None
SPECIFICATION RaceSpec
INVARIANTS OneDigestPerRelease PinnedResolvable LiveAcceptable ReceiptsStand
PROPERTIES AcceptedAdvances
CHECK_DEADLOCK FALSE
SYMMETRY Interchangeable
