\* Two processes redeem one grant while its worker and policies change.
CONSTANTS
    Callers = {c1, c2}
    Services = {c1, c2}
    ServiceOf <- OwnProcess
    Assignments = {a1}
    Workers = {h1}
    Keys = {k1}
    None = None
    AssignmentTTL = 2
    GrantTTL = 2
    EvidenceTTL = 1
    MaxAge = 1
    Skew = 0
    DurableBroker = FALSE
    MaxTime = 1
    MaxEvents = 2
    MaxRelease = 1
    MaxUnwraps = 2
SPECIFICATION Spec
INVARIANTS RecordedBeforeUnwrap OneCiphertext CurrentAtRelease
CONSTRAINT OneRollover
SYMMETRY Interchangeable
CHECK_DEADLOCK FALSE
