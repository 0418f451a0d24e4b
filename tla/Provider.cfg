\* One Worker with a retry, two permits an attempt, and three points in time.
CONSTANTS
    Requests = {r1, r2}
    Nonces = {n1, n2}
    Cap = 2
    MaxAttempts = 2
    MaxPermits = 2
    MaxTime = 2
    None = None
SPECIFICATION Spec
INVARIANTS ChargeBacked GuestsAccounted
PROPERTIES BillKept
SYMMETRY Interchangeable
CHECK_DEADLOCK FALSE
