\* Two processes, one with two threads, dispatch one execution.
CONSTANTS
    c1 = c1
    c2 = c2
    c3 = c3
    p1 = p1
    p2 = p2
    Callers = {c1, c2, c3}
    Processes = {p1, p2}
    ProcessOf <- TwoProcesses
    Executions = {x1}
    Requests = {r1, r2}
    Results = {s1, s2}
    None = None
    AssignmentExpiry <- LateExpiry
    PermitTTL = 1
    ClaimTime = 1
    MaxTime = 1
SPECIFICATION Spec
INVARIANTS OneResult ExpiredStaysExpired
PROPERTIES ClaimEndsWithItsCall
SYMMETRY Threads
CHECK_DEADLOCK FALSE
