\* A prober and a runtime admit two workers with two GPUs.
CONSTANTS
    Hotkeys = {h1, h2}
    Canary = canary
    Gpus = {g1, g2}
    Processes = {p1, p2}
    None = None
    MaxGeneration = 5
SPECIFICATION Spec
INVARIANTS AnchorRecoverable OneGpuOneHolder
PROPERTIES CommittedForever
SYMMETRY Interchangeable
CHECK_DEADLOCK FALSE
