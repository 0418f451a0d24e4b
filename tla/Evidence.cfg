\* Two exporters with their own keys, and two auditors of one state file.
CONSTANTS
    a = a
    b = b
    x1 = x1
    x2 = x2
    k1 = k1
    k2 = k2
    Hotkeys = {a, b}
    FactsAt <- VariedFacts
    Variants = {plain, whole}
    VariantsAt <- SecondVaries
    WithVerifier = {whole}
    Exporters = {x1, x2}
    Keys = {k1, k2}
    KeyOf <- TwoKeys
    Auditors = {v1, v2}
    MaxEpoch = 3
    MaxRecent = 1
    MaxReceipts = 2
    MaxStale = 1
    MaxCrashes = 1
    MaxDamage = 1
    None = None
    Corrupt = Corrupt
SPECIFICATION SceneSpec
INVARIANTS RowsResolve ExportVerifies  FullMeansReplayed
PROPERTIES LatestAdvances FencesAdvance
CHECK_DEADLOCK FALSE
SYMMETRY Interchangeable
