SPECIFICATION AnySpec
CONSTANTS
    Callers = {p1, p2}
    Values = {v1, v2}
    Files = {f1, f2, f3}
    NoFile = NoFile
    Torn = Torn
    None = None
    Gens = {g1, g2}
    Foreign = Foreign
    Generations = 3
    MaxCrashes = 4
    Workers = 3
    MaxTroubles = 3
    Yield <- MCYield
    Interval = 2
    RoundLimit = 3
    FirstTarget = 2
    TargetCap = 5
    Needed = 4
    MinRaw = 1
    RawCleanup = {TRUE, FALSE}
    MaxStarts = 4
    MaxFaults = 3
    PowerCuts = TRUE
    Slots = 3
INVARIANTS EveryPrefixResumable CorpusExact NothingSpentInVain
PROPERTIES KeepsRegister NoRefusalWithoutCause ActsOnDurableAuthority MergeKeepsLedger ProgressKept EveryCallEnds
CHECK_DEADLOCK FALSE
