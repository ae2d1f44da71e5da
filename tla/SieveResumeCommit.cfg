CONSTANTS
    Yield <- MCYield
    Interval = 2
    RoundLimit = 3
    FirstTarget = 2
    TargetCap = 5
    Needed = 4
    MinRaw = 1
    RawCleanup = {TRUE}
    None = None
    MaxStarts = 4
    MaxFaults = 0
    PowerCuts = FALSE
SPECIFICATION Spec
INVARIANT FailureKeepsCheckpoint
CHECK_DEADLOCK FALSE
