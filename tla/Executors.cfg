CONSTANTS
    SlotCount = 5
    Requested = 3
    GroupWorkers = 3
    Count = 4
    MaxThreads = 2
    MaxWorkers = 3
    ChunkWidth = 16
    NumThreads = 3
    Workers = {w1, w2}
    LoopStart = 2
    LoopEnd = 7
    Grain = 2
    Width = 8
INVARIANTS AllOrNone NoWorkerOutlives EachIndexOnce
PROPERTIES KeepsPromise CallReturns
SPECIFICATION FairSpec
