SPECIFICATION FairSpec
CONSTANTS
    Child = c
    Kids = {k}
    Streams = {out}
    Limit = 1
    MaxWrites = 2
INVARIANTS NothingLeftBehind SuccessIsWhole PublishedOutcomeWins
PROPERTIES NoSignalAfterReap CallReturns
CHECK_DEADLOCK FALSE
