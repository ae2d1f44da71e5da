SPECIFICATION FairSpec
CONSTANTS
    Workers = {w1, w2}
    Clients = {c1}
    Tasks = {t1, t2}
    SpinBudget = 1
    NoTask = NoTask
PROPERTIES QueuedRuns CallsReturn
