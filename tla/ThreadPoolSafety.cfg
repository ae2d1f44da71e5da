SPECIFICATION Spec
CONSTANTS
    Workers = {w1, w2}
    Clients = {c1, c2}
    Tasks = {t1, t2, t3}
    SpinBudget = 1
    NoTask = NoTask
SYMMETRY Interchangeable
INVARIANTS Accounting WorkConserving DestroyDrains
PROPERTIES ParallelForDrains FirstErrorReported WaitAllCovers
