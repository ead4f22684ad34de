SPECIFICATION Spec
CONSTANTS
    worker = worker
    console = console
    a1 = a1
    a2 = a2
    a3 = a3
    Adapter = {a1, a2}
    Process = {worker}
    Home <- OneHome
    Free = Free
    MaxPairs = 5
    MaxLost = 0
INVARIANTS
    FlagMeansDead
CHECK_DEADLOCK FALSE
