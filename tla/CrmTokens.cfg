SPECIFICATION Spec
CONSTANTS
    worker = worker
    console = console
    a1 = a1
    a2 = a2
    a3 = a3
    Adapter = {a1, a2, a3}
    Process = {worker, console}
    Home <- MCHome
    Free = Free
    MaxPairs = 5
    MaxLost = 1
INVARIANTS
    TypeOK
    OneRefreshPerProcess
    NewestPairIsKept
CHECK_DEADLOCK FALSE
