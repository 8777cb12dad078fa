SPECIFICATION LifeSpec
CONSTANTS
    idle = idle
    hi = hi
    lo1 = lo1
    lo2 = lo2
    Thread <- MCThread
    Idle = idle
    PrioMax = 3
    BasePrio <- MCBasePrio
    None = None
    Static = {lo1, lo2}
    Cleanup = {lo2}
    DeleteAsleep = TRUE
INVARIANTS
    ClosedOffQueues
