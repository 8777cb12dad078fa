SPECIFICATION FairLifeSpec
CONSTANTS
    idle = idle
    hi = hi
    lo1 = lo1
    lo2 = lo2
    Thread <- MCThread
    Idle = idle
    PrioMax = 3
    BasePrio <- MCBasePrio
    None = None
    Static = {hi, lo1}
    Cleanup = {hi, lo2}
    DeleteAsleep = FALSE
INVARIANTS
    LifeConsistent DeadAccounted
PROPERTIES
    ImplementsLifecycle DeadReaped
