SPECIFICATION SemFairSpec
CONSTANTS
    idle = idle
    hi = hi
    lo1 = lo1
    lo2 = lo2
    Thread <- MCThread
    Idle = idle
    PrioMax = 3
    BasePrio <- MCBasePrio
    Flag = "PRIO"
    InitValue = 1
    SemMod = 4
    MaxCredit = 2
INVARIANTS
    SemTypeOK KernelConsistent Conservation NoStrandedWaiter SemWaitersParked SemPreemptionPending WaitersOrdered
PROPERTIES
    TimedTakeReturns ImplementsPool
