SPECIFICATION FairSpec
CONSTANTS
    idle = idle
    hi = hi
    mid = mid
    lo = lo
    Thread <- MCThread
    Idle = idle
    PrioMax = 4
    BasePrio <- MCBasePrio
    m1 = m1
    m2 = m2
    Mutex = {m1}
    None = None
    Flag = "PRIO"
    HoldMod = 256
    MaxHold = 2
INVARIANTS
    Consistent OwnerInherits NeverDemoted BoostEnds
PROPERTIES
    UrgentTakeReturns ImplementsLock
