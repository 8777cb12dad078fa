SPECIFICATION Spec
CONSTANTS
    idle = idle
    hi = hi
    mid = mid
    lo = lo
    Thread <- MCThread
    Idle = idle
    PrioMax = 4
    BasePrio <- MCBasePrio
    m1 = m1
    m2 = m2
    Mutex = {m1, m2}
    None = None
    Flag = "PRIO"
    HoldMod = 256
    MaxHold = 1
INVARIANTS
    BoostEnds
