SPECIFICATION MpSpec
CONSTANTS
    idle = idle
    hi = hi
    lo1 = lo1
    lo2 = lo2
    Thread <- MCThread
    Idle = idle
    PrioMax = 3
    BasePrio <- MCBasePrio
    Flag = "FIFO"
    WaitList = {"alloc"}
    b1 = b1
    b2 = b2
    MpBlock = {b1, b2}
    Null = Null
    Pool = Pool
    MaxSuspended = 4
INVARIANTS
    WaitersCounted
SYMMETRY MCSymmetry
