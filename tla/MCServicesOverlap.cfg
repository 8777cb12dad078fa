SPECIFICATION ServicesSpec
CONSTANTS
    idle = idle
    hi = hi
    lo1 = lo1
    lo2 = lo2
    Thread <- MCThread
    Idle = idle
    PrioMax = 3
    BasePrio <- MCBasePrio
    Flag = "FIFO"
    WaitList = {"recv", "alloc", "push", "pop", "done", "sync", "lock", "rx"}
    b1 = b1
    b2 = b2
    Bit = {b1, b2}
    Ask <- MCAsk
    c1 = c1
    c2 = c2
    MpBlock = {c1, c2}
    Null = Null
    Pool = Pool
    MaxSuspended = 4
    Message = {b1, b2}
    Nothing = Nothing
    Size = 2
    Lwm = 0
    IndexMod = 65536
    MaxPut = 3
    Waiter = hi
    Work = {b1, b2}
    NoWork = NoWork
    Worker = hi
    Serial = FALSE
    Task = {lo1, lo2}
    PoolSize = 16
    Header = 2
    Mini = 1
    Request = {1, 2, 4, 6}
    Length <- MCLength
    Tries = 3
    MaxFault = 3
    Shell = hi
    Byte = {b1, b2}
    NoByte = NoByte
    RxSize = 4
    MaxRx = 2
    Mode = {0, 1, 3, 5}
    PmMax = 2
    Dev = {c1, c2}
    Setting = {b1, b2}
    Unset = Unset
    Nil = Nil
    TickMod = 9
    Timer = {c1, c2}
    Periodic = {c1}
    Stops <- MCStops
    Time = {1, 2}
    MaxLag = 1
    Object = {"work"}
INVARIANTS
    WorkToDo
