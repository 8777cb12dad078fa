SPECIFICATION Spec
CONSTANTS
    daemon = daemon
    hi = hi
    idle = idle
    lo = lo
    x1 = x1
    x2 = x2
    Thread = {daemon, hi, lo}
    Idle = lo
    PrioMax = 4
    Timer = {x2}
    ListHead = ListHead
    Daemon = daemon
    Owner <- OwnedByHi
    Period <- MCPeriod
    Periodic = {}
    Restarting = {}
    BasePrio <- MCBasePrio
    TickMod = 11
    MaxLag = 1
INVARIANTS
    AsleepWhenNone
