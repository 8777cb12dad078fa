SPECIFICATION Spec
CONSTANTS
    daemon = daemon
    hi = hi
    idle = idle
    lo = lo
    x1 = x1
    x2 = x2
    Thread = {daemon, lo, idle}
    Idle = idle
    PrioMax = 4
    Timer = {x1, x2}
    ListHead = ListHead
    Daemon = daemon
    Owner <- OwnedByLo
    Period <- MCPeriod
    Periodic = {x2}
    Restarting = {x2}
    BasePrio <- MCBasePrio
    TickMod = 13
    MaxLag = 1
INVARIANTS
    Consistent ListedActive ListOrdered AsleepWhenNone WakesInTime
PROPERTIES
    FiresListed
