SPECIFICATION FairSpec
CONSTANTS
    daemon = daemon
    hi = hi
    idle = idle
    lo = lo
    x1 = x1
    x2 = x2
    Thread = {daemon, lo, idle}
    Idle = idle
    PrioMax = 4
    Timer = {x2}
    ListHead = ListHead
    Daemon = daemon
    Owner <- OwnedByLo
    Period <- MCPeriod
    Periodic = {}
    Restarting = {}
    BasePrio <- MCBasePrio
    TickMod = 11
    MaxLag = 1
PROPERTIES
    TimerFires
