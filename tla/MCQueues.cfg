SPECIFICATION QueuesSpec
CONSTANTS
    idle = idle
    hi = hi
    lo1 = lo1
    lo2 = lo2
    v1 = v1
    v2 = v2
    Thread <- MCThread
    Idle = idle
    PrioMax = 3
    BasePrio <- MCBasePrio
    Flag = "FIFO"
    WaitList = {"recv", "send"}
    Message = {v1, v2}
    Nothing = Nothing
    Size = 2
    b1 = b1
    b2 = b2
    MqBlock = {b1, b2}
    Null = Null
INVARIANTS
    QueuesConsistent NoThreadStranded BlocksAccounted CopyIntact
PROPERTIES
    QueuesImplementFifo
SYMMETRY MCSymmetry
