----------------------------- MODULE MCServices -----------------------------
(* Three application threads of two priorities, the idle thread and an        *)
(* interrupt handler that share one object: an event, a memory pool, a data   *)
(* queue, a completion, a work queue, the heap, the console line, an SPI bus  *)
(* or the hard timers; or one thread that receives files; or the power        *)
(* management.  The initial state says which, and the others rest.  The same  *)
(* two model values are the events, the items of the data queue, the work,    *)
(* the bytes of the line and the settings of the bus.                         *)
EXTENDS Event, MemPool, DataQueue, Completion, WorkQueue, Leuart, Devices, TLC

CONSTANTS idle, hi, lo1, lo2, b1, b2, c1, c2,
          Object

VARIABLE object  \* one of Object

ASSUME ServicesAssumption ==
    /\ MemPoolAssumption
    /\ DataQueueAssumption
    /\ CompletionAssumption
    /\ WorkQueueAssumption
    /\ LeuartAssumption
    /\ Object \subseteq {"event", "pool", "data", "completion", "work", "heap", "update",
                         "line", "power", "bus", "timers"}

MCThread == {idle, hi, lo1, lo2}

MCBasePrio == [t \in MCThread |-> IF t = idle THEN 2 ELSE IF t = hi THEN 0 ELSE 1]

\* Of one event alone, all and one are the same; only one of two is also left
\* in the set.
MCAsk == {c \in RecvCalls : /\ Cardinality(c.want) = 1 => c.mode = "AND"
                            /\ c.clear \/ c.mode = "OR"}

\* A file of two blocks and one of one block.
MCLength == <<2, 1>>

\* The callback of the periodic timer may stop either, that of the other one the
\* periodic timer.
MCStops == [x \in {c1, c2} |-> IF x = c1 THEN {c1, c2} ELSE {c1}]

MCSymmetry == Permutations({lo1, lo2}) \cup Permutations({b1, b2})

\* The variables of the objects with the threads of the kernel.
kernelVars == <<ipcVars, set, mpVars, dqVars, cpVars, wqVars, lineVars>>

allVars == <<object, kernelVars, plainVars>>

ServicesInit ==
    /\ object \in Object
    /\ EvInit /\ MpInit /\ DqInit /\ CpInit /\ WqInit /\ LeInit
    /\ MH!Init /\ YM!Init /\ PM!Init /\ SP!Init /\ HT!Init

EventNext ==
    /\ object = "event" /\ EvNext
    /\ UNCHANGED <<object, mpVars, dqVars, cpVars, wqVars, lineVars, plainVars>>

PoolNext ==
    /\ object = "pool" /\ MpNext
    /\ UNCHANGED <<object, set, dqVars, cpVars, wqVars, lineVars, plainVars>>

DataNext ==
    /\ object = "data" /\ DqNext
    /\ UNCHANGED <<object, set, mpVars, cpVars, wqVars, lineVars, plainVars>>

CompletionNext ==
    /\ object = "completion" /\ CpNext
    /\ UNCHANGED <<object, set, mpVars, dqVars, wqVars, lineVars, plainVars>>

WorkNext ==
    /\ object = "work" /\ WqNext
    /\ UNCHANGED <<object, set, mpVars, dqVars, cpVars, lineVars, plainVars>>

HeapNext ==
    /\ object = "heap" /\ MH!HeapNext
    /\ UNCHANGED <<object, kernelVars, updateVars, powerVars, busVars, timerVars>>

UpdateNext ==
    /\ object = "update" /\ YM!YmodemNext
    /\ UNCHANGED <<object, kernelVars, heapVars, powerVars, busVars, timerVars>>

\* Only a session that is over may stop.
UpdateOver ==
    /\ object = "update" /\ rym_at = "end"
    /\ UNCHANGED allVars

LineNext ==
    /\ object = "line" /\ LeNext
    /\ UNCHANGED <<object, set, mpVars, dqVars, cpVars, wqVars, plainVars>>

PowerNext ==
    /\ object = "power" /\ PM!PmNext
    /\ UNCHANGED <<object, kernelVars, heapVars, updateVars, busVars, timerVars>>

BusNext ==
    /\ object = "bus" /\ SP!SpiNext
    /\ UNCHANGED <<object, kernelVars, heapVars, updateVars, powerVars, timerVars>>

TimersNext ==
    /\ object = "timers" /\ HT!HardTimerNext
    /\ UNCHANGED <<object, kernelVars, heapVars, updateVars, powerVars, busVars>>

ServicesNext ==
    \/ EventNext \/ PoolNext \/ DataNext \/ CompletionNext \/ WorkNext \/ HeapNext
    \/ UpdateNext \/ UpdateOver \/ LineNext \/ PowerNext \/ BusNext \/ TimersNext

ServicesSpec ==
    ServicesInit /\ [][ServicesNext]_allVars

-----------------------------------------------------------------------------
(* The properties of the one that is used *)

\* The lists, counts and thread states of the object agree with one another in
\* every state between two sections: the ready lists and wait lists with the
\* states of the threads, the speed and the sleep mode with the requests, the
\* registers and the chip select with the owner of the bus, the timers' list with
\* their flags and the tick.
ServicesConsistent ==
    CASE object = "event"      -> EvConsistent
      [] object = "pool"       -> MpConsistent
      [] object = "data"       -> DqConsistent
      [] object = "completion" -> CpConsistent
      [] object = "work"       -> WqConsistent
      [] object = "line"       -> LeConsistent
      [] object = "power"      -> PM!PowerConsistent
      [] object = "bus"        -> SP!BusConsistent
      [] object = "timers"     -> HT!TimersConsistent
      [] OTHER                 -> TRUE

\* No thread sleeps in a call of the object that could go on: beside a set
\* event, a free block, an item, a free place, a completion, work or a byte.
NoThreadStranded ==
    CASE object = "event"      -> EvNoneStranded
      [] object = "pool"       -> MpNoneStranded
      [] object = "data"       -> DqNoneStranded
      [] object = "completion" -> CpNoneStranded
      [] object = "work"       -> WqNoneStranded
      [] object = "line"       -> LeNoneStranded
      [] OTHER                 -> TRUE

\* A receiver of events, a waiter for a completion and both ends of a firmware
\* download are told the truth.
ResultTrue ==
    /\ object = "event" => OutcomeTrue
    /\ object = "completion" => CompletionTrue
    /\ object = "update" => YM!FilesTrue

\* A block of the pool is free, once, or allocated, and the count of free blocks
\* is right.  The blocks of the heap tile it, its free blocks are listed and
\* counted, and each used block is as large as was asked for.
BlocksAccounted ==
    /\ object = "pool" => MpBlocksAccounted
    /\ object = "heap" => MH!HeapConsistent

\* The worker finds work whenever it takes some, pending work is waiting for it,
\* and a synchronous cancellation outlasts the run that it found.
WorkAccounted == object = "work" => WqHasWork /\ WqAccounted

\* The first part alone: the worker takes work only from a list that has some,
\* as "we have work to do with" (workqueue.c:68) says.
WorkToDo == object = "work" => WqHasWork

\* No send gives an event to two threads that both take it out of the set.
EventTakenOnce == [][object = "event" /\ wl' # wl => TakesOnce]_evSpecVars

\* The items of the data queue are popped once and in order.
DataImplementsFifo == ImplementsFifo

\* The regions that the heap has lent do not overlap.
HeapImplementsAllocator == MH!ImplementsAllocator

\* The bytes of the console line are read in order, the oldest may be lost.
LineImplementsBacklog == ImplementsBacklog
=============================================================================
