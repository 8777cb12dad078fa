----------------------------- MODULE DataQueue -----------------------------
(***************************************************************************)
(* rt_data_queue_push and rt_data_queue_pop of src/rt-thread/components/   *)
(* drivers/src/dataqueue.c: a ring of items between two free-running       *)
(* 16-bit indices.  A waiting pusher is woken only when the queue has come *)
(* down to its low-water mark.  No evt_notify is registered.               *)
(***************************************************************************)
EXTENDS Ipc

CONSTANTS Message,  \* the items that are pushed
          Nothing,  \* the content of an unused slot
          Size,     \* queue->size
          Lwm,      \* queue->lwm
          IndexMod, \* 2 to the width of an index: 65536
          MaxPut    \* bound: the pushes that are followed

DataQueueAssumption ==
    /\ {"push", "pop"} \subseteq WaitList
    /\ Size \in Nat \ {0} /\ Lwm \in 0 .. Size - 1
    /\ IndexMod \in Nat /\ IndexMod > Size /\ MaxPut \in Nat

VARIABLES item,       \* queue->queue
          put_index,  \* queue->put_index
          get_index,  \* queue->get_index
          pushes,     \* the pushes so far
          popped      \* the last item that rt_data_queue_pop wrote

dqVars == <<item, put_index, get_index, pushes, popped>>

dqSpecVars == <<ipcVars, dqVars>>

DqInit ==
    /\ IpcInit
    /\ item = [i \in 0 .. Size - 1 |-> Nothing]
    /\ put_index = 0 /\ get_index = 0 /\ pushes = 0
    /\ popped = Nothing

-----------------------------------------------------------------------------
PushCall(v, time) == [op |-> "push", val |-> v, time |-> time]

PopCall(time) == [op |-> "pop", time |-> time]

\* The indices are promoted to int before they are compared.
Full == put_index - get_index = Size

Empty == get_index = put_index

Store(v) ==
    /\ ~ Full
    /\ pushes < MaxPut
    /\ pushes' = pushes + 1
    /\ item' = [item EXCEPT ![put_index % Size] = v]
    /\ put_index' = (put_index + 1) % IndexMod
    /\ UNCHANGED <<get_index, popped>>

\* Mutant: the slot is read behind the incremented index.
MutFetch ==
    /\ ~ Empty
    /\ get_index' = (get_index + 1) % IndexMod
    /\ popped' = item[get_index' % Size]
    /\ UNCHANGED <<item, put_index, pushes>>

Fetch ==
    /\ ~ Empty
    /\ popped' = item[get_index % Size]
    /\ get_index' = (get_index + 1) % IndexMod
    /\ UNCHANGED <<item, put_index, pushes>>

\* rt_data_queue_push finds a slot, in its first round or in a later one, and
\* wakes a popper.
Push(c) ==
    /\ Testing(c)
    /\ Store(c.val)
    /\ ThreadWakes("pop")

\* It finds none and waits.  Every round starts with the whole waiting time.
\* With no time to wait it returns -RT_ETIMEOUT and changes nothing.
PushBlock(c) ==
    /\ Testing(c)
    /\ Full
    /\ Block("push", Append(wl["push"], Me), c, c.time)
    /\ UNCHANGED dqVars

PopBlock(c) ==
    /\ Testing(c)
    /\ Empty
    /\ Block("pop", Append(wl["pop"], Me), c, c.time)
    /\ UNCHANGED dqVars

\* Mutant: the mark is compared with the count before the item is taken.
MutPop(c) ==
    /\ Testing(c)
    /\ Fetch
    /\ IF put_index - get_index <= Lwm
       THEN ThreadWakes("push")
       ELSE EndCall("run") /\ UNCHANGED <<k, wl>>

\* rt_data_queue_pop finds an item.
Pop(c) ==
    /\ Testing(c)
    /\ Fetch
    /\ IF put_index - get_index' <= Lwm
       THEN ThreadWakes("push")
       ELSE EndCall("run") /\ UNCHANGED <<k, wl>>

\* Interrupt handlers push and pop without waiting.
IsrPush(v) == Store(v) /\ IsrWakes("pop")

IsrPop ==
    /\ Fetch
    /\ IF put_index - get_index' <= Lwm
       THEN IsrWakes("push")
       ELSE IrqEnabled /\ UNCHANGED ipcVars

-----------------------------------------------------------------------------
DqNext ==
    \/ IpcStep /\ UNCHANGED dqVars
    \/ \E v \in Message, time \in Wait :
          Push(PushCall(v, time)) \/ PushBlock(PushCall(v, time))
    \/ \E time \in Wait : Pop(PopCall(time)) \/ PopBlock(PopCall(time))
    \/ (\E v \in Message : IsrPush(v)) \/ IsrPop

DqSpec == DqInit /\ [][DqNext]_dqSpecVars

-----------------------------------------------------------------------------
(* Properties *)

Calls ==
    {NoCall} \cup {PushCall(v, time) : v \in Message, time \in Wait}
        \cup {PopCall(time) : time \in Wait}

DqTypeOK ==
    /\ IpcTypeOK
    /\ pc \in [Thread -> IpcPc \ {"reset"}]
    /\ call \in [Thread -> Calls]
    /\ item \in [0 .. Size - 1 -> Message \cup {Nothing}]
    /\ {put_index, get_index} \subseteq 0 .. IndexMod - 1
    /\ pushes \in 0 .. MaxPut
    /\ popped \in Message \cup {Nothing}

\* The types hold, and the queue's calls leave the kernel's state and the wait
\* lists consistent and no woken thread behind.
DqConsistent == DqTypeOK /\ KernelConsistent /\ WaitersParked /\ PreemptionPending

WokenFor(o) == Cardinality({t \in Woken : call[t].op = o})

Count == put_index - get_index

\* No item waits beside a popper unless a woken popper is on its way to it; and
\* once the queue has come down to the low-water mark, one pusher is on its way
\* for every slot below the mark, or none waits.
DqNoneStranded ==
    /\ wl["pop"] # << >> => Count <= WokenFor("pop")
    /\ wl["push"] # << >> => Lwm + 1 - Count <= WokenFor("push")

\* No more items are pushed and not popped than the queue has room for.
NoOverrun == (put_index - get_index) % IndexMod <= Size

\* The items in the ring, from the get index on.
Ring == [i \in 1 .. Count |-> item[(get_index + i - 1) % Size]]

Queue == INSTANCE Fifo WITH Capacity <- Size, queue <- Ring, received <- popped

\* Every item that was accepted is popped once and in order.
ImplementsFifo == Queue!FifoSpec
=============================================================================
