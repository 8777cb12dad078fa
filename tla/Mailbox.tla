------------------------------ MODULE Mailbox ------------------------------
(***************************************************************************)
(* rt_mb_send_wait, rt_mb_recv and rt_mb_control of src/rt-thread/src/     *)
(* ipc.c: a ring of messages with a wait list of receivers and one of      *)
(* senders, used by threads and by interrupt handlers.                     *)
(***************************************************************************)
EXTENDS Ipc

CONSTANTS Message,  \* the values that are sent
          Nothing,  \* the content of an unused slot
          Size      \* mb->size

ASSUME MailboxAssumption == Size \in Nat \ {0} /\ WaitList = {"recv", "send"}

VARIABLES pool,         \* mb->msg_pool
          entry,        \* mb->entry
          in_offset,    \* mb->in_offset
          out_offset,   \* mb->out_offset
          received      \* the last *value that rt_mb_recv wrote

mbVars == <<pool, entry, in_offset, out_offset, received>>

vars == <<ipcVars, mbVars>>

Init ==
    /\ IpcInit
    /\ pool = [i \in 0 .. Size - 1 |-> Nothing]
    /\ entry = 0 /\ in_offset = 0 /\ out_offset = 0
    /\ received = Nothing

-----------------------------------------------------------------------------
\* The next offset.
Advance(i) == IF i + 1 >= Size THEN 0 ELSE i + 1

\* The message v goes into the ring.
Store(v) ==
    /\ entry < Size
    /\ pool' = [pool EXCEPT ![in_offset] = v]
    /\ in_offset' = Advance(in_offset)
    /\ entry' = entry + 1
    /\ UNCHANGED <<out_offset, received>>

Fetch ==
    /\ entry > 0
    /\ received' = pool[out_offset]
    /\ out_offset' = Advance(out_offset)
    /\ entry' = entry - 1
    /\ UNCHANGED <<pool, in_offset>>

SendCall(v, time) == [op |-> "send", val |-> v, time |-> time]

RecvCall(time) == [op |-> "recv", time |-> time]

\* rt_mb_send_wait finds a slot, in its first round or in a later one, and
\* wakes a receiver.
Send(c) ==
    /\ Testing(c)
    /\ Store(c.val)
    /\ ThreadWakes("recv")

\* It finds none and waits.  rt_mb_send, with no time to wait, returns -RT_EFULL
\* and changes nothing.
SendBlock(c) ==
    /\ Testing(c)
    /\ entry = Size
    /\ Block("send", EnqueueWaiter(k, wl["send"], Me, Flag), c, c.time)
    /\ UNCHANGED mbVars

SendExpired == entry = Size /\ Expired("send", "EOK") /\ UNCHANGED mbVars

\* Mutant: a waiting sender is not woken.
MutRecv(c) ==
    /\ Testing(c)
    /\ Fetch
    /\ EndCall("run")
    /\ UNCHANGED <<k, wl>>

\* rt_mb_recv finds a message and wakes a sender.
Recv(c) ==
    /\ Testing(c)
    /\ Fetch
    /\ ThreadWakes("send")

RecvBlock(c) ==
    /\ Testing(c)
    /\ entry = 0
    /\ Block("recv", EnqueueWaiter(k, wl["recv"], Me, Flag), c, c.time)
    /\ UNCHANGED mbVars

RecvExpired == entry = 0 /\ Expired("recv", "ETIMEOUT") /\ UNCHANGED mbVars

\* Interrupt handlers send and receive without waiting.
IsrSend(v) == Store(v) /\ IsrWakes("recv")

\* Mutant: the handler leaves without rt_schedule.
MutIsrRecv ==
    /\ IrqEnabled
    /\ Fetch
    /\ k' = ResumeFirst("send")
    /\ wl' = Popped("send")
    /\ UNCHANGED <<pc, call>>

IsrRecv == Fetch /\ IsrWakes("send")

\* Mutant: the offsets are not reset.
MutReset ==
    /\ ResetEnd
    /\ entry' = 0 /\ in_offset' = 0
    /\ UNCHANGED <<pool, out_offset, received>>

\* rt_mb_control(RT_IPC_CMD_RESET), after the wake-ups.
Reset ==
    /\ ResetEnd
    /\ entry' = 0 /\ in_offset' = 0 /\ out_offset' = 0
    /\ UNCHANGED <<pool, received>>

-----------------------------------------------------------------------------
Next ==
    \/ IpcStep /\ UNCHANGED mbVars
    \/ \E v \in Message, time \in Wait :
          Send(SendCall(v, time)) \/ SendBlock(SendCall(v, time))
    \/ \E time \in Wait : Recv(RecvCall(time)) \/ RecvBlock(RecvCall(time))
    \/ SendExpired \/ RecvExpired
    \/ (\E v \in Message : IsrSend(v)) \/ IsrRecv
    \/ (ResetBegin \/ \E l \in WaitList : ResetResume(l)) /\ UNCHANGED mbVars
    \/ Reset

Spec == Init /\ [][Next]_vars

-----------------------------------------------------------------------------
(* Properties *)

Calls ==
    {NoCall} \cup {SendCall(v, time) : v \in Message, time \in Wait}
        \cup {RecvCall(time) : time \in Wait}

TypeOK ==
    /\ IpcTypeOK
    /\ pc \in [Thread -> IpcPc]
    /\ call \in [Thread -> Calls]
    /\ pool \in [0 .. Size - 1 -> Message \cup {Nothing}]
    /\ entry \in 0 .. Size
    /\ in_offset \in 0 .. Size - 1 /\ out_offset \in 0 .. Size - 1
    /\ received \in Message \cup {Nothing}

\* The types hold, and the object's calls leave the kernel's state and the wait
\* lists consistent and no woken thread behind.
Consistent == TypeOK /\ KernelConsistent /\ WaitersParked /\ PreemptionPending

\* No message waits beside a receiver, and no free slot beside a sender, unless
\* as many threads are already on their way to it.
NoStrandedWaiter ==
    /\ wl["recv"] # << >> =>
          entry <= Cardinality({t \in Woken : call[t].op = "recv"})
    /\ wl["send"] # << >> =>
          Size - entry <= Cardinality({t \in Woken : call[t].op = "send"})

\* The messages in the ring, from the output offset on.
Ring == [i \in 1 .. entry |-> pool[(out_offset + i - 1) % Size]]

Queue == INSTANCE Fifo WITH Capacity <- Size, queue <- Ring

\* Every message that was accepted is received once and in order, across the
\* wrap of the offsets, time-outs, retries and resets.
ImplementsFifo == Queue!FifoSpec
=============================================================================
