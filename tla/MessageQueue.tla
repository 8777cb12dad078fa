---------------------------- MODULE MessageQueue ----------------------------
(***************************************************************************)
(* rt_mq_send, rt_mq_urgent, rt_mq_recv and rt_mq_control of               *)
(* src/rt-thread/src/ipc.c: messages in linked blocks.                     *)
(*                                                                         *)
(* A thread takes a block off its list, copies the message with interrupts *)
(* enabled and links the block in a later section: in between the block is *)
(* in its hand.  An interrupt handler that sends is one step.              *)
(***************************************************************************)
EXTENDS Ipc

CONSTANTS Message,  \* what is sent
          Nothing,  \* the content of a block that was never used
          MqBlock,   \* the blocks of mq->msg_pool
          Null      \* RT_NULL

MessageQueueAssumption ==
    /\ IsFiniteSet(MqBlock) /\ MqBlock # {} /\ Null \notin MqBlock
    /\ "recv" \in WaitList

VARIABLES head, tail, free,     \* mq->msg_queue_head, _tail and _free
          next,                 \* block -> msg->next
          body,                 \* block -> the message behind it
          entry,                \* mq->entry
          hand,                 \* thread -> the block between two sections
          taken,                \* ghost: thread -> the message it unlinked
          last                  \* ghost: the message unlinked last

mqVars == <<head, tail, free, next, body, entry, hand, taken, last>>

vars == <<ipcVars, mqVars>>

\* The free list that rt_mq_init builds, in some order of the blocks.
Init ==
    /\ IpcInit
    /\ head = Null /\ tail = Null /\ entry = 0
    /\ LET order == SetToSeq(MqBlock)
       IN  /\ free = order[1]
           /\ next = [b \in MqBlock |->
                         LET i == SelectInSeq(order, LAMBDA c : c = b)
                         IN  IF i = Len(order) THEN Null ELSE order[i + 1]]
    /\ body = [b \in MqBlock |-> Nothing]
    /\ hand = [t \in Thread |-> Null]
    /\ taken = [t \in Thread |-> Nothing]
    /\ last = Nothing

-----------------------------------------------------------------------------
(* The three lists *)

\* The blocks from b on, along msg->next.
Chain(b) ==
    LET from[n \in 0 .. Cardinality(MqBlock)] ==
            [c \in MqBlock \cup {Null} |->
                IF c \notin MqBlock THEN << >>
                ELSE IF n = 0 THEN <<c>>
                ELSE <<c>> \o from[n - 1][next[c]]]
    IN  from[Cardinality(MqBlock)][b]

\* The tail of the queue becomes b, and its head if there is none.
LinkLast(b) ==
    /\ next' = IF tail = Null THEN [next EXCEPT ![b] = Null]
               ELSE [next EXCEPT ![b] = Null, ![tail] = b]
    /\ tail' = b
    /\ head' = IF head = Null THEN b ELSE head
    /\ entry' = entry + 1

\* Mutant: the head is set before the block's link is taken from it.
MutLinkFirst(b) ==
    /\ next' = [next EXCEPT ![b] = b]
    /\ head' = b
    /\ tail' = IF tail = Null THEN b ELSE tail
    /\ entry' = entry + 1

\* The head of the queue becomes b, and its tail if there is none.
LinkFirst(b) ==
    /\ next' = [next EXCEPT ![b] = head]
    /\ head' = b
    /\ tail' = IF tail = Null THEN b ELSE tail
    /\ entry' = entry + 1

Link(b, urgent) == IF urgent THEN LinkFirst(b) ELSE LinkLast(b)

\* Mutant: the tail of an emptied queue stays.
MutUnlink == head' = next[head]  /\ UNCHANGED tail

Unlink ==
    /\ head' = next[head]
    /\ tail' = IF tail = head THEN Null ELSE tail

-----------------------------------------------------------------------------
(* Threads *)

SendCall(v, urgent) == [op |-> "send", val |-> v, urgent |-> urgent]

RecvCall(time) == [op |-> "recv", time |-> time]

\* rt_mq_send or rt_mq_urgent takes a free block; without one it returns
\* -RT_EFULL and changes nothing.
SendAlloc(v, urgent) ==
    /\ Calling
    /\ free # Null
    /\ hand' = [hand EXCEPT ![Me] = free]
    /\ free' = next[free]
    /\ call' = [call EXCEPT ![Me] = SendCall(v, urgent)]
    /\ Goto("fill")
    /\ UNCHANGED <<k, wl, head, tail, next, body, entry, taken, last>>

\* The copy, with interrupts enabled.
SendFill ==
    /\ At("fill")
    /\ body' = [body EXCEPT ![hand[Me]] = call[Me].val]
    /\ Goto("link")
    /\ UNCHANGED <<k, wl, call, head, tail, free, next, entry, hand, taken, last>>

\* Mutant: no receiver is woken.
MutSendLink ==
    /\ At("link")
    /\ Link(hand[Me], call[Me].urgent)
    /\ hand' = [hand EXCEPT ![Me] = Null]
    /\ EndCall("run")
    /\ UNCHANGED <<k, wl, free, body, taken, last>>

SendLink ==
    /\ At("link")
    /\ Link(hand[Me], call[Me].urgent)
    /\ hand' = [hand EXCEPT ![Me] = Null]
    /\ ThreadWakes("recv")
    /\ UNCHANGED <<free, body, taken, last>>

\* Mutant: the handler leaves without rt_schedule.
MutIsrSend(v, urgent) ==
    /\ IrqEnabled /\ free # Null
    /\ free' = next[free]
    /\ body' = [body EXCEPT ![free] = v]
    /\ Link(free, urgent)
    /\ k' = ResumeFirst("recv")
    /\ wl' = Popped("recv")
    /\ UNCHANGED <<pc, call, hand, taken, last>>

\* An interrupt handler sends.
IsrSend(v, urgent) ==
    /\ free # Null
    /\ free' = next[free]
    /\ body' = [body EXCEPT ![free] = v]
    /\ Link(free, urgent)
    /\ IsrWakes("recv")
    /\ UNCHANGED <<hand, taken, last>>

\* Mutant: the block goes back to the free list before the copy.
MutRecvUnlink(c) ==
    /\ Testing(c)
    /\ entry > 0
    /\ Unlink
    /\ entry' = entry - 1
    /\ next' = [next EXCEPT ![head] = free]
    /\ free' = head
    /\ hand' = [hand EXCEPT ![Me] = head]
    /\ taken' = [taken EXCEPT ![Me] = body[head]]
    /\ last' = body[head]
    /\ call' = [call EXCEPT ![Me] = c]
    /\ Goto("copy")
    /\ UNCHANGED <<k, wl, body>>

\* rt_mq_recv finds a message, in its first round or in a later one.
RecvUnlink(c) ==
    /\ Testing(c)
    /\ entry > 0
    /\ Unlink
    /\ entry' = entry - 1
    /\ hand' = [hand EXCEPT ![Me] = head]
    /\ taken' = [taken EXCEPT ![Me] = body[head]]
    /\ last' = body[head]
    /\ call' = [call EXCEPT ![Me] = c]
    /\ Goto("copy")
    /\ UNCHANGED <<k, wl, free, next, body>>

\* The copy, with interrupts enabled.
RecvCopy == At("copy") /\ Goto("put") /\ UNCHANGED <<k, wl, call, mqVars>>

RecvPut ==
    /\ At("put")
    /\ next' = [next EXCEPT ![hand[Me]] = free]
    /\ free' = hand[Me]
    /\ hand' = [hand EXCEPT ![Me] = Null]
    /\ taken' = [taken EXCEPT ![Me] = Nothing]
    /\ EndCall("run")
    /\ UNCHANGED <<k, wl, head, tail, body, entry, last>>

RecvBlock(c) ==
    /\ Testing(c)
    /\ entry = 0
    /\ Block("recv", EnqueueWaiter(k, wl["recv"], Me, Flag), c, c.time)
    /\ UNCHANGED mqVars

RecvExpired == entry = 0 /\ Expired("recv", "ETIMEOUT") /\ UNCHANGED mqVars

\* rt_mq_control(RT_IPC_CMD_RESET), after the wake-ups: every block of the queue
\* goes back to the free list.
ResetBlock ==
    /\ At("reset") /\ wl["recv"] = << >>
    /\ head # Null
    /\ Unlink
    /\ next' = [next EXCEPT ![head] = free]
    /\ free' = head
    /\ UNCHANGED <<ipcVars, body, entry, hand, taken, last>>

Reset ==
    /\ ResetEnd
    /\ head = Null
    /\ entry' = 0
    /\ UNCHANGED <<head, tail, free, next, body, hand, taken, last>>

-----------------------------------------------------------------------------
Next ==
    \/ IpcStep /\ UNCHANGED mqVars
    \/ \E v \in Message, urgent \in BOOLEAN : SendAlloc(v, urgent) \/ IsrSend(v, urgent)
    \/ SendFill \/ SendLink
    \/ \E time \in Wait : RecvUnlink(RecvCall(time)) \/ RecvBlock(RecvCall(time))
    \/ RecvCopy \/ RecvPut \/ RecvExpired
    \/ (ResetBegin \/ \E l \in WaitList : ResetResume(l)) /\ UNCHANGED mqVars
    \/ ResetBlock \/ Reset

Spec == Init /\ [][Next]_vars

-----------------------------------------------------------------------------
(* Properties *)

Calls ==
    {NoCall} \cup {SendCall(v, u) : v \in Message, u \in BOOLEAN}
        \cup {RecvCall(time) : time \in Wait}

TypeOK ==
    /\ IpcTypeOK
    /\ pc \in [Thread -> IpcPc \cup {"fill", "link", "copy", "put"}]
    /\ call \in [Thread -> Calls]
    /\ {head, tail, free} \subseteq MqBlock \cup {Null}
    /\ next \in [MqBlock -> MqBlock \cup {Null}]
    /\ body \in [MqBlock -> Message \cup {Nothing}]
    /\ entry \in 0 .. Cardinality(MqBlock)
    /\ hand \in [Thread -> MqBlock \cup {Null}]
    /\ taken \in [Thread -> Message \cup {Nothing}]
    /\ last \in Message \cup {Nothing}

\* The types hold, and the object's calls leave the kernel's state and the wait
\* lists consistent and no woken thread behind.
Consistent == TypeOK /\ KernelConsistent /\ WaitersParked /\ PreemptionPending

\* Every block is in one place, once: in the queue, on the free list or in the
\* hand of one thread.  None is lost when senders, receivers and a reset meet
\* between the sections.
BlocksAccounted ==
    LET hands == SetToSeq({t \in Thread : hand[t] # Null})
        all   == Chain(head) \o Chain(free) \o [i \in DOMAIN hands |-> hand[hands[i]]]
    IN  Distinct(all) /\ ToSet(all) = MqBlock

\* mq->entry and mq->msg_queue_tail agree with the chain of the queue.
QueueLinked ==
    LET q == Chain(head)
    IN  At("reset") \/ /\ entry = Len(q)
                       /\ tail = IF q = << >> THEN Null ELSE q[Len(q)]

\* No message waits beside a receiver unless as many receivers are already on
\* their way to it.
NoStrandedReceiver ==
    wl["recv"] # << >> => entry <= Cardinality({t \in Woken : call[t].op = "recv"})

\* What a receiver is about to copy is the message that it took off the queue,
\* whatever happened to the queue since.
CopyIntact ==
    \A t \in Thread : pc[t] = "copy" => body[hand[t]] = taken[t]

\* The messages of the queue.
Bodies == LET q == Chain(head) IN [i \in DOMAIN q |-> body[q[i]]]

Queue == INSTANCE Fifo WITH
             Capacity <- Cardinality(MqBlock), queue <- Bodies, received <- last

\* Every message that was accepted is received once, in the order in which the
\* blocks were linked, urgent ones first.  A reset drops them one by one.
ImplementsFifo == Queue!FifoSpec
=============================================================================
