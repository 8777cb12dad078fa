------------------------------ MODULE MCQueues ------------------------------
(* Three application threads of two priorities, the idle thread and an       *)
(* interrupt handler that share a mailbox or a message queue: the initial    *)
(* state says which, and the other object rests.                             *)
EXTENDS Mailbox, TLC

CONSTANTS idle, hi, lo1, lo2, v1, v2, b1, b2, MqBlock, Null

VARIABLES object,                                       \* "mailbox" or "queue"
          head, tail, free, next, body, hand, taken, last  \* of MessageQueue

MQ == INSTANCE MessageQueue

ASSUME QueuesAssumption ==
    MQ!MessageQueueAssumption /\ Cardinality(MqBlock) = Size

MCThread == {idle, hi, lo1, lo2}

MCBasePrio == [t \in MCThread |-> IF t = idle THEN 2 ELSE IF t = hi THEN 0 ELSE 1]

MCSymmetry == Permutations({lo1, lo2}) \cup Permutations({v1, v2})
                  \cup Permutations({b1, b2})

QueuesInit == object \in {"mailbox", "queue"} /\ Init /\ MQ!Init

MailboxNext ==
    /\ object = "mailbox"
    /\ Next
    /\ UNCHANGED <<object, head, tail, free, next, body, hand, taken, last>>

QueueNext ==
    /\ object = "queue"
    /\ MQ!Next
    /\ UNCHANGED <<object, pool, in_offset, out_offset, received>>

QueuesNext == MailboxNext \/ QueueNext

QueuesSpec ==
    QueuesInit /\ [][QueuesNext]_<<object, vars, head, tail, free, next, body,
                                   hand, taken, last>>

-----------------------------------------------------------------------------
(* The properties of the one that is used *)

QueuesConsistent == IF object = "mailbox" THEN Consistent ELSE MQ!Consistent

NoThreadStranded ==
    IF object = "mailbox" THEN NoStrandedWaiter ELSE MQ!NoStrandedReceiver

\* Every block is on the list of messages, on the free list or in one hand.
BlocksAccounted == object = "queue" => MQ!BlocksAccounted /\ MQ!QueueLinked

\* A message is copied out of its block before the block is used again.
CopyIntact == object = "queue" => MQ!CopyIntact

Promise == INSTANCE Fifo WITH
               Capacity <- Size,
               queue <- IF object = "mailbox" THEN Ring ELSE MQ!Bodies,
               received <- IF object = "mailbox" THEN received ELSE last

\* Either is a queue in which a message that was accepted is received once and
\* in order.
QueuesImplementFifo == Promise!FifoSpec
=============================================================================
