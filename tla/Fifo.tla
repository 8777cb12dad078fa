-------------------------------- MODULE Fifo --------------------------------
(* What a mailbox and a message queue promise: a bounded queue of messages,  *)
(* each delivered once and in order.  An urgent message overtakes the ones   *)
(* that wait.                                                                *)
EXTENDS Naturals, Sequences

CONSTANTS Message,  \* what is sent
          Nothing,  \* what was received before the first message
          Capacity  \* the messages that fit

VARIABLES queue,    \* the messages that are sent and not yet received
          received  \* the message received last

fifoVars == <<queue, received>>

FifoInit == queue = << >> /\ received = Nothing

Put(v) ==
    /\ Len(queue) < Capacity
    /\ queue' = Append(queue, v)
    /\ UNCHANGED received

PutUrgent(v) ==
    /\ Len(queue) < Capacity
    /\ queue' = <<v>> \o queue
    /\ UNCHANGED received

Get ==
    /\ queue # << >>
    /\ received' = Head(queue)
    /\ queue' = Tail(queue)

\* A reset drops the first n messages: all of them in one step or in several.
Drop(n) ==
    /\ queue' = SubSeq(queue, n + 1, Len(queue))
    /\ UNCHANGED received

\* Every step changes the queue.
FifoNext ==
    /\ queue' # queue
    /\ \/ Get
       \/ \E v \in Message : Put(v) \/ PutUrgent(v)
       \/ \E n \in 1 .. Len(queue) : Drop(n)

FifoSpec == FifoInit /\ [][FifoNext]_fifoVars
=============================================================================
