------------------------------ MODULE Backlog ------------------------------
(* What the receive side of a serial line promises: the bytes are read in    *)
(* the order in which they came, each once, and when they come too fast the  *)
(* oldest ones are lost.                                                     *)
EXTENDS Naturals, Sequences

CONSTANTS Byte,     \* what is received
          Nothing,  \* what was read before the first byte
          Capacity  \* the bytes that are kept

VARIABLES queue,    \* the bytes that are received and not yet read
          heard     \* the byte read last

backlogVars == <<queue, heard>>

BacklogInit == queue = << >> /\ heard = Nothing

Latest(s) == IF Len(s) <= Capacity THEN s ELSE SubSeq(s, Len(s) - Capacity + 1, Len(s))

\* One interrupt brings one byte or two.
Arrive(bytes) == queue' = Latest(queue \o bytes) /\ UNCHANGED heard

Get ==
    /\ queue # << >>
    /\ heard' = Head(queue)
    /\ queue' = Tail(queue)

\* Every step changes the queue.
BacklogNext ==
    /\ queue' # queue
    /\ Get \/ \E n \in 1 .. 2 : \E bytes \in [1 .. n -> Byte] : Arrive(bytes)

BacklogSpec == BacklogInit /\ [][BacklogNext]_backlogVars
=============================================================================
