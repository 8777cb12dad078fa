---------------------------- MODULE MCSoftTimer ----------------------------
(* Module SoftTimer on the timer thread, a thread below it that never       *)
(* blocks, a thread above it, and two timers.                               *)
EXTENDS SoftTimer

CONSTANTS daemon, hi, lo, idle, x1, x2

MCBasePrio == [t \in Thread |-> CASE t = hi -> 0 [] t = daemon -> 1
                                   [] t = lo -> 2 [] OTHER -> 3]

OwnedByLo == [x \in Timer |-> lo]

OwnedByHi == [x \in Timer |-> hi]

\* x1 belongs to the thread below the timer thread, x2 to the one above it.
OwnedByBoth == [x \in Timer |-> IF x = x1 THEN lo ELSE hi]

MCPeriod == [x \in Timer |-> IF x = x1 THEN 1 ELSE 2]
=============================================================================
