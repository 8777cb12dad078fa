--------------------------- MODULE MCThreadLife ---------------------------
(* A thread of high priority and two of low priority; the configurations say  *)
(* which are made by rt_thread_init and which have a cleanup function.        *)
EXTENDS ThreadLife, TLC

CONSTANTS idle, hi, lo1, lo2

MCThread == {idle, hi, lo1, lo2}

MCBasePrio == [t \in MCThread |-> IF t = idle THEN 2 ELSE IF t = hi THEN 0 ELSE 1]
=============================================================================
