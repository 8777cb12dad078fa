---------------------------- MODULE MCSemaphore ----------------------------
(* Module Semaphore on four threads: the idle thread, one thread of high    *)
(* priority and two that share a lower one, so that preemption and the      *)
(* rotation of equals both happen.                                          *)
EXTENDS Semaphore

CONSTANTS idle, hi, lo1, lo2

MCThread == {idle, hi, lo1, lo2}

MCBasePrio == [t \in MCThread |-> IF t = idle THEN 2 ELSE IF t = hi THEN 0 ELSE 1]
=============================================================================
