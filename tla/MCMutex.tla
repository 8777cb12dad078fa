------------------------------ MODULE MCMutex ------------------------------
(* Module Mutex on the idle thread and three threads of different priority: *)
(* an owner, a thread that waits, and one between them that may keep the    *)
(* processor.                                                               *)
EXTENDS Mutex

CONSTANTS idle, hi, mid, lo, m1, m2

MCThread == {idle, hi, mid, lo}

MCBasePrio ==
    [t \in MCThread |->
        CASE t = idle -> 3 [] t = hi -> 0 [] t = mid -> 1 [] OTHER -> 2]
=============================================================================
