------------------------------ MODULE Sections ------------------------------
(***************************************************************************)
(* What the calls of src/rt-thread/src/ipc.c have in common, over the      *)
(* kernel of module Kernel: application threads, each of them at some point *)
(* of a call.  A step of the current thread is one section of code between *)
(* two points at which interrupts are enabled.                             *)
(***************************************************************************)
EXTENDS Threads

CONSTANT Flag  \* RT_IPC_FLAG_FIFO or RT_IPC_FLAG_PRIO

ASSUME SectionsAssumption ==
    /\ BasePrio \in [Thread -> Prio]
    /\ Flag \in {"FIFO", "PRIO"}

\* No thread is started yet and the idle thread has the processor: until the
\* first rt_thread_startup it stands for the start-up code.
SectionsInit ==
    /\ k = [cur |-> Idle, prio |-> BasePrio,
            stat |-> [t \in Thread |-> IF t = Idle THEN "RUNNING" ELSE "INIT"],
            err |-> [t \in Thread |-> "EOK"], rq |-> [p \in Prio |-> << >>],
            grp |-> {}, tmr |-> {}, lock |-> 0]
    /\ pc = [t \in Thread |-> "run"]

\* Whatever order calls, timeouts and interrupts come in, the ready lists, the
\* cached priority bitmap and the thread states agree whenever interrupts are
\* enabled.
KernelConsistent == KernelOK(k)
=============================================================================
