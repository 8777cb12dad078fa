------------------------------ MODULE Threads ------------------------------
(* The threads of the firmware over the kernel of module Kernel, each of them  *)
(* at some point of the code.  Only the current one goes on: a step of it is   *)
(* one section of code between two points at which interrupts are enabled.     *)
EXTENDS Kernel

CONSTANT BasePrio  \* thread -> priority it is created with

VARIABLES k,   \* the kernel
          pc   \* where each thread is in the code

\* The application threads.
App == Thread \ {Idle}

Me == k.cur

\* The current thread is at l.
At(l) == pc[Me] = l

Goto(l) == pc' = [pc EXCEPT ![Me] = l]
=============================================================================
