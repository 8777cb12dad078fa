----------------------------- MODULE Lifecycle -----------------------------
(***************************************************************************)
(* What the kernel promises about the life of a thread control block: it   *)
(* is created, started, dies once, is given back once, and is never        *)
(* switched to unless it is alive.                                         *)
(***************************************************************************)
EXTENDS FiniteSets

CONSTANTS Thread,
          Idle,     \* the thread that never ends
          Static    \* the threads whose storage the kernel does not free

VARIABLES phase,    \* thread -> "none", "born", "alive" or "dead"
          running   \* the thread that has the processor

vars == <<phase, running>>

Init ==
    /\ phase = [t \in Thread |-> IF t = Idle THEN "alive" ELSE "none"]
    /\ running = Idle

Become(t, before, after) ==
    /\ phase[t] \in before
    /\ phase' = [phase EXCEPT ![t] = after]

\* A control block is not used again while its last thread is on the processor.
Create(t) == t # running /\ Become(t, {"none"}, "born")

Start(t) == Become(t, {"born"}, "alive")

Die(t) == t # Idle /\ Become(t, {"born", "alive"}, "dead")

\* A stack is not freed while it is in use.
GiveBack(t) ==
    /\ t \in Static \/ running # t
    /\ Become(t, {"dead"}, "none")

\* rt_thread_exit of a static thread without a cleanup function is both.
DieAndGiveBack(t) == t \in Static /\ Become(t, {"alive"}, "none")

\* The processor stays where it is or goes to a thread that is alive.
Dispatch == running' = running \/ phase'[running'] = "alive"

Next ==
    /\ \/ \E t \in Thread : \/ Create(t) \/ Start(t) \/ Die(t)
                            \/ GiveBack(t) \/ DieAndGiveBack(t)
       \/ UNCHANGED phase
    /\ running' \in Thread
    /\ Dispatch

LifecycleSpec == Init /\ [][Next]_vars
=============================================================================
