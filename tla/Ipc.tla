-------------------------------- MODULE Ipc --------------------------------
(***************************************************************************)
(* What the blocking objects of src/rt-thread/src/ipc.c and mempool.c have *)
(* in common, over the kernel of module Kernel: threads that wait on the   *)
(* lists of one object, a retry loop around the wait, and the tick         *)
(* interrupt.  A module for one object extends this one and adds the       *)
(* object's state.                                                         *)
(*                                                                         *)
(* A step of the current thread is a section, as in module Sections.  An   *)
(* interrupt handler that uses the object is one step; handlers do not nest. *)
(***************************************************************************)
EXTENDS Sections

CONSTANT WaitList       \* the names of the object's wait lists

VARIABLES wl,   \* wait list -> the threads suspended on it
          call  \* thread -> the arguments of its blocking call, NoCall outside

ipcVars == <<k, wl, pc, call>>

NoCall == [op |-> "none"]

\* "run": in application code.  "pend": about to call the rt_schedule that ends
\* an operation.  "blocked": suspended, about to call rt_schedule.  "wait":
\* inside that rt_schedule, and then at the test of thread->error behind it.
\* "reset": in RT_IPC_CMD_RESET, with interrupts disabled.
IpcPc == {"run", "pend", "blocked", "wait", "reset"}

IpcInit ==
    /\ SectionsInit
    /\ wl = [l \in WaitList |-> << >>]
    /\ call = [t \in Thread |-> NoCall]

-----------------------------------------------------------------------------
\* An application thread may start a call.
Calling == Me \in App /\ At("run")

IrqEnabled == ~ At("reset")

Waiting(t) == \E l \in WaitList : t \in ToSet(wl[l])

\* The threads that were woken with RT_EOK and have not tested the object again.
Woken == {t \in Thread : pc[t] \in {"blocked", "wait"} /\ ~ Waiting(t) /\ k.err[t] = "EOK"}

\* The current thread is back from rt_schedule, is not to return an error and
\* finds itself in the operation o.
Retrying(o) == At("wait") /\ k.err[Me] = "EOK" /\ call[Me].op = o

\* It tests the object in operation o: in its first round, with these
\* arguments, or in a later one.
Testing(c) == \/ Calling
              \/ Retrying(c.op) /\ call[Me] = c

-----------------------------------------------------------------------------
(* Threads *)

\* rt_thread_startup of a thread that is not started yet.
Startup(t) ==
    /\ At("run")
    /\ k.stat[t] = "INIT"
    /\ k' = Schedule(Resume([k EXCEPT !.stat[t] = "SUSPEND"], t))
    /\ UNCHANGED <<wl, pc, call>>

\* The current thread suspends itself on list l in the call c, with q the new
\* list; rt_schedule is still to come.
Block(l, q, c, time) ==
    /\ k' = SuspendOn(k, Me, time)
    /\ wl' = [wl EXCEPT ![l] = q]
    /\ call' = [call EXCEPT ![Me] = c]
    /\ Goto("blocked")

\* The rt_schedule of a blocked thread, or the one that ends an operation.
CallSchedule ==
    /\ pc[Me] \in {"pend", "blocked"}
    /\ k' = Schedule(k)
    /\ Goto(IF At("pend") THEN "run" ELSE "wait")
    /\ UNCHANGED <<wl, call>>

\* The call ends with l: "run", or "pend" if a rt_schedule is still due.
EndCall(l) ==
    /\ Goto(l)
    /\ call' = [call EXCEPT ![Me] = NoCall]

\* "resume from suspend state": thread->error is returned.
WaitFailed ==
    /\ At("wait")
    /\ k.err[Me] # "EOK"
    /\ EndCall("run")
    /\ UNCHANGED <<k, wl>>

\* The rest of a finite waiting time has come down to 0 in a later round; e is
\* what thread->error is then.
Expired(o, e) ==
    /\ Retrying(o)
    /\ call[Me].time = "limited"
    /\ k' = [k EXCEPT !.err[Me] = e]
    /\ EndCall("run")
    /\ UNCHANGED wl

\* rt_ipc_list_resume of list l, if that is not empty.
ResumeFirst(l) == IF wl[l] = << >> THEN k ELSE Resume(k, Head(wl[l]))

Popped(l) == IF wl[l] = << >> THEN wl ELSE [wl EXCEPT ![l] = Tail(@)]

\* An operation of a thread ends by waking the first waiter of list l.
ThreadWakes(l) ==
    /\ k' = ResumeFirst(l)
    /\ wl' = Popped(l)
    /\ EndCall(IF wl[l] = << >> THEN "run" ELSE "pend")

\* The same in an interrupt handler, whose rt_schedule picks the thread that
\* the handler returns to.
IsrWakes(l) ==
    /\ IrqEnabled
    /\ k' = IF wl[l] = << >> THEN k ELSE Schedule(ResumeFirst(l))
    /\ wl' = Popped(l)
    /\ UNCHANGED <<pc, call>>

\* RT_IPC_CMD_RESET: interrupts go off ...
ResetBegin ==
    /\ Calling
    /\ Goto("reset")
    /\ UNCHANGED <<k, wl, call>>

\* ... rt_ipc_list_resume_all wakes every waiter with -RT_ERROR ...
ResetResume(l) ==
    /\ At("reset")
    /\ wl[l] # << >>
    /\ k' = ResumeError(k, Head(wl[l]))
    /\ wl' = Popped(l)
    /\ UNCHANGED <<pc, call>>

\* ... and interrupts go on again, before rt_schedule.
ResetEnd ==
    /\ At("reset")
    /\ \A l \in WaitList : wl[l] = << >>
    /\ Goto("pend")
    /\ UNCHANGED <<k, wl, call>>

-----------------------------------------------------------------------------
(* The tick interrupt *)

\* rt_tick_increase at the end of a time slice: rt_thread_yield.
TickYield ==
    /\ IrqEnabled
    /\ k' = Schedule(k)
    /\ UNCHANGED <<wl, pc, call>>

\* Mutant: the timed-out thread stays on its wait list.
MutTickTimeout(t) ==
    /\ IrqEnabled
    /\ t \in k.tmr
    /\ k' = Timeout(k, t)
    /\ UNCHANGED <<wl, pc, call>>

\* rt_tick_increase when the thread timer of t is due: rt_thread_timeout.
TickTimeout(t) ==
    /\ IrqEnabled
    /\ t \in k.tmr
    /\ k' = Timeout(k, t)
    /\ wl' = [l \in WaitList |-> RemoveFirst(wl[l], t)]
    /\ UNCHANGED <<pc, call>>

\* The steps of every object that leave the object itself alone.
IpcStep ==
    \/ \E t \in Thread : Startup(t) \/ TickTimeout(t)
    \/ CallSchedule \/ WaitFailed \/ TickYield

-----------------------------------------------------------------------------
(* Properties of every object *)

\* The types of the kernel's state and the wait lists; those of pc and call are
\* the object's.
IpcTypeOK ==
    /\ k \in KernelState
    /\ wl \in [WaitList -> Seq(App)]

\* The suspended threads are exactly those on a wait list, on one list and once,
\* and only they can time out.
WaitersParked ==
    /\ \A l \in WaitList : Distinct(wl[l])
    /\ \A l, j \in WaitList : l # j => ToSet(wl[l]) \cap ToSet(wl[j]) = {}
    /\ \A t \in Thread : Waiting(t) <=> k.stat[t] = "SUSPEND"
    /\ \A t \in k.tmr : Waiting(t)

\* A thread of higher priority that was woken is passed over only while the
\* current thread still has its rt_schedule to call.
PreemptionPending == TopRuns(k) \/ pc[Me] \in {"pend", "blocked", "reset"}
=============================================================================
