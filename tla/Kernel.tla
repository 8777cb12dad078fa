------------------------------- MODULE Kernel -------------------------------
(***************************************************************************)
(* The RT-Thread 4.0.2 thread kernel as this BSP builds it: one core, no   *)
(* RT_USING_SMP, no RT_USING_SIGNALS, RT_THREAD_PRIORITY_MAX <= 32.        *)
(*                                                                         *)
(* The module has no variables.  A kernel state is a record and every      *)
(* kernel routine that runs with interrupts disabled is an operator from   *)
(* kernel states to kernel states, so that an IPC module composes them in  *)
(* the order in which the C code calls them.                               *)
(*                                                                         *)
(*   cur   rt_current_thread                                               *)
(*   stat  thread->stat, masked with RT_THREAD_STAT_MASK                   *)
(*   prio  thread->current_priority (number_mask is 1 << prio)             *)
(*   err   thread->error                                                   *)
(*   rq    rt_thread_priority_table, the lists of ready threads            *)
(*   grp   rt_thread_ready_priority_group, the set of its bits             *)
(*   tmr   the threads whose thread_timer is ACTIVATED                     *)
(*   lock  rt_scheduler_lock_nest                                          *)
(***************************************************************************)
EXTENDS Integers, Sequences, FiniteSets, SequencesExt

CONSTANTS Thread,   \* the threads, the idle thread included
          Idle,     \* tidle0
          PrioMax   \* RT_THREAD_PRIORITY_MAX

ASSUME KernelAssumption ==
    /\ IsFiniteSet(Thread) /\ Idle \in Thread
    /\ PrioMax \in Nat \ {0}

Prio == 0 .. PrioMax - 1

Stat == {"INIT", "READY", "RUNNING", "SUSPEND", "CLOSE"}

\* The time argument of a blocking call that does block: > 0 or < 0.
Wait == {"limited", "forever"}

Err == {"EOK", "ETIMEOUT", "ERROR"}

KernelState ==
    [cur : Thread, stat : [Thread -> Stat], prio : [Thread -> Prio],
     err : [Thread -> Err], rq : [Prio -> Seq(Thread)], grp : SUBSET Prio,
     tmr : SUBSET Thread, lock : Nat]

-----------------------------------------------------------------------------
(* Ready queues *)

\* rt_schedule_insert_thread.
InsertThread(k, t) ==
    IF t = k.cur
    THEN [k EXCEPT !.stat[t] = "RUNNING"]
    ELSE [k EXCEPT !.stat[t] = "READY",
                   !.rq[k.prio[t]] = Append(@, t),
                   !.grp = @ \cup {k.prio[t]}]

\* Mutant: the bit of an emptied ready list stays set.
MutRemoveThread(k, t) == [k EXCEPT !.rq[k.prio[t]] = RemoveFirst(@, t)]

\* rt_schedule_remove_thread.  Its rt_list_remove takes the thread off
\* whatever list it is on; the wait lists of IPC objects are variables of
\* the modules that own them, which drop the thread themselves.
RemoveThread(k, t) ==
    LET q == RemoveFirst(k.rq[k.prio[t]], t)
    IN  [k EXCEPT !.rq[k.prio[t]] = q,
                  !.grp = IF q = << >> THEN @ \ {k.prio[t]} ELSE @]

\* _get_highest_priority_thread: __rt_ffs picks the lowest bit of the group.
HighestPrio(k) == CHOOSE p \in k.grp : \A q \in k.grp : p <= q

\* rt_schedule_remove_thread and the assignment of a new state to the thread.
TakeOff(k, t, x) == [RemoveThread(k, t) EXCEPT !.stat[t] = x]

Dispatch(k, t) == TakeOff(k, t, "RUNNING")

\* rt_schedule.
Schedule(k) ==
    LET p       == HighestPrio(k)
        running == k.stat[k.cur] = "RUNNING"
        to      == IF running /\ k.prio[k.cur] < p THEN k.cur ELSE Head(k.rq[p])
        moved   == [k EXCEPT !.cur = to]
        queued  == IF running THEN InsertThread(moved, k.cur) ELSE moved
    IN  IF k.lock > 0 \/ k.grp = {} THEN k
        ELSE IF to = k.cur THEN Dispatch(k, k.cur)
        ELSE Dispatch(queued, to)

\* rt_enter_critical and the part of rt_exit_critical under the interrupt lock;
\* its caller goes on to Schedule when the nesting has come down to zero.
EnterCritical(k) == [k EXCEPT !.lock = @ + 1]

ExitCritical(k) == [k EXCEPT !.lock = IF @ > 0 THEN @ - 1 ELSE 0]

-----------------------------------------------------------------------------
(* Thread state changes *)

\* rt_thread_suspend, called with interrupts disabled.
Suspend(k, t) ==
    IF k.stat[t] \in {"READY", "RUNNING"}
    THEN [TakeOff(k, t, "SUSPEND") EXCEPT !.tmr = @ \ {t}]
    ELSE k

\* What every wake-up ends with: the thread timer is off, thread->error is e
\* and the thread is handed to the scheduler.
Wake(k, t, e) == InsertThread([k EXCEPT !.err[t] = e, !.tmr = @ \ {t}], t)

\* rt_thread_resume, called with interrupts disabled.
Resume(k, t) == IF k.stat[t] = "SUSPEND" THEN Wake(k, t, k.err[t]) ELSE k

\* rt_thread_resume called with interrupts enabled first takes the thread off
\* the list it is on and stops its timer; the insertion is a section of its own.
ResumeOff(k, t) ==
    [k EXCEPT !.rq = [p \in Prio |-> RemoveFirst(@[p], t)], !.tmr = @ \ {t}]

\* Mutant: the timeout does not reschedule.
MutTimeout(k, t) == Wake(k, t, "ETIMEOUT")

\* rt_thread_timeout, the callback of the thread timer, run by the tick
\* interrupt; rt_timer_check has taken the timer off its list.
Timeout(k, t) == Schedule(Wake(k, t, "ETIMEOUT"))

\* Mutant: a ready thread stays on the list of its old priority.
MutChangePriority(k, t, p) == [k EXCEPT !.prio[t] = p]

\* rt_thread_control(RT_THREAD_CTRL_CHANGE_PRIORITY).
ChangePriority(k, t, p) ==
    IF k.stat[t] = "READY"
    THEN InsertThread([RemoveThread(k, t) EXCEPT !.prio[t] = p], t)
    ELSE [k EXCEPT !.prio[t] = p]

\* rt_thread_exit: the caller leaves the scheduler's reach.
ExitThread(k) == [TakeOff(k, k.cur, "CLOSE") EXCEPT !.tmr = @ \ {k.cur}]

-----------------------------------------------------------------------------
(* Wait lists of IPC objects *)

\* Mutant: insertion behind the first waiter of lower priority.
MutEnqueueWaiter(k, q, t, flag) ==
    LET i == SelectInSeq(q, LAMBDA s : k.prio[t] < k.prio[s])
    IN  IF flag = "FIFO" \/ i = 0 THEN Append(q, t) ELSE InsertAt(q, i + 1, t)

\* The insertion of rt_ipc_list_suspend: at the tail, or with RT_IPC_FLAG_PRIO
\* before the first waiter of lower priority (a larger number).
EnqueueWaiter(k, q, t, flag) ==
    LET i == SelectInSeq(q, LAMBDA s : k.prio[t] < k.prio[s])
    IN  IF flag = "FIFO" \/ i = 0 THEN Append(q, t) ELSE InsertAt(q, i, t)

\* rt_timer_control and rt_timer_start of the thread timer.
StartTimer(k, t) == [k EXCEPT !.tmr = @ \cup {t}]

\* rt_ipc_list_suspend followed by the start of the thread timer, which every
\* blocking call does when its time is positive (RT_WAITING_FOREVER is
\* negative), and preceded by its
\* thread->error = RT_EOK.
SuspendOn(k, t, time) ==
    LET s == Suspend([k EXCEPT !.err[t] = "EOK"], t)
    IN  IF time = "limited" THEN StartTimer(s, t) ELSE s

\* Mutant: thread->error is not set.
MutResumeError(k, t) == Resume(k, t)

\* One round of the loop of rt_ipc_list_resume_all, which takes q[1] off the
\* wait list q.
ResumeError(k, t) == Resume([k EXCEPT !.err[t] = "ERROR"], t)

-----------------------------------------------------------------------------
(* What the kernel promises about its own state *)

Distinct(s) == \A i, j \in DOMAIN s : s[i] = s[j] => i = j

\* A thread is on the ready list of its own priority exactly while it is READY.
ReadyListed(k) ==
    \A p \in Prio, t \in Thread :
        t \in ToSet(k.rq[p]) <=> k.stat[t] = "READY" /\ k.prio[t] = p

ReadyDistinct(k) == \A p \in Prio : Distinct(k.rq[p])

\* The cached bitmap agrees with the lists it summarises.
GroupExact(k) == k.grp = {p \in Prio : k.rq[p] # << >>}

\* Only the current thread is RUNNING, and it is never on a ready list.
OneRunning(k) ==
    /\ \A t \in Thread : k.stat[t] = "RUNNING" => t = k.cur
    /\ k.stat[k.cur] # "READY"

KernelOK(k) == ReadyListed(k) /\ ReadyDistinct(k) /\ GroupExact(k) /\ OneRunning(k)

\* No ready thread outranks the running one.
TopRuns(k) ==
    \A t \in Thread : k.stat[t] = "READY" => k.prio[k.cur] <= k.prio[t]
=============================================================================
