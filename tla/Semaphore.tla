----------------------------- MODULE Semaphore -----------------------------
(***************************************************************************)
(* rt_sem_take, rt_sem_trytake, rt_sem_release and rt_sem_control of       *)
(* src/rt-thread/src/ipc.c over the kernel of module Kernel: one semaphore *)
(* used by application threads and by interrupt handlers.                  *)
(*                                                                         *)
(* A step is a section, as in module Sections.  An interrupt can come      *)
(* between the suspension of a taker and the rt_schedule that makes it     *)
(* give up the processor, and between a release and its rt_schedule.       *)
(***************************************************************************)
EXTENDS Sections

CONSTANTS InitValue,    \* value given to rt_sem_init
          SemMod,       \* sem->value is a 16-bit field: SemMod = 2^16
          MaxCredit     \* bound: tokens released and not yet taken

ASSUME SemaphoreAssumption ==
    /\ SemMod \in Nat \ {0}
    /\ MaxCredit \in 0 .. SemMod - 1
    /\ InitValue \in 0 .. MaxCredit

VARIABLES semValue,    \* sem->value
          semWaiters,  \* sem->parent.suspend_thread
          credit       \* ghost: tokens given to the semaphore less tokens taken

semVars == <<k, semValue, semWaiters, pc, credit>>

\* "run": in application code.  "pend": about to call the rt_schedule that
\* ends a release or a reset.  "blocked": suspended in rt_sem_take, about to
\* call rt_schedule.  "wait": inside that rt_schedule.  "reset": in the loop
\* of rt_ipc_list_resume_all, which rt_sem_control runs with interrupts
\* disabled.
SemPc == {"run", "pend", "blocked", "wait", "reset"}

SemInit ==
    /\ SectionsInit
    /\ semValue = InitValue
    /\ semWaiters = << >>
    /\ credit = InitValue

-----------------------------------------------------------------------------
IrqEnabled == ~ At("reset")

\* The tokens handed to a waiter that has not returned from rt_sem_take yet.
Granted ==
    {t \in Thread : /\ pc[t] \in {"blocked", "wait"}
                    /\ t \notin ToSet(semWaiters)
                    /\ k.err[t] = "EOK"}

-----------------------------------------------------------------------------
(* Threads *)

\* rt_thread_startup of a thread that is not started yet.
SemStartup(t) ==
    /\ At("run")
    /\ k.stat[t] = "INIT"
    /\ k' = Schedule(Resume([k EXCEPT !.stat[t] = "SUSPEND"], t))
    /\ UNCHANGED <<semValue, semWaiters, pc, credit>>

\* Mutant: the token count is tested with >= 0.
MutTakeAvailable ==
    /\ Me \in App /\ At("run")
    /\ semValue' = semValue - 1
    /\ credit' = credit - 1
    /\ UNCHANGED <<k, semWaiters, pc>>

\* rt_sem_take when a token is there.
TakeAvailable ==
    /\ Me \in App /\ At("run")
    /\ semValue > 0
    /\ semValue' = semValue - 1
    /\ credit' = credit - 1
    /\ UNCHANGED <<k, semWaiters, pc>>

\* rt_sem_take with time # 0 when there is none, up to rt_schedule.
\* rt_sem_trytake and time = 0 return -RT_ETIMEOUT and change nothing.
SemTakeSuspend(time) ==
    /\ Me \in App /\ At("run")
    /\ semValue = 0
    /\ k' = SuspendOn(k, Me, time)
    /\ semWaiters' = EnqueueWaiter(k, semWaiters, Me, Flag)
    /\ Goto("blocked")
    /\ UNCHANGED <<semValue, credit>>

\* The rt_schedule of rt_sem_take, of rt_sem_release and of rt_sem_control.
SemCallSchedule ==
    /\ pc[Me] \in {"pend", "blocked"}
    /\ k' = Schedule(k)
    /\ Goto(IF At("pend") THEN "run" ELSE "wait")
    /\ UNCHANGED <<semValue, semWaiters, credit>>

\* The taker runs again and rt_sem_take returns thread->error.
SemTakeReturn ==
    /\ At("wait")
    /\ Goto("run")
    /\ credit' = IF k.err[Me] = "EOK" THEN credit - 1 ELSE credit
    /\ UNCHANGED <<k, semValue, semWaiters>>

\* Mutant: the token is counted although it was handed over.
MutRelease ==
    /\ credit < MaxCredit
    /\ semWaiters' = IF semWaiters # << >> THEN Tail(semWaiters) ELSE semWaiters
    /\ semValue' = (semValue + 1) % SemMod
    /\ credit' = credit + 1

\* The section of rt_sem_release: hand the token to the first waiter, or
\* count it.
SemRelease ==
    /\ credit < MaxCredit
    /\ IF semWaiters # << >>
       THEN semWaiters' = Tail(semWaiters) /\ semValue' = semValue
       ELSE semValue' = (semValue + 1) % SemMod /\ semWaiters' = semWaiters
    /\ credit' = credit + 1

\* Mutant: need_schedule is never set.
MutThreadRelease ==
    /\ Me \in App /\ At("run")
    /\ SemRelease
    /\ k' = IF semWaiters # << >> THEN Resume(k, Head(semWaiters)) ELSE k
    /\ UNCHANGED pc

ThreadRelease ==
    /\ Me \in App /\ At("run")
    /\ SemRelease
    /\ IF semWaiters # << >>
       THEN k' = Resume(k, Head(semWaiters)) /\ Goto("pend")
       ELSE UNCHANGED <<k, pc>>

\* rt_sem_control(RT_IPC_CMD_RESET): interrupts go off and the loop starts.
ResetBegin ==
    /\ Me \in App /\ At("run")
    /\ Goto("reset")
    /\ UNCHANGED <<k, semValue, semWaiters, credit>>

ResetResume ==
    /\ At("reset")
    /\ semWaiters # << >>
    /\ k' = ResumeError(k, Head(semWaiters))
    /\ semWaiters' = Tail(semWaiters)
    /\ UNCHANGED <<semValue, pc, credit>>

\* Mutant: the value is set without the waiters being woken first.
MutResetEnd(v) ==
    /\ At("reset")
    /\ credit - semValue + v <= MaxCredit
    /\ semValue' = v
    /\ credit' = credit - semValue + v
    /\ Goto("pend")
    /\ UNCHANGED <<k, semWaiters>>

ResetEnd(v) ==
    /\ At("reset")
    /\ semWaiters = << >>
    /\ credit - semValue + v <= MaxCredit
    /\ semValue' = v
    /\ credit' = credit - semValue + v
    /\ Goto("pend")
    /\ UNCHANGED <<k, semWaiters>>

-----------------------------------------------------------------------------
(* Interrupts *)

\* A handler releases the semaphore; rt_schedule picks the thread to return to.
IsrRelease ==
    /\ IrqEnabled
    /\ SemRelease
    /\ k' = IF semWaiters # << >> THEN Schedule(Resume(k, Head(semWaiters))) ELSE k
    /\ UNCHANGED pc

\* rt_tick_increase at the end of a time slice: rt_thread_yield.
SemTickYield ==
    /\ IrqEnabled
    /\ k' = Schedule(k)
    /\ UNCHANGED <<semValue, semWaiters, pc, credit>>

\* Mutant: the timed-out thread stays on the wait list.
MutTickTimeout(t) ==
    /\ IrqEnabled
    /\ t \in k.tmr
    /\ k' = Timeout(k, t)
    /\ UNCHANGED <<semValue, semWaiters, pc, credit>>

\* rt_tick_increase when the thread timer of t is due: rt_thread_timeout.
SemTickTimeout(t) ==
    /\ IrqEnabled
    /\ t \in k.tmr
    /\ k' = Timeout(k, t)
    /\ semWaiters' = RemoveFirst(semWaiters, t)
    /\ UNCHANGED <<semValue, pc, credit>>

-----------------------------------------------------------------------------
SemNext ==
    \/ \E t \in Thread : SemStartup(t) \/ SemTickTimeout(t)
    \/ TakeAvailable
    \/ \E time \in Wait : SemTakeSuspend(time)
    \/ SemCallSchedule \/ SemTakeReturn
    \/ ThreadRelease
    \/ ResetBegin \/ ResetResume \/ \E v \in 0 .. MaxCredit : ResetEnd(v)
    \/ IsrRelease \/ SemTickYield

SemSpec == SemInit /\ [][SemNext]_semVars

\* A thread that has entered the kernel goes on when it has the processor, and
\* the tick interrupt does not stop.  What application code calls is its choice.
SemFairSpec ==
    /\ SemSpec
    /\ WF_semVars(SemCallSchedule) /\ WF_semVars(SemTakeReturn)
    /\ WF_semVars(ResetResume \/ \E v \in 0 .. MaxCredit : ResetEnd(v))
    /\ \A t \in Thread : WF_semVars(SemTickTimeout(t))

-----------------------------------------------------------------------------
(* Properties *)

SemTypeOK ==
    /\ k \in KernelState
    /\ semValue \in 0 .. SemMod - 1
    /\ semWaiters \in Seq(App)
    /\ pc \in [Thread -> SemPc]
    /\ credit \in 0 .. MaxCredit

\* No token is lost or invented between rt_sem_release and the RT_EOK of
\* rt_sem_take: each one is counted in value or owned by one woken waiter.
Conservation == semValue + Cardinality(Granted) = credit

\* No waiter sleeps beside an available token (the lost wake-up of a take that
\* tests the value and a release that tests the list).
NoStrandedWaiter == semValue > 0 => semWaiters = << >>

\* The wait list holds each suspended thread once and no other thread, and only
\* those threads can time out.
SemWaitersParked ==
    /\ Distinct(semWaiters)
    /\ \A t \in Thread : t \in ToSet(semWaiters) <=> k.stat[t] = "SUSPEND"
    /\ k.tmr \subseteq ToSet(semWaiters)

\* A thread of higher priority that a release, a reset or a timeout woke is
\* passed over only while the current thread still has its rt_schedule to call.
SemPreemptionPending ==
    TopRuns(k) \/ pc[Me] \in {"pend", "blocked", "reset"}

\* RT_IPC_FLAG_PRIO keeps the wait list in priority order whatever threads time
\* out of it and come back.
WaitersOrdered ==
    Flag = "PRIO" => IsSorted(semWaiters, LAMBDA s, t : k.prio[s] <= k.prio[t])

\* The timed take of a thread no other can keep from the processor returns.
TimedTakeReturns ==
    \A t \in App :
        (\A u \in App \ {t} : BasePrio[t] < BasePrio[u]) =>
            ((pc[t] = "blocked" /\ t \in k.tmr) ~> pc[t] = "run")

\* The kernel's thread states, wait list and error numbers, read as the state
\* of an abstract counting semaphore.
Outcome ==
    [t \in App |-> CASE pc[t] \notin {"blocked", "wait"} -> "none"
                     [] t \in ToSet(semWaiters) -> "waiting"
                     [] t \in Granted -> "granted"
                     [] OTHER -> "failed"]

Pool == INSTANCE TokenPool WITH
            Caller <- App, First <- InitValue, Limit <- MaxCredit,
            avail <- semValue, call <- Outcome

\* Every behaviour of the code is one of the abstract semaphore: a waiter learns
\* exactly one outcome, and a token goes to the pool only past all waiters.
ImplementsPool == Pool!PoolSpec
=============================================================================
