------------------------------- MODULE Mutex -------------------------------
(***************************************************************************)
(* rt_mutex_take and rt_mutex_release of src/rt-thread/src/ipc.c over the  *)
(* kernel of module Kernel: recursive mutexes with priority inheritance,   *)
(* used by threads that also sleep.                                        *)
(*                                                                         *)
(* A step is a section, as in module Sections.                             *)
(***************************************************************************)
EXTENDS Sections

CONSTANTS Mutex,        \* the mutexes
          None,         \* RT_NULL as an owner, 0xff as an original priority
          HoldMod,      \* mutex->hold is an 8-bit field: HoldMod = 2^8
          MaxHold       \* bound: depth of recursive takes

ASSUME MutexAssumption ==
    /\ None \notin Thread \cup Prio
    /\ HoldMod \in Nat \ {0}
    /\ MaxHold \in 1 .. HoldMod - 1

VARIABLES value,    \* mutex -> mutex->value
          owner,    \* mutex -> mutex->owner
          orig,     \* mutex -> mutex->original_priority
          hold,     \* mutex -> mutex->hold
          waiters,  \* mutex -> mutex->parent.suspend_thread
          lowered   \* ghost: the current thread gave up a boost and no
                    \* rt_schedule has run since

vars == <<k, value, owner, orig, hold, waiters, pc, lowered>>

lockVars == <<value, owner, orig, hold, waiters>>

\* "run": in application code.  "pend": about to call the rt_schedule that ends
\* rt_mutex_release.  "blocked", "sleep": suspended in rt_mutex_take or
\* rt_thread_sleep, about to call rt_schedule.  "wait", "asleep": inside it.
Pc == {"run", "pend", "blocked", "wait", "sleep", "asleep"}

Init ==
    /\ SectionsInit
    /\ value = [m \in Mutex |-> 1]
    /\ owner = [m \in Mutex |-> None]
    /\ orig = [m \in Mutex |-> None]
    /\ hold = [m \in Mutex |-> 0]
    /\ waiters = [m \in Mutex |-> << >>]
    /\ lowered = FALSE

-----------------------------------------------------------------------------
\* A step that ends in rt_schedule, from kernel state m.
Reschedule(m) == lowered' = FALSE /\ \E s \in {m} : k' = Schedule(s)

Parked == {t \in Thread : \E m \in Mutex : t \in ToSet(waiters[m])}

-----------------------------------------------------------------------------
(* Threads *)

\* rt_thread_startup of a thread that is not started yet.
Startup(t) ==
    /\ At("run")
    /\ k.stat[t] = "INIT"
    /\ Reschedule(Resume([k EXCEPT !.stat[t] = "SUSPEND"], t))
    /\ UNCHANGED <<lockVars, pc>>

\* rt_thread_sleep up to its rt_schedule.
Sleep ==
    /\ Me \in App /\ At("run")
    /\ k' = StartTimer(Suspend(k, Me), Me)
    /\ Goto("sleep")
    /\ UNCHANGED <<lockVars, lowered>>

\* rt_mutex_take by the owner.
TakeAgain(m) ==
    /\ At("run")
    /\ owner[m] = Me
    /\ hold[m] < MaxHold
    /\ hold' = [hold EXCEPT ![m] = (@ + 1) % HoldMod]
    /\ k' = [k EXCEPT !.err[Me] = "EOK"]
    /\ UNCHANGED <<value, owner, orig, waiters, pc, lowered>>

\* rt_mutex_take of a free mutex.
TakeFree(m) ==
    /\ Me \in App /\ At("run")
    /\ owner[m] # Me
    /\ value[m] > 0
    /\ value' = [value EXCEPT ![m] = @ - 1]
    /\ owner' = [owner EXCEPT ![m] = Me]
    /\ orig' = [orig EXCEPT ![m] = k.prio[Me]]
    /\ hold' = [hold EXCEPT ![m] = (@ + 1) % HoldMod]
    /\ k' = [k EXCEPT !.err[Me] = "EOK"]
    /\ UNCHANGED <<waiters, pc, lowered>>

\* Mutant: the owner does not inherit.
MutInherit(m) == k

\* The owner of m inherits the priority of the caller when that is higher.
Inherit(m) ==
    IF k.prio[Me] < k.prio[owner[m]]
    THEN ChangePriority(k, owner[m], k.prio[Me])
    ELSE k

\* rt_mutex_take with time # 0 of a mutex of another thread, up to rt_schedule.
\* With time = 0 it returns -RT_ETIMEOUT and
\* changes nothing but thread->error, which the next call resets.
TakeSuspend(m, time) ==
    /\ Me \in App /\ At("run")
    /\ owner[m] # Me
    /\ value[m] = 0
    /\ k' = SuspendOn(Inherit(m), Me, time)
    /\ waiters' = [waiters EXCEPT ![m] = EnqueueWaiter(k, @, Me, Flag)]
    /\ Goto("blocked")
    /\ UNCHANGED <<value, owner, orig, hold, lowered>>

\* The rt_schedule of rt_mutex_take, rt_mutex_release or rt_thread_sleep.
CallSchedule ==
    /\ pc[Me] \in {"pend", "blocked", "sleep"}
    /\ Reschedule(k)
    /\ Goto(CASE At("pend") -> "run" [] At("blocked") -> "wait" [] OTHER -> "asleep")
    /\ UNCHANGED lockVars

\* The thread runs again and rt_mutex_take returns thread->error.
TakeReturn ==
    /\ At("wait")
    /\ Goto("run")
    /\ UNCHANGED <<k, lockVars, lowered>>

\* The thread runs again and rt_thread_sleep clears the error of its timeout.
SleepReturn ==
    /\ At("asleep")
    /\ Goto("run")
    /\ k' = IF k.err[Me] = "ETIMEOUT" THEN [k EXCEPT !.err[Me] = "EOK"] ELSE k
    /\ UNCHANGED <<lockVars, lowered>>

\* rt_mutex_release of a mutex taken more than once.
ReleaseInner(m) ==
    /\ At("run")
    /\ owner[m] = Me
    /\ hold[m] > 1
    /\ hold' = [hold EXCEPT ![m] = @ - 1]
    /\ UNCHANGED <<k, value, owner, orig, waiters, pc, lowered>>

\* Mutant: the boost is kept.
MutRestored(m) == k

\* The caller's priority is set back to what it was when it took m.
Restored(m) ==
    IF orig[m] # k.prio[Me] THEN ChangePriority(k, Me, orig[m]) ELSE k

\* Mutant: the new owner's original priority is not recorded.
MutHandOver(m) ==
    LET h == Head(waiters[m])
    IN  /\ waiters[m] # << >>
        /\ owner' = [owner EXCEPT ![m] = h]
        /\ hold' = [hold EXCEPT ![m] = 1]
        /\ waiters' = [waiters EXCEPT ![m] = Tail(@)]
        /\ k' = Resume(Restored(m), h)
        /\ Goto("pend")
        /\ UNCHANGED <<value, orig, lowered>>

\* Mutant: the mutex is set free and the first waiter is woken to try again.
MutHandOverFree(m) ==
    /\ waiters[m] # << >>
    /\ value' = [value EXCEPT ![m] = @ + 1]
    /\ owner' = [owner EXCEPT ![m] = None]
    /\ orig' = [orig EXCEPT ![m] = None]
    /\ hold' = [hold EXCEPT ![m] = 0]
    /\ waiters' = [waiters EXCEPT ![m] = Tail(@)]
    /\ k' = Resume(Restored(m), Head(waiters[m]))
    /\ Goto("pend")
    /\ UNCHANGED lowered

\* The first waiter becomes the owner.
HandOver(m) ==
    LET h == Head(waiters[m])
    IN  /\ waiters[m] # << >>
        /\ owner' = [owner EXCEPT ![m] = h]
        /\ orig' = [orig EXCEPT ![m] = k.prio[h]]
        /\ hold' = [hold EXCEPT ![m] = 1]
        /\ waiters' = [waiters EXCEPT ![m] = Tail(@)]
        /\ k' = Resume(Restored(m), h)
        /\ Goto("pend")
        /\ UNCHANGED <<value, lowered>>

\* Mutant: the owner is not cleared.
MutSetFree(m) ==
    /\ waiters[m] = << >>
    /\ value' = [value EXCEPT ![m] = @ + 1]
    /\ orig' = [orig EXCEPT ![m] = None]
    /\ hold' = [hold EXCEPT ![m] = 0]
    /\ k' = Restored(m)
    /\ lowered' = (lowered \/ orig[m] > k.prio[Me])
    /\ UNCHANGED <<owner, waiters, pc>>

\* Nobody waits.  The caller goes on without an rt_schedule, also when its
\* priority has just come down.
SetFree(m) ==
    /\ waiters[m] = << >>
    /\ value' = [value EXCEPT ![m] = @ + 1]
    /\ owner' = [owner EXCEPT ![m] = None]
    /\ orig' = [orig EXCEPT ![m] = None]
    /\ hold' = [hold EXCEPT ![m] = 0]
    /\ k' = Restored(m)
    /\ lowered' = (lowered \/ orig[m] > k.prio[Me])
    /\ UNCHANGED <<waiters, pc>>

\* rt_mutex_release that ends the ownership; called by another thread it returns
\* -RT_ERROR and changes nothing but thread->error.
ReleaseFinal(m) ==
    /\ At("run")
    /\ owner[m] = Me
    /\ hold[m] = 1
    /\ HandOver(m) \/ SetFree(m)

-----------------------------------------------------------------------------
(* The tick interrupt *)

\* The end of a time slice: rt_thread_yield.
TickYield ==
    /\ Reschedule(k)
    /\ UNCHANGED <<lockVars, pc>>

\* rt_thread_timeout of t.
TickTimeout(t) ==
    /\ t \in k.tmr
    /\ Reschedule(Wake(k, t, "ETIMEOUT"))
    /\ waiters' = [m \in Mutex |-> RemoveFirst(waiters[m], t)]
    /\ UNCHANGED <<value, owner, orig, hold, pc>>

-----------------------------------------------------------------------------
Release(m) == ReleaseInner(m) \/ ReleaseFinal(m)

Next ==
    \/ \E t \in Thread : Startup(t) \/ TickTimeout(t)
    \/ \E m \in Mutex : \/ TakeAgain(m) \/ TakeFree(m) \/ Release(m)
                        \/ \E time \in Wait : TakeSuspend(m, time)
    \/ Sleep \/ CallSchedule \/ TakeReturn \/ SleepReturn \/ TickYield

Spec == Init /\ [][Next]_vars

\* What takes a call of t further: its time-out while it waits, and its own steps
\* while it has the processor.
Proceed(t) ==
    \/ TickTimeout(t)
    \/ Me = t /\ (CallSchedule \/ TakeReturn \/ SleepReturn)

\* The tick interrupt does not stop; a call that can go on again and again does
\* so; and the owner of a mutex gives it up.
FairSpec ==
    /\ Spec /\ WF_vars(TickYield)
    /\ \A t \in App : SF_vars(Proceed(t))
    /\ \A m \in Mutex : SF_vars(ReleaseInner(m)) /\ SF_vars(ReleaseFinal(m))

-----------------------------------------------------------------------------
(* Properties *)

TypeOK ==
    /\ k \in KernelState
    /\ value \in [Mutex -> 0 .. 1]
    /\ owner \in [Mutex -> App \cup {None}]
    /\ orig \in [Mutex -> Prio \cup {None}]
    /\ hold \in [Mutex -> 0 .. MaxHold]
    /\ waiters \in [Mutex -> Seq(App)]
    /\ pc \in [Thread -> Pc]
    /\ lowered \in BOOLEAN

\* The four fields of a mutex tell the same story, and no thread waits for a
\* mutex that is free or its own.
LockConsistent ==
    \A m \in Mutex :
        /\ owner[m] = None <=> value[m] = 1
        /\ owner[m] = None <=> hold[m] = 0
        /\ owner[m] = None <=> orig[m] = None
        /\ owner[m] = None => waiters[m] = << >>
        /\ owner[m] \notin ToSet(waiters[m])

\* A thread waits for one mutex at a time, and exactly the waiters and the
\* sleepers are suspended.
WaitersParked ==
    /\ \A m \in Mutex : Distinct(waiters[m])
    /\ \A m, n \in Mutex : m # n => ToSet(waiters[m]) \cap ToSet(waiters[n]) = {}
    /\ Parked \cup k.tmr = {t \in Thread : k.stat[t] = "SUSPEND"}

\* RT_EOK from rt_mutex_take means that the caller owns a mutex, for as long as
\* it takes it to get back to the processor.
OutcomeTrue ==
    \A t \in Thread :
        pc[t] \in {"blocked", "wait"} /\ k.stat[t] # "SUSPEND" /\ k.err[t] = "EOK" =>
            \E m \in Mutex : owner[m] = t

\* Priority inheritance: the owner is as urgent as every thread that waits.
OwnerInherits ==
    \A m \in Mutex : \A t \in ToSet(waiters[m]) : k.prio[owner[m]] <= k.prio[t]

\* Inheritance only raises a thread above the priority it was created with.
NeverDemoted == \A t \in Thread : k.prio[t] <= BasePrio[t]

\* A thread that owns no mutex is back at its own priority.
BoostEnds ==
    \A t \in Thread :
        (\A m \in Mutex : owner[m] # t) => k.prio[t] = BasePrio[t]

\* A ready thread is passed over only until a pending rt_schedule, or after its
\* outranked owner gave up a boost in rt_mutex_release with nobody waiting,
\* which calls no rt_schedule, until the next one.
PreemptionPending ==
    TopRuns(k) \/ pc[Me] \in {"pend", "blocked", "sleep"} \/ lowered

\* What must hold between any two sections of any of the calls.
Consistent ==
    /\ TypeOK /\ KernelConsistent /\ WaitersParked /\ OutcomeTrue /\ PreemptionPending
    /\ LockConsistent

\* The most urgent thread comes back from every take and every sleep, although
\* threads of middle priority never give up the processor of their own will.
UrgentTakeReturns ==
    \A t \in {s \in App : \A u \in App \ {s} : BasePrio[s] < BasePrio[u]} :
        []<>(pc[t] = "run")

\* What the take of each thread on m has come to, read from the kernel states,
\* the wait list and the error numbers.
CallOn(m) ==
    [t \in App |->
        CASE t \in ToSet(waiters[m]) -> "waiting"
          [] /\ owner[m] = t /\ pc[t] \in {"blocked", "wait"}
             /\ k.err[t] = "EOK" /\ k.stat[t] # "SUSPEND" -> "granted"
          [] OTHER -> "none"]

L(m) == INSTANCE Lock WITH
            Caller <- App, Nobody <- None, Deepest <- MaxHold,
            holder <- owner[m], depth <- hold[m], call <- CallOn(m)

\* A mutex implements the abstract lock: it is handed from owner to waiter
\* without ever being free in between, and no thread releases it before its own
\* take has returned.  (The conjunction of L(m)!LockSpec over the mutexes.)
ImplementsLock ==
    /\ \A m \in Mutex : L(m)!LockInit
    /\ [][\A m \in Mutex : [L(m)!LockNext]_(L(m)!lockSpecVars)]_vars
=============================================================================
