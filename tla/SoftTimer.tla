----------------------------- MODULE SoftTimer -----------------------------
(***************************************************************************)
(* The soft timers of src/rt-thread/src/timer.c: the list of started       *)
(* timers, the timer thread that sleeps until the first is due and calls   *)
(* the callbacks, and threads that start and stop timers, over the kernel  *)
(* of module Kernel and a tick counter that wraps around.                  *)
(*                                                                         *)
(* A step is the code between two points at which an interrupt or another  *)
(* thread can come in.                                                     *)
(***************************************************************************)
EXTENDS Threads, TimerList

CONSTANTS Timer,        \* the soft timers
          ListHead,         \* the list head, as a value of the cursor n
          Daemon,       \* timer_thread
          Owner,        \* timer -> the thread that starts and stops it
          Period,       \* timer -> init_tick
          Periodic,     \* the timers with RT_TIMER_FLAG_PERIODIC
          Restarting,   \* the timers whose callback calls rt_timer_start on them
          MaxLag        \* bound: ticks by which a due tick in use is passed over

ASSUME SoftTimerAssumption ==
    /\ ListHead \notin Timer
    /\ Daemon \in Thread \ {Idle}
    /\ Owner \in [Timer -> Thread \ {Daemon}]
    /\ Period \in [Timer -> 1 .. TickMax \div 2 - 1]
    /\ Periodic \subseteq Timer /\ Restarting \subseteq Timer
    /\ BasePrio \in [Thread -> Prio]
    /\ MaxLag \in 1 .. TickMax \div 2 - 1

VARIABLES tick,     \* rt_tick
          list,     \* rt_soft_timer_list
          due,      \* timer -> timer->timeout_tick
          active,   \* the timers with RT_TIMER_FLAG_ACTIVATED
          wake,     \* timeout_tick of the thread timer of the timer thread,
                    \* 0 while that is not active
          arg,      \* thread -> the timer it passed to rt_timer_start or _stop,
                    \* ListHead outside of these
          loc,      \* the locals of the timer thread: next_timeout,
                    \* current_tick, n and t, NoLocals outside of their scope
          misread   \* ghost: next_timeout is RT_TICK_MAX and is a timeout

vars == <<k, tick, list, due, active, wake, pc, arg, loc, misread>>

timerVars == <<list, due, active>>

\* rt_timer_start is at "arm" before it computes timeout_tick, then at "link",
\* "kick" (is the timer thread suspended?), "resume", "unlink", "insert" (the
\* three sections of rt_thread_resume) and "pend" (rt_schedule); rt_timer_stop
\* is at "unflag" before it clears the flag.
StartPc == {"arm", "link", "kick", "resume", "unlink", "insert", "pend", "unflag"}

DaemonPc == {"top", "peek", "now", "delay", "suspend", "blocked", "check", "lock",
             "loop", "call", "called", "relock", "unlock"}

Pc == {"run"} \cup StartPc \cup DaemonPc

NoLocals == [nt |-> 0, ct |-> 0, n |-> ListHead, t |-> ListHead]

\* The scheduler has just started: the timer thread runs, the idle thread is
\* ready and the other threads wait for their events.
Init ==
    /\ k = [cur |-> Daemon, prio |-> BasePrio,
            stat |-> [t \in Thread |-> CASE t = Daemon -> "RUNNING"
                                         [] t = Idle -> "READY"
                                         [] OTHER -> "SUSPEND"],
            err |-> [t \in Thread |-> "EOK"],
            rq |-> [p \in Prio |-> IF p = BasePrio[Idle] THEN <<Idle>> ELSE << >>],
            grp |-> {BasePrio[Idle]}, tmr |-> {}, lock |-> 0]
    /\ tick = 0
    /\ list = << >>
    /\ due = [x \in Timer |-> 0]
    /\ active = {}
    /\ wake = 0
    /\ pc = [t \in Thread |-> IF t = Daemon THEN "top" ELSE "run"]
    /\ arg = [t \in Thread |-> ListHead]
    /\ misread = FALSE
    /\ loc = NoLocals

-----------------------------------------------------------------------------
\* rt_timer_start or rt_timer_stop returns to the application or the callback.
ReturnIf(c, l) ==
    LET done == IF Me = Daemon THEN "called" ELSE "run"
    IN  /\ Goto(IF c THEN done ELSE l)
        /\ arg' = IF c THEN [arg EXCEPT ![Me] = ListHead] ELSE arg

Return == ReturnIf(TRUE, "run")

\* node->next of a timer or of the list head; a removed node points to itself.
After(x) ==
    LET i == IF x = ListHead THEN 0 ELSE SelectInSeq(list, LAMBDA y : y = x)
    IN  CASE x # ListHead /\ i = 0 -> x
          [] i = Len(list) -> ListHead
          [] OTHER -> list[i + 1]

-----------------------------------------------------------------------------
(* Threads that use timers, and callbacks *)

\* Who may pass x to rt_timer_start and rt_timer_stop now: its owner, and its
\* own callback if it restarts itself.
MayUse(x) ==
    \/ At("run") /\ Owner[x] = Me
    \/ At("call") /\ loc.t = x /\ x \in Restarting

\* rt_timer_start, first section: the timer is stopped.
StartBegin(x) ==
    /\ MayUse(x)
    /\ list' = RemoveFirst(list, x)
    /\ active' = active \ {x}
    /\ arg' = [arg EXCEPT ![Me] = x]
    /\ Goto("arm")
    /\ UNCHANGED <<k, tick, due, wake, loc, misread>>

StartArm ==
    /\ At("arm")
    /\ due' = [due EXCEPT ![arg[Me]] = (tick + Period[arg[Me]]) % TickMod]
    /\ Goto("link")
    /\ UNCHANGED <<k, tick, list, active, wake, arg, loc, misread>>

\* The second section: the timer goes on the list.
StartLink ==
    /\ At("link")
    /\ list' = Linked(list, due, arg[Me])
    /\ active' = active \cup {arg[Me]}
    /\ Goto("kick")
    /\ UNCHANGED <<k, tick, due, wake, arg, loc, misread>>

\* Mutant: a sleeping timer thread is left asleep.
MutStartKick ==
    /\ At("kick")
    /\ Return
    /\ UNCHANGED <<k, tick, timerVars, wake, loc, misread>>

\* "check whether timer thread is ready".
StartKick ==
    /\ At("kick")
    /\ ReturnIf(k.stat[Daemon] # "SUSPEND", "resume")
    /\ UNCHANGED <<k, tick, timerVars, wake, loc, misread>>

\* rt_thread_resume(&timer_thread): the test of its state ...
ResumeTest ==
    /\ At("resume")
    /\ Goto(IF k.stat[Daemon] = "SUSPEND" THEN "unlink" ELSE "pend")
    /\ UNCHANGED <<k, tick, timerVars, wake, arg, loc, misread>>

\* ... the section that takes it off its list and stops its timer ...
ResumeUnlink ==
    /\ At("unlink")
    /\ k' = ResumeOff(k, Daemon)
    /\ wake' = 0
    /\ Goto("insert")
    /\ UNCHANGED <<tick, timerVars, arg, loc, misread>>

\* ... and rt_schedule_insert_thread.
ResumeInsert ==
    /\ At("insert")
    /\ k' = InsertThread(k, Daemon)
    /\ Goto("pend")
    /\ UNCHANGED <<tick, timerVars, wake, arg, loc, misread>>

StartSchedule ==
    /\ At("pend")
    /\ k' = Schedule(k)
    /\ Return
    /\ UNCHANGED <<tick, timerVars, wake, loc, misread>>

\* rt_timer_stop of a started timer; of another it returns -RT_ERROR.
StopBegin(x) ==
    /\ At("run") /\ Owner[x] = Me
    /\ x \in active
    /\ list' = RemoveFirst(list, x)
    /\ arg' = [arg EXCEPT ![Me] = x]
    /\ Goto("unflag")
    /\ UNCHANGED <<k, tick, due, active, wake, loc, misread>>

StopEnd ==
    /\ At("unflag")
    /\ active' = active \ {arg[Me]}
    /\ Return
    /\ UNCHANGED <<k, tick, list, due, wake, loc, misread>>

\* A thread waits for an event of its own, and an interrupt brings the event.
Rest ==
    /\ Me \notin {Daemon, Idle} /\ At("run")
    /\ k' = Schedule(Suspend(k, Me))
    /\ UNCHANGED <<tick, timerVars, wake, pc, arg, loc, misread>>

IsrWake(t) ==
    /\ t \notin {Daemon, Idle}
    /\ k.stat[t] = "SUSPEND"
    /\ k' = Schedule(Resume(k, t))
    /\ UNCHANGED <<tick, timerVars, wake, pc, arg, loc, misread>>
-----------------------------------------------------------------------------
(* rt_thread_timer_entry and rt_soft_timer_check *)

DaemonAt(l) == Me = Daemon /\ At(l)

\* rt_timer_list_next_timeout tests the list ...
NextTest ==
    /\ DaemonAt("top")
    /\ IF list = << >>
       THEN loc' = [loc EXCEPT !.nt = TickMax] /\ Goto("suspend")
       ELSE Goto("peek") /\ UNCHANGED loc
    /\ misread' = FALSE
    /\ UNCHANGED <<k, tick, timerVars, wake, arg>>

\* ... and reads its first timer, with interrupts enabled throughout: when the
\* list has become empty, it reads whatever lies beside the list head.
NextPeek ==
    /\ DaemonAt("peek")
    /\ \E v \in IF list = << >> THEN Tick ELSE {due[list[1]]} :
          /\ loc' = [loc EXCEPT !.nt = v]
          /\ Goto(IF v = TickMax THEN "suspend" ELSE "now")
          /\ misread' = (v = TickMax)
    /\ UNCHANGED <<k, tick, timerVars, wake, arg>>

\* "no software timer exist, suspend self": rt_thread_suspend.
SuspendSelf ==
    /\ DaemonAt("suspend")
    /\ k' = Suspend(k, Daemon)
    /\ Goto("blocked")
    /\ UNCHANGED <<tick, timerVars, wake, arg, loc, misread>>

\* Mutant: the timeout itself is taken for the delta.
MutNextDelta ==
    /\ DaemonAt("now")
    /\ IF Within(loc.nt, tick)
       THEN loc' = [loc EXCEPT !.ct = tick] /\ Goto("delay")
       ELSE Goto("check") /\ UNCHANGED loc
    /\ UNCHANGED <<k, tick, timerVars, wake, arg, misread>>

\* The delta to the next timeout, if that lies ahead.
NextDelta ==
    /\ DaemonAt("now")
    /\ IF Within(loc.nt, tick)
       THEN loc' = [loc EXCEPT !.nt = (@ - tick) % TickMod, !.ct = tick] /\ Goto("delay")
       ELSE Goto("check") /\ UNCHANGED loc
    /\ UNCHANGED <<k, tick, timerVars, wake, arg, misread>>

\* rt_thread_delay up to its rt_schedule.
Delay ==
    /\ DaemonAt("delay")
    /\ k' = StartTimer(Suspend(k, Daemon), Daemon)
    /\ wake' = (tick + loc.nt) % TickMod
    /\ Goto("blocked")
    /\ UNCHANGED <<tick, timerVars, arg, loc, misread>>

\* The rt_schedule of either.  The timer thread runs on when it is resumed.
DaemonSchedule ==
    /\ DaemonAt("blocked")
    /\ k' = Schedule(k)
    /\ Goto("check")
    /\ UNCHANGED <<tick, timerVars, wake, arg, loc, misread>>

CheckTick ==
    /\ DaemonAt("check") /\ k.stat[Daemon] = "RUNNING"
    /\ loc' = [NoLocals EXCEPT !.ct = tick]
    /\ Goto("lock")
    /\ UNCHANGED <<k, tick, timerVars, wake, arg, misread>>

\* rt_enter_critical, and the cursor goes to the first timer.
CheckLock ==
    /\ DaemonAt("lock")
    /\ k' = EnterCritical(k)
    /\ loc' = [loc EXCEPT !.n = After(ListHead)]
    /\ Goto("loop")
    /\ UNCHANGED <<tick, timerVars, wake, arg, misread>>

Due == loc.n # ListHead /\ Within(loc.ct, due[loc.n])

\* Mutant: the cursor moves on when the timer has left the list.
MutCheckFire ==
    /\ DaemonAt("loop")
    /\ Due
    /\ loc' = [loc EXCEPT !.t = loc.n]
    /\ list' = RemoveFirst(list, loc.n)
    /\ k' = Schedule(ExitCritical(k))
    /\ Goto("call")
    /\ UNCHANGED <<tick, due, active, wake, arg, misread>>

\* The timer at the cursor is due: the cursor moves on, the timer leaves the
\* list and the scheduler is unlocked for the callback.
CheckFire ==
    /\ DaemonAt("loop")
    /\ Due
    /\ loc' = [loc EXCEPT !.n = After(loc.n), !.t = loc.n]
    /\ list' = RemoveFirst(list, loc.n)
    /\ k' = Schedule(ExitCritical(k))
    /\ Goto("call")
    /\ UNCHANGED <<tick, due, active, wake, arg, misread>>

\* A callback that does not restart its timer returns.
CallbackReturn ==
    /\ DaemonAt("call")
    /\ loc.t \notin Restarting
    /\ Goto("called")
    /\ UNCHANGED <<k, tick, timerVars, wake, arg, loc, misread>>

CheckAgain ==
    /\ DaemonAt("called")
    /\ loc' = [loc EXCEPT !.ct = tick]
    /\ Goto("relock")
    /\ UNCHANGED <<k, tick, timerVars, wake, arg, misread>>

\* Mutant: a one-shot timer keeps its flag.
MutCheckRestart ==
    /\ DaemonAt("relock")
    /\ k' = EnterCritical(k)
    /\ IF loc.t \in Periodic \cap active
       THEN LET d == [due EXCEPT ![loc.t] = (tick + Period[loc.t]) % TickMod]
            IN  /\ due' = d
                /\ list' = Linked(RemoveFirst(list, loc.t), d, loc.t)
       ELSE UNCHANGED <<list, due>>
    /\ Goto("loop")
    /\ UNCHANGED <<tick, active, wake, arg, loc, misread>>

\* rt_enter_critical again; a periodic timer that is still active is started
\* again, with the scheduler locked, and any other loses its flag.
CheckRestart ==
    /\ DaemonAt("relock")
    /\ k' = EnterCritical(k)
    /\ IF loc.t \in Periodic \cap active
       THEN LET d == [due EXCEPT ![loc.t] = (tick + Period[loc.t]) % TickMod]
            IN  /\ due' = d
                /\ list' = Linked(RemoveFirst(list, loc.t), d, loc.t)
                /\ UNCHANGED active
       ELSE /\ active' = active \ {loc.t}
            /\ UNCHANGED <<list, due>>
    /\ Goto("loop")
    /\ UNCHANGED <<tick, wake, arg, loc, misread>>

\* Mutant: the scheduler stays locked.
MutCheckEnd ==
    /\ DaemonAt("loop")
    /\ ~ Due
    /\ loc' = NoLocals
    /\ Goto("top")
    /\ UNCHANGED <<k, tick, timerVars, wake, arg, misread>>

CheckEnd ==
    /\ DaemonAt("loop")
    /\ ~ Due
    /\ k' = Schedule(ExitCritical(k))
    /\ loc' = NoLocals
    /\ Goto("top")
    /\ UNCHANGED <<tick, timerVars, wake, arg, misread>>

-----------------------------------------------------------------------------
(* The tick interrupt *)

\* The ticks that the code is about to compare with the current one.  While the
\* timer thread is in its delay, that bounds the age of the timeouts on the list.
TicksInUse ==
    (IF Daemon \in k.tmr THEN {} ELSE {due[x] : x \in ToSet(list)})
        \cup {due[arg[t]] : t \in {u \in Thread : pc[u] = "link"}}
        \cup (IF pc[Daemon] = "now" THEN {loc.nt} ELSE {})
        \cup (IF pc[Daemon] \in {"delay", "lock", "loop"} THEN {loc.ct} ELSE {})

\* rt_tick_increase: the timer thread's delay may be over.  Threads of equal
\* priority, which would take turns, are not modelled.
TickIncrease ==
    /\ \A v \in TicksInUse : (tick - v) % TickMod \notin MaxLag .. TickMax \div 2
    /\ tick' = (tick + 1) % TickMod
    /\ IF Daemon \in k.tmr /\ Within(tick', wake)
       THEN k' = Timeout(k, Daemon) /\ wake' = 0
       ELSE UNCHANGED <<k, wake>>
    /\ UNCHANGED <<timerVars, pc, arg, loc, misread>>

-----------------------------------------------------------------------------
UserStep ==
    \/ \E x \in Timer : StartBegin(x) \/ StopBegin(x)
    \/ Rest

CallStep ==
    \/ StartArm \/ StartLink \/ StartKick
    \/ ResumeTest \/ ResumeUnlink \/ ResumeInsert \/ StartSchedule
    \/ StopEnd

DaemonStep ==
    \/ NextTest \/ NextPeek \/ SuspendSelf \/ NextDelta \/ Delay
    \/ DaemonSchedule \/ CheckTick \/ CheckLock \/ CheckFire
    \/ CallbackReturn \/ CheckAgain \/ CheckRestart \/ CheckEnd

Next ==
    \/ UserStep \/ CallStep \/ DaemonStep
    \/ \E t \in Thread : IsrWake(t)
    \/ TickIncrease

Spec == Init /\ [][Next]_vars

\* A callback that restarts its timer does so.
CallbackStep == At("call") /\ \E x \in Timer : StartBegin(x)

\* The tick does not stop, the timer thread and the callbacks go on when they
\* have the processor, and so does a call that is under way.
FairSpec ==
    /\ Spec
    /\ WF_vars(TickIncrease) /\ WF_vars(DaemonStep \/ CallbackStep \/ (Me = Daemon /\ CallStep))
    /\ \A t \in {Owner[x] : x \in Timer} : SF_vars(Me = t /\ CallStep)

-----------------------------------------------------------------------------
(* Properties *)

TypeOK ==
    /\ k \in KernelState
    /\ tick \in Tick
    /\ list \in Seq(Timer)
    /\ due \in [Timer -> Tick]
    /\ active \subseteq Timer
    /\ wake \in Tick
    /\ pc \in [Thread -> Pc]
    /\ arg \in [Thread -> Timer \cup {ListHead}]
    /\ misread \in BOOLEAN
    /\ loc \in [nt : Tick, ct : Tick, n : Timer \cup {ListHead}, t : Timer \cup {ListHead}]

\* The kernel's lists survive a timer thread that is woken by its delay and by
\* rt_timer_start at once.
KernelConsistent == KernelOK(k)

\* x is between a change of the list and the change of its flag that follows.
Busy(x) ==
    \/ \E t \in Thread : pc[t] \in StartPc /\ arg[t] = x
    \/ pc[Daemon] \in {"call", "called", "relock"} \cup StartPc /\ loc.t = x

\* A timer is on the list once, exactly while it is active.
ListedActive ==
    /\ Distinct(list)
    /\ \A x \in Timer : (x \in ToSet(list) <=> x \in active) \/ Busy(x)

\* The list is in the order of the timeouts, also across the wrap of the tick.
ListOrdered == InOrder(list, due)

\* The timer thread has no timeout to wake it up.
Asleep == k.stat[Daemon] = "SUSPEND" /\ Daemon \notin k.tmr

\* Somebody is about to resume it.
Kicked == \E t \in Thread : pc[t] \in {"kick", "resume", "unlink", "insert"}

\* The timer thread sleeps for good only when there is no timer to wait for, or
\* when the first timeout is RT_TICK_MAX, which the code takes for none.
AsleepWhenNone == Asleep => list = << >> \/ Kicked \/ misread

\* It sleeps until the first timer is due, and longer only by the ticks that
\* passed between its look at the tick and its rt_thread_delay.
WakesInTime ==
    Daemon \in k.tmr /\ list # << >> =>
        Within(due[list[1]] + MaxLag, wake) \/ Kicked

\* A callback is only ever called of a timer that was on the list.
FiresListed ==
    [][pc[Daemon] = "loop" /\ pc'[Daemon] = "call" => loc.n \in ToSet(list)]_vars

\* The scheduler is locked exactly while the timer thread walks the list, and
\* never in a callback.
LockedInLoop == k.lock = IF pc[Daemon] = "loop" THEN 1 ELSE 0

\* What must hold between any two sections of the timer code.
Consistent == TypeOK /\ KernelConsistent /\ LockedInLoop

\* A started timer is called or stopped, unless its timeout is RT_TICK_MAX.
TimerFires ==
    \A x \in Timer :
        x \in ToSet(list) ~> x \notin ToSet(list) \/ (Asleep /\ misread)
=============================================================================
