----------------------------- MODULE HardTimer -----------------------------
(***************************************************************************)
(* The hard timers of src/rt-thread/src/timer.c: threads and interrupt     *)
(* handlers start and stop them, and the tick interrupt calls the          *)
(* callbacks of those that are due.                                        *)
(*                                                                         *)
(* rt_timer_check keeps interrupts disabled, so a tick is one step;        *)
(* rt_timer_start and rt_timer_stop of a thread are interrupted between    *)
(* their sections.  Which thread runs does not matter here.  A timer is in *)
(* the hands of one thread or handler at a time, as rt_timer_start needs   *)
(* it; the callbacks come whenever they are due.                           *)
(***************************************************************************)
EXTENDS TimerList

CONSTANTS Timer,     \* the hard timers
          User,      \* the threads that use them
          NoTimer,
          Periodic,  \* those with RT_TIMER_FLAG_PERIODIC
          Stops,     \* timer -> the timers that its callback may stop
          Time,      \* the times that the timers are given
          MaxLag     \* bound: ticks between the parts of one rt_timer_start

HardTimerAssumption ==
    /\ IsFiniteSet(Timer) /\ NoTimer \notin Timer
    /\ Periodic \subseteq Timer
    /\ Stops \in [Timer -> SUBSET Timer]
    /\ Time # {} /\ MaxLag \in Nat \ {0}
    /\ \A d \in Time : d \in Nat \ {0} /\ d + MaxLag < TickMax \div 2

VARIABLES tick,          \* rt_tick
          rt_timer_list,
          timeout_tick,  \* timer -> timer->timeout_tick
          init_tick,     \* timer -> timer->init_tick
          activated,     \* the timers with RT_TIMER_FLAG_ACTIVATED
          timer_at,      \* thread -> where it is in rt_timer_start or rt_timer_stop
          timer_arg,     \* thread -> the timer of that call
          fresh          \* ghost: the timers that were listed since the last tick

timerVars == <<tick, rt_timer_list, timeout_tick, init_tick, activated,
               timer_at, timer_arg, fresh>>

Init ==
    /\ tick = 0
    /\ rt_timer_list = << >>
    /\ timeout_tick = [x \in Timer |-> 0]
    /\ init_tick = [x \in Timer |-> CHOOSE d \in Time : TRUE]
    /\ activated = {} /\ fresh = {}
    /\ timer_at = [t \in User |-> "run"]
    /\ timer_arg = [t \in User |-> NoTimer]

-----------------------------------------------------------------------------
At(t, l) == timer_at[t] = l

Goto(t, l) ==
    /\ timer_at' = [timer_at EXCEPT ![t] = l]
    /\ timer_arg' = IF l = "run" THEN [timer_arg EXCEPT ![t] = NoTimer] ELSE timer_arg

Enter(t, l, x) ==
    /\ timer_at' = [timer_at EXCEPT ![t] = l]
    /\ timer_arg' = [timer_arg EXCEPT ![t] = x]

Free(x) == \A t \in User : timer_arg[t] # x

\* What rt_timer_start and rt_timer_stop change: the record s of the list, the
\* timeouts and the active timers.
Service ==
    [list |-> rt_timer_list, due |-> timeout_tick, active |-> activated]

Serve(s) ==
    /\ rt_timer_list' = s.list
    /\ timeout_tick' = s.due
    /\ activated' = s.active
    /\ fresh' = (fresh \cup (ToSet(s.list) \ ToSet(rt_timer_list))) \cap ToSet(s.list)

Stopped(s, x) == [s EXCEPT !.list = RemoveFirst(@, x), !.active = @ \ {x}]

\* rt_timer_start at tick now, without a break.
Started(s, x, now) ==
    LET d == [s.due EXCEPT ![x] = (now + init_tick[x]) % TickMod]
    IN  [list |-> Linked(RemoveFirst(s.list, x), d, x), due |-> d,
         active |-> s.active \cup {x}]

-----------------------------------------------------------------------------
(* Threads *)

\* rt_timer_control with RT_TIMER_CTRL_SET_TIME: the time of the next start.
SetTime(t, x, time) ==
    /\ At(t, "run") /\ Free(x)
    /\ init_tick' = [init_tick EXCEPT ![x] = time]
    /\ UNCHANGED <<tick, rt_timer_list, timeout_tick, activated, timer_at, timer_arg, fresh>>

\* rt_timer_start stops the timer first ...
StartBegin(t, x) ==
    /\ At(t, "run") /\ Free(x)
    /\ Serve(Stopped(Service, x))
    /\ Enter(t, "arm", x)
    /\ UNCHANGED <<tick, init_tick>>

\* ... reads the tick ...
StartArm(t) ==
    /\ At(t, "arm")
    /\ timeout_tick' = [timeout_tick EXCEPT ![timer_arg[t]] = (tick + init_tick[timer_arg[t]]) % TickMod]
    /\ Goto(t, "link")
    /\ UNCHANGED <<tick, rt_timer_list, init_tick, activated, fresh>>

\* ... and lists it.
StartLink(t) ==
    /\ At(t, "link")
    /\ Serve([Service EXCEPT !.list = Linked(@, timeout_tick, timer_arg[t]),
                             !.active = @ \cup {timer_arg[t]}])
    /\ Goto(t, "run")
    /\ UNCHANGED <<tick, init_tick>>

\* rt_timer_stop looks at the flag; the timer may run out before the section
\* that takes it off the list.
StopTest(t, x) ==
    /\ At(t, "run") /\ Free(x)
    /\ x \in activated
    /\ Enter(t, "remove", x)
    /\ UNCHANGED <<tick, rt_timer_list, timeout_tick, init_tick, activated, fresh>>

StopRemove(t) ==
    /\ At(t, "remove")
    /\ Serve([Service EXCEPT !.list = RemoveFirst(@, timer_arg[t])])
    /\ Goto(t, "unflag")
    /\ UNCHANGED <<tick, init_tick>>

StopEnd(t) ==
    /\ At(t, "unflag")
    /\ activated' = activated \ {timer_arg[t]}
    /\ Goto(t, "run")
    /\ UNCHANGED <<tick, rt_timer_list, timeout_tick, init_tick, fresh>>

-----------------------------------------------------------------------------
(* Interrupts *)

IsrStart(x) ==
    /\ Free(x)
    /\ Serve(Started(Service, x, tick))
    /\ UNCHANGED <<tick, init_tick, timer_at, timer_arg>>

IsrStop(x) ==
    /\ Free(x)
    /\ x \in activated
    /\ Serve(Stopped(Service, x))
    /\ UNCHANGED <<tick, init_tick, timer_at, timer_arg>>

\* rt_timer_stop in a callback.
TryStopped(s, y) == IF y \in s.active THEN Stopped(s, y) ELSE s

\* The callback of x stops those of off that it may stop.
Called(s, x, off) ==
    LET order == SetToSeq(Stops[x] \cap off)
        stopped[i \in 0 .. Len(order)] ==
            IF i = 0 THEN s ELSE TryStopped(stopped[i - 1], order[i])
    IN  stopped[Len(order)]

\* The first timer of the list leaves it and is called; a periodic one that is
\* still active is started again.
Fire(s, now, off) ==
    LET x == Head(s.list)
        r == Called([s EXCEPT !.list = Tail(@)], x, off)
    IN  IF x \in Periodic \cap r.active THEN Started(r, x, now)
        ELSE [r EXCEPT !.active = @ \ {x}]

\* One round of rt_timer_check: the first timer, if it is due.
Round(s, now, off) ==
    IF s.list # << >> /\ Within(now, s.due[s.list[1]]) THEN Fire(s, now, off) ELSE s

\* Mutant: one round for each tick.
MutChecked(s, now, off) == Round(s, now, off)

\* rt_timer_check: as long as the first timer is due.  A timer that is started
\* again is due later, so there are no more rounds than timers.
Checked(s, now, off) ==
    LET round[i \in 0 .. Cardinality(Timer)] ==
            IF i = 0 THEN s ELSE Round(round[i - 1], now, off)
    IN  round[Cardinality(Timer)]

\* The timeouts that a thread has computed and not listed yet.
Computed == {timeout_tick[timer_arg[t]] : t \in {u \in User : At(u, "link")}}

\* rt_tick_increase
TickIncrease ==
    /\ \A v \in Computed : (tick - v) % TickMod \notin MaxLag .. TickMax \div 2
    /\ tick' = (tick + 1) % TickMod
    /\ \E off \in SUBSET Timer :
       LET s == Checked(Service, tick', off)
       IN  /\ rt_timer_list' = s.list
           /\ timeout_tick' = s.due
           /\ activated' = s.active
    /\ fresh' = {}
    /\ UNCHANGED <<init_tick, timer_at, timer_arg>>

-----------------------------------------------------------------------------
HardTimerNext ==
    \/ \E t \in User :
          \/ \E x \in Timer :
                StartBegin(t, x) \/ StopTest(t, x) \/ \E d \in Time : SetTime(t, x, d)
          \/ StartArm(t) \/ StartLink(t) \/ StopRemove(t) \/ StopEnd(t)
    \/ \E x \in Timer : IsrStart(x) \/ IsrStop(x)
    \/ TickIncrease

-----------------------------------------------------------------------------
(* Properties *)

TypeOK ==
    /\ tick \in Tick
    /\ rt_timer_list \in Seq(Timer)
    /\ timeout_tick \in [Timer -> Tick]
    /\ init_tick \in [Timer -> Time]
    /\ activated \subseteq Timer /\ fresh \subseteq Timer
    /\ timer_at \in [User -> {"run", "arm", "link", "remove", "unflag"}]
    /\ timer_arg \in [User -> Timer \cup {NoTimer}]

\* A thread has taken x off the list and not cleared its flag yet.
Stopping(x) == \E t \in User : At(t, "unflag") /\ timer_arg[t] = x

\* A timer is on the list once, exactly while it is active.
ListedActive ==
    /\ Cardinality(ToSet(rt_timer_list)) = Len(rt_timer_list)
    /\ \A x \in Timer : x \in ToSet(rt_timer_list) <=> x \in activated /\ ~ Stopping(x)

\* No timer is left on the list past its timeout by a tick interrupt; one that
\* was listed too late waits for the next.
NoneOverdue ==
    \A x \in ToSet(rt_timer_list) : Within(tick, timeout_tick[x]) => x \in fresh

TimersConsistent ==
    /\ TypeOK /\ ListedActive
    /\ InOrder(rt_timer_list, timeout_tick)
    /\ NoneOverdue
=============================================================================
