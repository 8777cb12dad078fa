----------------------------- MODULE ThreadLife -----------------------------
(***************************************************************************)
(* The life of a thread in src/rt-thread/src/thread.c and idle.c over the  *)
(* kernel of module Kernel: creation, start, suspension and resumption,    *)
(* exit, deletion by another thread, and the idle thread that gives the    *)
(* memory of dead threads back.                                            *)
(*                                                                         *)
(* rt_thread_delete, rt_thread_detach and rt_thread_resume run with        *)
(* interrupts enabled and disable them for parts of their work; a step is  *)
(* what they do between two points at which an interrupt may come.         *)
(***************************************************************************)
EXTENDS Threads

CONSTANTS None,
          Static,       \* threads made by rt_thread_init; rt_thread_create makes the rest
          Cleanup,      \* threads that have a cleanup function
          DeleteAsleep  \* whether threads are deleted while their timer runs

ASSUME ThreadLifeAssumption ==
    /\ None \notin Thread
    /\ BasePrio \in [Thread -> Prio]
    /\ Static \subseteq Thread \ {Idle} /\ Cleanup \subseteq Thread \ {Idle}
    /\ DeleteAsleep \in BOOLEAN

VARIABLES memory,   \* thread -> what there is of it
          defunct,  \* rt_thread_defunct
          about     \* thread -> the thread that its call is about

lifeVars == <<k, memory, defunct, pc, about>>

\* "none": no control block in the container of objects.  "stackless": only the
\* control block is left.
Memory == {"none", "live", "stackless"}

\* "run": in application code, or in the loop of the idle thread.  "unlinked":
\* in rt_thread_resume, the thread is off its list and not inserted yet.
\* "pend": a rt_schedule is to come.  "removed", "untimed", "closed": in
\* rt_thread_delete or rt_thread_detach, after the first, second and third part.
\* "exit": about to call the last rt_schedule of rt_thread_exit.  "reap",
\* "stack", "object": in rt_thread_idle_excute, before it takes a thread, frees
\* its stack and frees its control block.
LifePc == {"run", "unlinked", "pend", "removed", "untimed", "closed", "exit",
           "reap", "stack", "object"}

LifeInit ==
    /\ k = [cur |-> Idle, prio |-> BasePrio,
            stat |-> [t \in Thread |-> IF t = Idle THEN "RUNNING" ELSE "CLOSE"],
            err |-> [t \in Thread |-> "EOK"], rq |-> [p \in Prio |-> << >>],
            grp |-> {}, tmr |-> {}, lock |-> 0]
    /\ memory = [t \in Thread |-> IF t = Idle THEN "live" ELSE "none"]
    /\ defunct = << >>
    /\ pc = [t \in Thread |-> "run"]
    /\ about = [t \in Thread |-> None]

-----------------------------------------------------------------------------
\* The current thread goes on at l in a call about t.
GoOn(l, t) == pc' = [pc EXCEPT ![Me] = l] /\ about' = [about EXCEPT ![Me] = t]

\* No call about t is under way, and t is not inside a call about another
\* thread: what a caller of rt_thread_resume and rt_thread_delete has to know.
Settled(t) == about[t] = None /\ \A u \in Thread : about[u] # t

\* The threads that may be resumed: their timer cannot run out meanwhile.
Resumable ==
    {t \in App \ {Me} : memory[t] = "live" /\ Settled(t) /\ k.stat[t] = "SUSPEND" /\ t \notin k.tmr}

\* The threads that are off the scheduler's lists for good.
Doomed == {about[u] : u \in {v \in Thread : pc[v] \in {"removed", "untimed", "closed"}}}

-----------------------------------------------------------------------------
(* Birth *)

\* Application threads make threads, and while there is none the idle thread,
\* which stands for the start-up code.
Maker == Me \in App \/ \A t \in App : memory[t] = "none" \/ k.stat[t] = "INIT"

\* rt_thread_create or rt_thread_init.
Create(t) ==
    /\ At("run") /\ Maker
    /\ t \in App
    /\ memory[t] = "none"
    /\ memory' = [memory EXCEPT ![t] = "live"]
    /\ k' = [k EXCEPT !.stat[t] = "INIT", !.prio[t] = BasePrio[t], !.err[t] = "EOK"]
    /\ pc' = [pc EXCEPT ![t] = "run"]
    /\ about' = [about EXCEPT ![t] = None]
    /\ UNCHANGED defunct

\* rt_thread_startup up to the insertion of rt_thread_resume.
Startup(t) ==
    /\ At("run") /\ Maker
    /\ memory[t] = "live"
    /\ k.stat[t] = "INIT"
    /\ Settled(t)
    /\ k' = ResumeOff([k EXCEPT !.stat[t] = "SUSPEND"], t)
    /\ GoOn("unlinked", t)
    /\ UNCHANGED <<memory, defunct>>

-----------------------------------------------------------------------------
(* Suspension *)

\* rt_thread_suspend of the caller itself; rt_thread_sleep with a timer.
SuspendCaller(time) ==
    /\ Me \in App /\ At("run")
    /\ k' = IF time = "limited" THEN StartTimer(Suspend(k, Me), Me) ELSE Suspend(k, Me)
    /\ GoOn("pend", None)
    /\ UNCHANGED <<memory, defunct>>

\* rt_thread_resume up to the insertion.
ResumeThread(t) ==
    /\ Me \in App /\ At("run")
    /\ t \in Resumable
    /\ k' = ResumeOff(k, t)
    /\ GoOn("unlinked", t)
    /\ UNCHANGED <<memory, defunct>>

\* The insertion; the rt_schedule of rt_thread_startup, or of the caller of
\* rt_thread_resume, follows.
ResumeInsertion ==
    /\ At("unlinked")
    /\ k' = InsertThread(k, about[Me])
    /\ GoOn("pend", None)
    /\ UNCHANGED <<memory, defunct>>

CallSchedule ==
    /\ At("pend")
    /\ k' = Schedule(k)
    /\ GoOn("run", None)
    /\ UNCHANGED <<memory, defunct>>

-----------------------------------------------------------------------------
(* Death *)

\* The end of rt_thread_exit and rt_thread_detach: a static thread without a
\* cleanup function is taken out of the container, any other waits for the idle
\* thread.
Bury(t) ==
    IF t \in Static \ Cleanup
    THEN memory' = [memory EXCEPT ![t] = "none"] /\ UNCHANGED defunct
    ELSE defunct' = <<t>> \o defunct /\ UNCHANGED memory

\* rt_thread_exit, which every entry function returns to.
Exit ==
    /\ Me \in App /\ At("run")
    /\ k' = ExitThread(k)
    /\ Bury(Me)
    /\ GoOn("exit", None)

\* Its rt_schedule, from which the thread does not come back.
LastSchedule ==
    /\ At("exit")
    /\ k' = Schedule(k)
    /\ UNCHANGED <<memory, defunct, pc, about>>

\* The threads that another one may delete.
Deletable ==
    {t \in App \ {Me} : /\ memory[t] = "live" /\ Settled(t) /\ k.stat[t] # "CLOSE"
                        /\ t \in k.tmr => DeleteAsleep}

\* Mutant: the thread stays on its ready list.
MutDeleteRemove(t) ==
    /\ Me \in App /\ At("run")
    /\ t \in Deletable
    /\ GoOn("removed", t)
    /\ UNCHANGED <<k, memory, defunct>>

\* rt_thread_delete or rt_thread_detach of another thread.  First it leaves the
\* ready list ...
DeleteRemove(t) ==
    /\ Me \in App /\ At("run")
    /\ t \in Deletable
    /\ k' = IF k.stat[t] = "INIT" THEN k ELSE RemoveThread(k, t)
    /\ GoOn("removed", t)
    /\ UNCHANGED <<memory, defunct>>

\* ... then its timer is detached ...
DeleteTimer ==
    /\ At("removed")
    /\ k' = [k EXCEPT !.tmr = @ \ {about[Me]}]
    /\ GoOn("untimed", about[Me])
    /\ UNCHANGED <<memory, defunct>>

\* Mutant: the state is not changed.
MutDeleteClose ==
    /\ At("untimed")
    /\ GoOn("closed", about[Me])
    /\ UNCHANGED <<k, memory, defunct>>

\* ... it is closed ...
DeleteClose ==
    /\ At("untimed")
    /\ k' = [k EXCEPT !.stat[about[Me]] = "CLOSE"]
    /\ GoOn("closed", about[Me])
    /\ UNCHANGED <<memory, defunct>>

\* Mutant: the thread is not put on the list of the dead.
MutDeleteBury ==
    /\ At("closed")
    /\ GoOn("run", None)
    /\ UNCHANGED <<k, memory, defunct>>

\* ... and it is buried.
DeleteBury ==
    /\ At("closed")
    /\ Bury(about[Me])
    /\ GoOn("run", None)
    /\ UNCHANGED k

-----------------------------------------------------------------------------
(* The idle thread *)

\* Mutant: a list of one looks empty.
MutIdleLook ==
    /\ Me = Idle /\ At("run")
    /\ Len(defunct) > 1
    /\ GoOn("reap", None)
    /\ UNCHANGED <<k, memory, defunct>>

\* rt_thread_idle_excute finds a dead thread, with interrupts enabled.
IdleLook ==
    /\ Me = Idle /\ At("run")
    /\ defunct # << >>
    /\ GoOn("reap", None)
    /\ UNCHANGED <<k, memory, defunct>>

\* A cleanup function wakes the thread j that waits for the end of another, if
\* any; it runs with the scheduler locked.
CleanedUp(m, t, j) ==
    IF t \in Cleanup /\ j # None THEN Resume(m, j) ELSE m

\* With interrupts disabled it takes the thread off the list and calls its
\* cleanup function.  The rt_schedule of rt_exit_critical takes effect when
\* interrupts are enabled again.
IdleTake ==
    /\ At("reap")
    /\ LET t == Head(defunct)
       IN  /\ defunct' = Tail(defunct)
           /\ \E j \in Resumable \cup {None} :
                 k' = Schedule(ExitCritical(CleanedUp(EnterCritical(k), t, j)))
           /\ IF t \in Static
              THEN /\ memory' = [memory EXCEPT ![t] = "none"]
                   /\ GoOn("run", None)
              ELSE /\ GoOn("stack", t)
                   /\ UNCHANGED memory

FreeStack ==
    /\ At("stack")
    /\ memory' = [memory EXCEPT ![about[Me]] = "stackless"]
    /\ GoOn("object", about[Me])
    /\ UNCHANGED <<k, defunct>>

FreeObject ==
    /\ At("object")
    /\ memory' = [memory EXCEPT ![about[Me]] = "none"]
    /\ GoOn("run", None)
    /\ UNCHANGED <<k, defunct>>

-----------------------------------------------------------------------------
(* Interrupts *)

\* The end of a time slice.
TickYield ==
    /\ k' = Schedule(k)
    /\ UNCHANGED <<memory, defunct, pc, about>>

\* rt_thread_timeout of t.
TickTimeout(t) ==
    /\ t \in k.tmr
    /\ k' = Timeout(k, t)
    /\ UNCHANGED <<memory, defunct, pc, about>>

\* A handler calls rt_thread_resume and rt_schedule.
IsrResume(t) ==
    /\ t \in Resumable
    /\ k' = Schedule(Resume(k, t))
    /\ UNCHANGED <<memory, defunct, pc, about>>

-----------------------------------------------------------------------------
IdleStep == IdleLook \/ IdleTake \/ FreeStack \/ FreeObject

LifeNext ==
    \/ \E t \in Thread : \/ Create(t) \/ Startup(t) \/ ResumeThread(t) \/ DeleteRemove(t)
                         \/ TickTimeout(t) \/ IsrResume(t)
    \/ \E time \in Wait : SuspendCaller(time)
    \/ ResumeInsertion \/ CallSchedule \/ Exit \/ LastSchedule
    \/ DeleteTimer \/ DeleteClose \/ DeleteBury
    \/ IdleStep \/ TickYield

LifeSpec == LifeInit /\ [][LifeNext]_lifeVars

\* The idle thread goes on when it is current again and again.
FairLifeSpec == LifeSpec /\ SF_lifeVars(Me = Idle /\ (IdleStep \/ ResumeInsertion \/ CallSchedule))

-----------------------------------------------------------------------------
(* Properties *)

LifeTypeOK ==
    /\ k \in KernelState
    /\ memory \in [Thread -> Memory]
    /\ defunct \in Seq(App)
    /\ pc \in [Thread -> LifePc]
    /\ about \in [Thread -> Thread \cup {None}]

\* A thread is on the ready list of its priority exactly while it is READY and
\* not being deleted: neither a deletion nor a resumption that an interrupt cuts
\* in two leaves it on two lists, or the bitmap with a bit too many.
ReadyOrDoomed ==
    /\ \A p \in Prio, t \in Thread :
          t \in ToSet(k.rq[p]) <=> k.stat[t] = "READY" /\ k.prio[t] = p /\ t \notin Doomed
    /\ ReadyDistinct(k) /\ GroupExact(k) /\ OneRunning(k)

\* A woken thread of higher priority waits only for a rt_schedule that is due.
PreemptionPending ==
    \/ \A t \in Thread \ Doomed : k.stat[t] = "READY" => k.prio[k.cur] <= k.prio[t]
    \/ At("pend") \/ At("exit")

LifeConsistent == LifeTypeOK /\ ReadyOrDoomed /\ PreemptionPending

\* A closed thread that still has its memory is on the list of the dead, once,
\* or in one hand: its deleter's or the idle thread's.  None is forgotten.
DeadAccounted ==
    /\ Distinct(defunct)
    /\ \A t \in App :
          LET hands == {u \in Thread : about[u] = t /\ pc[u] \in {"closed", "stack", "object"}}
          IN  /\ memory[t] # "none" /\ k.stat[t] = "CLOSE" =>
                    Cardinality(hands) + (IF t \in ToSet(defunct) THEN 1 ELSE 0) = 1
              /\ t \in ToSet(defunct) => k.stat[t] = "CLOSE" /\ memory[t] = "live"

\* A thread that is deleted is off the scheduler's lists, as the comment of
\* rt_thread_delete says: it will not be READY on the list of the dead.
ClosedOffQueues ==
    \A t \in Thread, p \in Prio : k.stat[t] = "CLOSE" => t \notin ToSet(k.rq[p])

Phase(t) ==
    IF memory[t] # "live" THEN "none"
    ELSE IF k.stat[t] = "CLOSE" \/ t \in Doomed THEN "dead"
    ELSE IF k.stat[t] = "INIT" THEN "born"
    ELSE "alive"

Promise == INSTANCE Lifecycle WITH phase <- [t \in Thread |-> Phase(t)], running <- k.cur

\* The code implements the life cycle: a dead thread is never switched to, its
\* stack is freed once and never under its feet, and its control block is not
\* used again before that.
ImplementsLifecycle == Promise!LifecycleSpec

\* Given that the idle thread gets the processor, all the dead are given back in
\* the end, although rt_thread_idle_excute looks with interrupts enabled and
\* stops early after a static thread; unless threads go on dying, for the list
\* is served from the end at which the dead are inserted.
DeadReaped ==
    []<>(Me = Idle) =>
        \/ []<><<Len(defunct') > Len(defunct)>>_lifeVars
        \/ <>[](defunct = << >> /\ pc[Idle] \notin {"reap", "stack", "object"})
=============================================================================
