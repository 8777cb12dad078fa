----------------------------- MODULE IpcProofs -----------------------------
(***************************************************************************)
(* What the sections of module Ipc, which every object with wait lists is  *)
(* made of, do to a consistent state of the kernel and the wait lists.     *)
(***************************************************************************)
EXTENDS Ipc, KernelProofs, FiniteSetTheorems

-----------------------------------------------------------------------------
(* The invariant of the objects with wait lists *)

\* The kernel is consistent, nobody locks the scheduler or suspends the idle
\* thread, and only between its suspension and its rt_schedule does a thread
\* that waits run.
Scheduled ==
    /\ k \in KernelState /\ KernelOK(k)
    /\ k.lock = 0 /\ k.stat[Idle] \in {"READY", "RUNNING"}
    /\ k.stat[Me] = "RUNNING" \/ pc[Me] = "blocked"

\* Who waits on a list is inside the call the list is named for, and has no
\* error number yet.
ParkedInCall ==
    \A l \in WaitList : \A t \in ToSet(wl[l]) :
        pc[t] \in {"blocked", "wait"} /\ k.err[t] = "EOK" /\ call[t].op = l

\* The idle thread never waits.
IdleApart == pc[Idle] \notin {"blocked", "wait"}

IpcInv ==
    /\ Scheduled /\ PreemptionPending /\ IdleApart
    /\ wl \in [WaitList -> Seq(App)] /\ WaitersParked /\ ParkedInCall

\* The threads that were woken to try operation o again.
OnTheirWay(o) == {t \in Woken : call[t].op = o}

-----------------------------------------------------------------------------
(* Facts the sections share *)

LEMMA IpcTypes ==
    ASSUME IpcInv
    PROVE  /\ k \in KernelState /\ KernelOK(k) /\ k.lock = 0 /\ Me \in Thread
           /\ k.stat \in [Thread -> Stat] /\ k.err \in [Thread -> Err]
           /\ k.tmr \in SUBSET Thread
           /\ k.stat[Idle] \in {"READY", "RUNNING"} /\ Idle \in Thread
           /\ wl \in [WaitList -> Seq(App)]
           /\ \A l \in WaitList : wl[l] \in Seq(App) /\ ToSet(wl[l]) \subseteq App
           /\ \A l \in WaitList : Distinct(wl[l])
           /\ App \subseteq Thread /\ Idle \notin App
  <1>1. /\ k \in KernelState /\ KernelOK(k) /\ k.lock = 0 /\ Me \in Thread
        /\ k.stat \in [Thread -> Stat] /\ k.err \in [Thread -> Err]
        /\ k.tmr \in SUBSET Thread
        /\ k.stat[Idle] \in {"READY", "RUNNING"} /\ Idle \in Thread
    BY KernelAssumption DEF IpcInv, Scheduled, KernelState, Me
  <1>2. wl \in [WaitList -> Seq(App)] /\ \A l \in WaitList : Distinct(wl[l])
    BY DEF IpcInv, WaitersParked
  <1>3. \A l \in WaitList : wl[l] \in Seq(App) /\ ToSet(wl[l]) \subseteq App
    <2> SUFFICES ASSUME NEW l \in WaitList
                 PROVE  wl[l] \in Seq(App) /\ ToSet(wl[l]) \subseteq App
      OBVIOUS
    <2>1. wl[l] \in Seq(App)
      BY <1>2
    <2>2. \A i \in DOMAIN wl[l] : wl[l][i] \in App
      BY <2>1, LenProperties, ElementOfSeq
    <2> QED  BY <2>1, <2>2 DEF ToSet
  <1> QED  BY <1>1, <1>2, <1>3 DEF App

\* A thread that was woken is not waiting, has run or will run with RT_EOK.
LEMMA WayMember ==
    ASSUME NEW o, NEW t
    PROVE  t \in OnTheirWay(o) <=>
               /\ t \in Thread /\ pc[t] \in {"blocked", "wait"} /\ ~ Waiting(t)
               /\ k.err[t] = "EOK" /\ call[t].op = o
  BY DEF OnTheirWay, Woken

\* The rt_schedule that ends a section, from any consistent kernel state.
LEMMA AfterSchedule ==
    ASSUME NEW m \in KernelState, KernelOK(m), m.lock = 0,
           m.stat[Idle] \in {"READY", "RUNNING"},
           k' = Schedule(m)
    PROVE  /\ Scheduled' /\ PreemptionPending'
           /\ k'.err = m.err /\ k'.tmr = m.tmr
           /\ \A t \in Thread : k'.stat[t] = "SUSPEND" <=> m.stat[t] = "SUSPEND"
  BY ScheduleWithIdle DEF Scheduled, PreemptionPending, Me

\* A section after which everyone waits who waited before.
LEMMA SameWaiters ==
    ASSUME IpcInv, wl' = wl, k'.tmr = k.tmr,
           \A t \in Thread : k'.stat[t] = "SUSPEND" <=> k.stat[t] = "SUSPEND",
           \A t \in Thread : Waiting(t) => /\ pc'[t] \in {"blocked", "wait"}
                                           /\ call'[t] = call[t] /\ k'.err[t] = k.err[t]
    PROVE  WaitersParked' /\ ParkedInCall' /\ \A t : Waiting(t)' <=> Waiting(t)
  <1> USE IpcTypes
  <1>1. \A t : Waiting(t)' <=> Waiting(t)
    BY DEF Waiting
  <1>2. WaitersParked'
    BY <1>1 DEF IpcInv, WaitersParked
  <1>3. ParkedInCall'
    BY DEF IpcInv, ParkedInCall, Waiting
  <1> QED  BY <1>1, <1>2, <1>3

\* A section that leaves the wait lists, the kernel and the threads alone.
LEMMA SameIpc ==
    ASSUME IpcInv, UNCHANGED ipcVars
    PROVE  IpcInv' /\ \A o : OnTheirWay(o)' = OnTheirWay(o)
  BY DEF ipcVars, IpcInv, Scheduled, Me, PreemptionPending, IdleApart, WaitersParked,
         ParkedInCall, Waiting, OnTheirWay, Woken

\* A section after which thread h waits no more.
LEMMA WaiterLeaves ==
    ASSUME IpcInv, NEW h \in Thread,
           wl' \in [WaitList -> Seq(App)],
           \A l \in WaitList : Distinct(wl'[l]) /\ ToSet(wl'[l]) = ToSet(wl[l]) \ {h},
           k'.tmr = k.tmr \ {h},
           \A t \in Thread : k'.stat[t] = "SUSPEND" <=> k.stat[t] = "SUSPEND" /\ t # h,
           \A t \in Thread \ {h} : Waiting(t) =>
               /\ pc'[t] \in {"blocked", "wait"}
               /\ call'[t] = call[t] /\ k'.err[t] = k.err[t]
    PROVE  WaitersParked' /\ ParkedInCall' /\ \A t : Waiting(t)' <=> Waiting(t) /\ t # h
  <1> USE IpcTypes
  <1>1. \A t : Waiting(t)' <=> Waiting(t) /\ t # h
    BY DEF Waiting
  <1>2. WaitersParked'
    BY <1>1 DEF IpcInv, WaitersParked
  <1>3. ParkedInCall'
    BY DEF IpcInv, ParkedInCall, Waiting
  <1> QED  BY <1>1, <1>2, <1>3

-----------------------------------------------------------------------------
(* Sections that wake nobody *)

\* The current thread goes on in application code or in a call that does not
\* wait; an error number of its own may change.
LEMMA QuietSection ==
    ASSUME IpcInv, pc[Me] \notin {"pend", "blocked"}, UNCHANGED wl,
           NEW e \in Err, k' = [k EXCEPT !.err[Me] = e],
           pc'[Me] \notin {"blocked", "wait"},
           pc[Me] = "reset" => pc'[Me] \in {"reset", "pend"},
           \A t \in Thread \ {Me} : pc'[t] = pc[t] /\ call'[t] = call[t]
    PROVE  /\ IpcInv' /\ Me' = Me
           /\ \A o : OnTheirWay(o)' = OnTheirWay(o) \ {Me}
  <1> USE IpcTypes
  <1>1. /\ k' \in KernelState /\ k'.cur = k.cur /\ k'.prio = k.prio /\ k'.stat = k.stat
        /\ k'.rq = k.rq /\ k'.grp = k.grp /\ k'.tmr = k.tmr /\ k'.lock = k.lock
        /\ k'.err = [k.err EXCEPT ![Me] = e]
    BY DEF KernelState
  <1>2. k.stat[Me] = "RUNNING" /\ ~ Waiting(Me)
    BY DEF IpcInv, Scheduled, WaitersParked
  <1>3. Me' = Me
    BY <1>1 DEF Me
  <1>4. KernelOK(k')
    BY <1>1 DEF KernelOK, ReadyListed, ReadyDistinct, GroupExact, OneRunning
  <1>5. Scheduled'
    BY <1>1, <1>2, <1>3, <1>4 DEF Scheduled
  <1>6. PreemptionPending'
    BY <1>1, <1>3 DEF IpcInv, PreemptionPending, TopRuns
  <1>7. \A t \in Thread : Waiting(t) => t # Me /\ k'.err[t] = k.err[t]
    BY <1>1, <1>2
  <1>8. WaitersParked' /\ ParkedInCall' /\ \A t : Waiting(t)' <=> Waiting(t)
    <2>1. \A t \in Thread : Waiting(t) => /\ pc'[t] \in {"blocked", "wait"}
                                          /\ call'[t] = call[t] /\ k'.err[t] = k.err[t]
      <3> SUFFICES ASSUME NEW t \in Thread, Waiting(t) PROVE pc[t] \in {"blocked", "wait"}
        BY <1>7
      <3> QED  BY DEF IpcInv, ParkedInCall, Waiting
    <2> QED  BY <1>1, <2>1, SameWaiters
  <1>9. \A o : OnTheirWay(o)' = OnTheirWay(o) \ {Me}
    BY <1>1, <1>8 DEF OnTheirWay, Woken
  <1>10. IdleApart'
    BY DEF IpcInv, IdleApart
  <1> QED  BY <1>3, <1>5, <1>6, <1>8, <1>9, <1>10 DEF IpcInv

\* A thread that waits is inside its call.
LEMMA WaitingPlace ==
    ASSUME IpcInv, NEW t \in Thread, Waiting(t)
    PROVE  pc[t] \in {"blocked", "wait"} /\ k.err[t] = "EOK" /\ k.stat[t] = "SUSPEND"
  BY DEF IpcInv, ParkedInCall, WaitersParked, Waiting

\* The rt_schedule of a thread, and rt_thread_yield.
LEMMA ScheduleSection ==
    ASSUME IpcInv, k' = Schedule(k), UNCHANGED <<wl, call>>,
           \A t \in Thread : pc'[t] \in {"blocked", "wait"} <=> pc[t] \in {"blocked", "wait"}
    PROVE  IpcInv' /\ \A o : OnTheirWay(o)' = OnTheirWay(o)
  <1> USE IpcTypes
  <1>1. /\ Scheduled' /\ PreemptionPending' /\ k'.err = k.err /\ k'.tmr = k.tmr
        /\ \A t \in Thread : k'.stat[t] = "SUSPEND" <=> k.stat[t] = "SUSPEND"
    BY AfterSchedule
  <1>2. WaitersParked' /\ ParkedInCall' /\ \A t : Waiting(t)' <=> Waiting(t)
    BY <1>1, SameWaiters, WaitingPlace
  <1>3. \A o : OnTheirWay(o)' = OnTheirWay(o)
    BY <1>1, <1>2 DEF OnTheirWay, Woken
  <1>4. IdleApart'
    BY DEF IpcInv, IdleApart
  <1>5. wl' \in [WaitList -> Seq(App)]
    OBVIOUS
  <1> QED  BY <1>1, <1>2, <1>3, <1>4, <1>5 DEF IpcInv

\* rt_thread_startup.
LEMMA StartupSection ==
    ASSUME IpcInv, NEW t \in Thread, Startup(t)
    PROVE  IpcInv' /\ \A o : OnTheirWay(o)' = OnTheirWay(o)
  <1> USE IpcTypes
  <1> DEFINE i == [k EXCEPT !.stat[t] = "SUSPEND"]
             m == Resume(i, t)
  <1>1. k.stat[t] = "INIT" /\ k' = Schedule(m) /\ UNCHANGED <<wl, pc, call>>
        /\ pc[Me] = "run"
    BY DEF Startup, At
  <1>2. /\ i \in KernelState /\ i.cur = k.cur /\ i.prio = k.prio /\ i.rq = k.rq
        /\ i.grp = k.grp /\ i.err = k.err /\ i.tmr = k.tmr /\ i.lock = k.lock
        /\ i.stat = [k.stat EXCEPT ![t] = "SUSPEND"]
    BY DEF KernelState, Stat
  <1> HIDE DEF i
  <1>3. KernelOK(i)
    BY <1>1, <1>2 DEF KernelOK, ReadyListed, ReadyDistinct, GroupExact, OneRunning
  <1>4. t # Idle /\ t \notin k.tmr /\ t # k.cur
    BY <1>1 DEF IpcInv, WaitersParked, Scheduled, Me
  <1>5. /\ m \in KernelState /\ KernelOK(m)
        /\ m.cur = k.cur /\ m.prio = k.prio /\ m.lock = 0 /\ m.err = k.err /\ m.tmr = k.tmr
        /\ m.stat = [k.stat EXCEPT ![t] = "READY"]
    <2>1. i.stat[t] = "SUSPEND"
      BY <1>2
    <2> HIDE DEF m
    <2>2. /\ m \in KernelState /\ KernelOK(m)
          /\ m.cur = i.cur /\ m.prio = i.prio /\ m.lock = i.lock
          /\ m.stat = [i.stat EXCEPT ![t] = IF t = i.cur THEN "RUNNING" ELSE "READY"]
          /\ m.err = i.err
          /\ m.tmr = i.tmr \ {t}
      BY <1>2, <1>3, <2>1, ResumeEffect DEF m
    <2> QED  BY <1>2, <1>4, <2>2
  <1> HIDE DEF m
  <1>6. m.stat[Idle] \in {"READY", "RUNNING"}
    BY <1>4, <1>5
  <1>7. /\ Scheduled' /\ PreemptionPending' /\ k'.err = m.err /\ k'.tmr = m.tmr
        /\ \A u \in Thread : k'.stat[u] = "SUSPEND" <=> m.stat[u] = "SUSPEND"
    BY <1>1, <1>5, <1>6, AfterSchedule
  <1>8. \A u \in Thread : k'.stat[u] = "SUSPEND" <=> k.stat[u] = "SUSPEND"
    BY <1>1, <1>5, <1>7
  <1>9. WaitersParked' /\ ParkedInCall' /\ \A u : Waiting(u)' <=> Waiting(u)
    BY <1>1, <1>5, <1>7, <1>8, SameWaiters, WaitingPlace
  <1>10. \A o : OnTheirWay(o)' = OnTheirWay(o)
    BY <1>1, <1>5, <1>7, <1>9 DEF OnTheirWay, Woken
  <1>11. IdleApart' /\ wl' \in [WaitList -> Seq(App)]
    BY <1>1 DEF IpcInv, IdleApart
  <1> QED  BY <1>7, <1>9, <1>10, <1>11 DEF IpcInv

\* Who tests the object in a call is an application thread that does not wait.
LEMMA TesterAwake ==
    ASSUME IpcInv, NEW c, Testing(c)
    PROVE  /\ Me \in App /\ k.stat[Me] = "RUNNING"
           /\ pc[Me] \notin {"pend", "blocked", "reset"}
           /\ ~ Waiting(Me) /\ \A j \in WaitList : Me \notin ToSet(wl[j])
  <1> USE IpcTypes
  <1>1. pc[Me] \in {"run", "wait"} /\ k.stat[Me] = "RUNNING"
    BY DEF Testing, Calling, Retrying, At, IpcInv, Scheduled
  <1>2. Me \in App
    <2>1. CASE Calling
      BY <2>1 DEF Calling
    <2>2. CASE ~ Calling
      <3>1. At("wait")
        BY <2>2 DEF Testing, Retrying
      <3> QED  BY <3>1 DEF IpcInv, IdleApart, At, App
    <2> QED  BY <2>1, <2>2
  <1>3. ~ Waiting(Me) /\ \A j \in WaitList : Me \notin ToSet(wl[j])
    BY <1>1 DEF IpcInv, WaitersParked, Waiting
  <1> QED  BY <1>1, <1>2, <1>3

\* The current thread suspends itself on list l, which becomes q.
LEMMA BlockOnSection ==
    ASSUME IpcInv, NEW l \in WaitList, NEW c, c.op = l, NEW time \in Wait,
           pc[Me] \notin {"blocked", "wait"} \/ Testing(c), Me \in App,
           NEW C, call \in [Thread -> C], NEW P, pc \in [Thread -> P], NEW q \in Seq(App),
           ToSet(q) = ToSet(wl[l]) \cup {Me}, Me \notin ToSet(wl[l]) => Distinct(q),
           Block(l, q, c, time)
    PROVE  /\ IpcInv' /\ Me' = Me
           /\ \A o : OnTheirWay(o)' = OnTheirWay(o) \ {Me}
           /\ \A j \in WaitList \ {l} : wl'[j] = wl[j]
  <1> USE IpcTypes
  <1>1. /\ k' = SuspendOn(k, Me, time) /\ wl' = [wl EXCEPT ![l] = q]
        /\ call' = [call EXCEPT ![Me] = c] /\ pc' = [pc EXCEPT ![Me] = "blocked"]
    BY DEF Block, Goto
  <1>2. pc[Me] # "blocked" /\ k.stat[Me] = "RUNNING"
    BY DEF Testing, Calling, Retrying, At, IpcInv, Scheduled
  <1>3. Me \in App
    OBVIOUS
  <1>4. ~ Waiting(Me) /\ \A j \in WaitList : Me \notin ToSet(wl[j])
    BY <1>2 DEF IpcInv, WaitersParked, Waiting
  <1>5. /\ q \in Seq(App) /\ ToSet(q) = ToSet(wl[l]) \cup {Me} /\ Distinct(q)
    BY <1>4
  <1>6. /\ k' \in KernelState /\ KernelOK(k')
        /\ k'.cur = k.cur /\ k'.prio = k.prio /\ k'.lock = k.lock
        /\ k'.stat = [k.stat EXCEPT ![Me] = "SUSPEND"]
        /\ k'.err = [k.err EXCEPT ![Me] = "EOK"]
        /\ k'.tmr = IF time = "limited" THEN k.tmr \cup {Me} ELSE k.tmr \ {Me}
    <2>1. k.stat[Me] \in {"READY", "RUNNING"}
      BY <1>2
    <2> DEFINE n == SuspendOn(k, Me, time)
    <2>2. /\ n \in KernelState /\ KernelOK(n)
          /\ n.cur = k.cur /\ n.prio = k.prio /\ n.lock = k.lock
          /\ n.stat = [k.stat EXCEPT ![Me] = "SUSPEND"]
      BY <2>1, SuspendOnEffect
    <2>3. n.err = [k.err EXCEPT ![Me] = "EOK"]
      BY <2>1, SuspendOnError
    <2>4. n.tmr = IF time = "limited" THEN k.tmr \cup {Me} ELSE k.tmr \ {Me}
      BY <2>1, SuspendOnTimer
    <2> HIDE DEF n
    <2>5. k' = n
      BY <1>1 DEF n
    <2> QED  BY <2>2, <2>3, <2>4, <2>5
  <1>7. Me' = Me /\ Me # Idle
    BY <1>3, <1>6 DEF Me, App
  <1>8. Scheduled'
    BY <1>1, <1>6, <1>7 DEF Scheduled
  <1>9. PreemptionPending' /\ IdleApart'
    BY <1>1, <1>7 DEF PreemptionPending, IpcInv, IdleApart
  <1>10. /\ wl' \in [WaitList -> Seq(App)]
         /\ wl'[l] = q /\ \A j \in WaitList \ {l} : wl'[j] = wl[j]
    BY <1>1, <1>5
  <1>11. \A t : Waiting(t)' <=> Waiting(t) \/ t = Me
    BY <1>5, <1>10 DEF Waiting
  <1>12. WaitersParked'
    <2>0. \A j \in WaitList : Distinct(wl'[j])
      BY <1>5, <1>10
    <2>1. \A i, j \in WaitList : i # j => ToSet(wl'[i]) \cap ToSet(wl'[j]) = {}
      <3>1. \A i, j \in WaitList : i # j => ToSet(wl[i]) \cap ToSet(wl[j]) = {}
        BY DEF IpcInv, WaitersParked
      <3>2. \A i \in WaitList \ {l} : ToSet(wl'[i]) = ToSet(wl[i])
        BY <1>10
      <3>3. ToSet(wl'[l]) = ToSet(wl[l]) \cup {Me}
        BY <1>5, <1>10
      <3>4. \A i \in WaitList \ {l} : Me \notin ToSet(wl[i])
        BY ONLY <1>4
      <3>5. \A i \in WaitList \ {l} : ToSet(wl'[l]) \cap ToSet(wl'[i]) = {}
        BY ONLY <3>1, <3>2, <3>3, <3>4, l \in WaitList
      <3>6. \A i, j \in WaitList \ {l} : i # j => ToSet(wl'[i]) \cap ToSet(wl'[j]) = {}
        BY ONLY <3>1, <3>2
      <3> QED  BY ONLY <3>5, <3>6
    <2>2. \A t \in Thread : Waiting(t)' <=> k'.stat[t] = "SUSPEND"
      BY <1>6, <1>11 DEF IpcInv, WaitersParked
    <2>3. \A t \in k'.tmr : Waiting(t)'
      BY <1>6, <1>11 DEF IpcInv, WaitersParked
    <2> QED  BY <2>0, <2>1, <2>2, <2>3 DEF WaitersParked
  <1>13. /\ pc'[Me] = "blocked" /\ call'[Me] = c /\ k'.err[Me] = "EOK"
         /\ \A t \in Thread \ {Me} : /\ pc'[t] = pc[t] /\ call'[t] = call[t]
                                     /\ k'.err[t] = k.err[t]
    BY <1>1, <1>6
  <1>14. ParkedInCall'
    <2> SUFFICES ASSUME NEW j \in WaitList, NEW t \in ToSet(wl'[j])
                 PROVE  /\ pc'[t] \in {"blocked", "wait"} /\ k'.err[t] = "EOK"
                        /\ call'[t].op = j
      BY DEF ParkedInCall
    <2>1. CASE t \in ToSet(wl[j])
      <3>1. t \in Thread \ {Me}
        BY <1>4, <2>1
      <3> QED  BY <1>13, <2>1, <3>1 DEF IpcInv, ParkedInCall
    <2>2. CASE t \notin ToSet(wl[j])
      <3>1. t = Me /\ j = l
        BY <1>5, <1>10, <2>2
      <3> QED  BY <1>13, <3>1
    <2> QED  BY <2>1, <2>2
  <1>15. \A o : OnTheirWay(o)' = OnTheirWay(o) \ {Me}
    BY <1>11, <1>13 DEF OnTheirWay, Woken
  <1> QED  BY <1>7, <1>8, <1>9, <1>10, <1>12, <1>14, <1>15 DEF IpcInv

\* The same with the queue that rt_ipc_list_suspend makes.
LEMMA BlockSection ==
    ASSUME IpcInv, NEW l \in WaitList, NEW c, c.op = l, NEW time \in Wait,
           Testing(c), NEW C, call \in [Thread -> C], NEW P, pc \in [Thread -> P],
           Block(l, EnqueueWaiter(k, wl[l], Me, Flag), c, time)
    PROVE  /\ IpcInv' /\ Me' = Me
           /\ \A o : OnTheirWay(o)' = OnTheirWay(o) \ {Me}
           /\ \A j \in WaitList \ {l} : wl'[j] = wl[j]
  <1> DEFINE q == EnqueueWaiter(k, wl[l], Me, Flag)
  <1>1. /\ wl[l] \in Seq(App) /\ Distinct(wl[l]) /\ Me \notin ToSet(wl[l])
        /\ Me \in App /\ Me \in Thread
    BY IpcTypes, TesterAwake
  <1>2. q \in Seq(App) /\ ToSet(q) = ToSet(wl[l]) \cup {Me} /\ Distinct(q)
    BY <1>1, IpcTypes, EnqueueWaiterType, EnqueueWaiterSet, EnqueueWaiterDistinct
  <1> HIDE DEF q
  <1> QED  BY <1>1, <1>2, BlockOnSection DEF q

-----------------------------------------------------------------------------
(* Sections that end a wait *)

\* The first waiter of a list, and what taking it off leaves.
LEMMA FirstWaiter ==
    ASSUME IpcInv, NEW l \in WaitList, wl[l] # << >>
    PROVE  LET h == Head(wl[l])
           IN  /\ h \in App /\ h \in Thread /\ h # Idle /\ h \in ToSet(wl[l]) /\ Waiting(h)
               /\ k.stat[h] = "SUSPEND" /\ k.err[h] = "EOK" /\ call[h].op = l
               /\ pc[h] \in {"blocked", "wait"}
               /\ Popped(l) \in [WaitList -> Seq(App)]
               /\ \A j \in WaitList : /\ Distinct(Popped(l)[j])
                                      /\ ToSet(Popped(l)[j]) = ToSet(wl[j]) \ {h}
                                      /\ wl[j] = << >> => Popped(l)[j] = << >>
               /\ \A j \in WaitList \ {l} : Popped(l)[j] = wl[j]
  <1> USE IpcTypes
  <1> DEFINE h == Head(wl[l])
  <1>1. /\ h \in App /\ h \in ToSet(wl[l]) /\ Tail(wl[l]) \in Seq(App)
        /\ ToSet(Tail(wl[l])) = ToSet(wl[l]) \ {h} /\ Distinct(Tail(wl[l]))
    BY HeadTailList
  <1> HIDE DEF h
  <1>2. h \in Thread /\ h # Idle /\ Waiting(h)
    BY <1>1 DEF Waiting, App
  <1>3. /\ k.stat[h] = "SUSPEND" /\ k.err[h] = "EOK" /\ call[h].op = l
        /\ pc[h] \in {"blocked", "wait"}
    BY <1>1, <1>2 DEF IpcInv, WaitersParked, ParkedInCall
  <1>4. Popped(l) = [wl EXCEPT ![l] = Tail(wl[l])]
    BY DEF Popped
  <1>5. /\ Popped(l) \in [WaitList -> Seq(App)] /\ Popped(l)[l] = Tail(wl[l])
        /\ \A j \in WaitList \ {l} : Popped(l)[j] = wl[j]
    BY <1>1, <1>4
  <1>6. \A j \in WaitList \ {l} : h \notin ToSet(wl[j])
    BY <1>1 DEF IpcInv, WaitersParked
  <1>7. \A j \in WaitList : /\ Distinct(Popped(l)[j])
                            /\ ToSet(Popped(l)[j]) = ToSet(wl[j]) \ {h}
                            /\ wl[j] = << >> => Popped(l)[j] = << >>
    <2> SUFFICES ASSUME NEW j \in WaitList
                 PROVE  /\ Distinct(Popped(l)[j])
                        /\ ToSet(Popped(l)[j]) = ToSet(wl[j]) \ {h}
                        /\ wl[j] = << >> => Popped(l)[j] = << >>
      OBVIOUS
    <2>1. CASE j = l
      BY <1>1, <1>5, <2>1
    <2>2. CASE j # l
      BY <1>5, <1>6, <2>2
    <2> QED  BY <2>1, <2>2
  <1> QED  BY <1>1, <1>2, <1>3, <1>5, <1>7 DEF h

\* rt_ipc_list_resume of a list somebody waits on.
LEMMA ResumeKernel ==
    ASSUME IpcInv, NEW l \in WaitList, wl[l] # << >>
    PROVE  LET h == Head(wl[l])
               m == ResumeFirst(l)
           IN  /\ m \in KernelState /\ KernelOK(m)
               /\ m.cur = k.cur /\ m.prio = k.prio /\ m.lock = 0
               /\ m.stat = [k.stat EXCEPT ![h] = IF h = k.cur THEN "RUNNING" ELSE "READY"]
               /\ m.err = k.err /\ m.tmr = k.tmr \ {h}
               /\ m.stat[Idle] \in {"READY", "RUNNING"}
               /\ \A t \in Thread : m.stat[t] = "SUSPEND" <=> k.stat[t] = "SUSPEND" /\ t # h
  <1> USE IpcTypes
  <1> DEFINE h == Head(wl[l])
             m == Resume(k, h)
  <1>1. h \in Thread /\ h # Idle /\ k.stat[h] = "SUSPEND"
    BY FirstWaiter
  <1>2. m = ResumeFirst(l)
    BY DEF ResumeFirst
  <1> HIDE DEF h
  <1>3. /\ m \in KernelState /\ KernelOK(m)
        /\ m.cur = k.cur /\ m.prio = k.prio /\ m.lock = k.lock
        /\ m.stat = [k.stat EXCEPT ![h] = IF h = k.cur THEN "RUNNING" ELSE "READY"]
        /\ m.err = k.err /\ m.tmr = k.tmr \ {h}
    BY <1>1, ResumeEffect
  <1> HIDE DEF m
  <1>4. /\ m.stat[Idle] \in {"READY", "RUNNING"}
        /\ \A t \in Thread : m.stat[t] = "SUSPEND" <=> k.stat[t] = "SUSPEND" /\ t # h
    BY <1>1, <1>3
  <1> QED  BY <1>2, <1>3, <1>4 DEF h

\* What the end of the wait of h with RT_EOK does to those on their way.
LEMMA WokenJoins ==
    ASSUME IpcInv, NEW h \in Thread, Waiting(h), NEW l, call[h].op = l,
           k'.err = k.err, \A t : Waiting(t)' <=> Waiting(t) /\ t # h,
           NEW R, h \notin R,
           \A t \in Thread \ R : pc'[t] = pc[t] /\ call'[t] = call[t],
           \A t \in R : pc'[t] \notin {"blocked", "wait"}
    PROVE  /\ OnTheirWay(l)' = (OnTheirWay(l) \ R) \cup {h}
           /\ h \notin OnTheirWay(l)
           /\ \A o : o # l => OnTheirWay(o)' = OnTheirWay(o) \ R
  <1>1. k.err[h] = "EOK"
    BY WaitingPlace
  <1>2. \A o : h \notin OnTheirWay(o)
    BY WayMember
  <1>3. \A o, t : t \in OnTheirWay(o)' <=>
               /\ t \in Thread /\ pc'[t] \in {"blocked", "wait"} /\ ~ (Waiting(t) /\ t # h)
               /\ k.err[t] = "EOK" /\ call'[t].op = o
    BY DEF OnTheirWay, Woken
  <1>4. ASSUME NEW o, NEW t, t # h
        PROVE  t \in OnTheirWay(o)' <=> t \in OnTheirWay(o) \ R
    BY <1>3, <1>4, WayMember
  <1>5. ASSUME NEW o PROVE h \in OnTheirWay(o)' <=> o = l
    BY <1>1, <1>3, WaitingPlace
  <1> QED  BY <1>2, <1>4, <1>5

\* An operation of a thread that ends by waking the first waiter of l.
LEMMA ThreadWakesSection ==
    ASSUME IpcInv, NEW l \in WaitList, ThreadWakes(l), Me \in DOMAIN pc,
           pc[Me] \notin {"pend", "blocked", "reset"},
           \A t \in Thread \ {Me} : pc'[t] = pc[t] /\ call'[t] = call[t]
    PROVE  /\ IpcInv' /\ Me' = Me
           /\ \A j \in WaitList \ {l} : wl'[j] = wl[j]
           /\ wl[l] = << >> => /\ wl'[l] = << >>
                               /\ \A o : OnTheirWay(o)' = OnTheirWay(o) \ {Me}
           /\ wl[l] # << >> =>
                 LET h == Head(wl[l])
                 IN  /\ h \in Thread /\ h # Me /\ h \notin OnTheirWay(l)
                     /\ OnTheirWay(l)' = (OnTheirWay(l) \ {Me}) \cup {h}
                     /\ \A o : o # l => OnTheirWay(o)' = OnTheirWay(o) \ {Me}
  <1> USE IpcTypes
  <1>1. /\ k' = ResumeFirst(l) /\ wl' = Popped(l)
        /\ pc'[Me] = IF wl[l] = << >> THEN "run" ELSE "pend"
    BY DEF ThreadWakes, EndCall, Goto
  <1>2. k.stat[Me] = "RUNNING" /\ ~ Waiting(Me)
    BY DEF IpcInv, Scheduled, WaitersParked
  <1>3. CASE wl[l] = << >>
    <2>1. k' = k /\ wl' = wl
      BY <1>1, <1>3 DEF ResumeFirst, Popped
    <2>2. k' = [k EXCEPT !.err[Me] = k.err[Me]] /\ k.err[Me] \in Err
      BY <2>1 DEF KernelState
    <2>3. /\ IpcInv' /\ Me' = Me /\ \A o : OnTheirWay(o)' = OnTheirWay(o) \ {Me}
      BY <1>1, <1>3, <2>1, <2>2, QuietSection
    <2> QED  BY <1>3, <2>1, <2>3
  <1>4. CASE wl[l] # << >>
    <2> DEFINE h == Head(wl[l])
    <2>1. /\ h \in Thread /\ h # Idle /\ Waiting(h) /\ call[h].op = l
          /\ pc[h] \in {"blocked", "wait"}
          /\ wl' \in [WaitList -> Seq(App)]
          /\ \A j \in WaitList : Distinct(wl'[j]) /\ ToSet(wl'[j]) = ToSet(wl[j]) \ {h}
          /\ \A j \in WaitList \ {l} : wl'[j] = wl[j]
      BY <1>1, <1>4, FirstWaiter
    <2>2. /\ k' \in KernelState /\ KernelOK(k')
          /\ k'.cur = k.cur /\ k'.lock = 0
          /\ k'.stat = [k.stat EXCEPT ![h] = IF h = k.cur THEN "RUNNING" ELSE "READY"]
          /\ k'.err = k.err /\ k'.tmr = k.tmr \ {h}
          /\ k'.stat[Idle] \in {"READY", "RUNNING"}
          /\ \A t \in Thread : k'.stat[t] = "SUSPEND" <=> k.stat[t] = "SUSPEND" /\ t # h
      BY <1>1, <1>4, ResumeKernel
    <2> HIDE DEF h
    <2>3. h # Me /\ pc'[Me] = "pend" /\ Me' = Me
      BY <1>1, <1>2, <1>4, <2>1, <2>2 DEF Me
    <2>4. Scheduled' /\ PreemptionPending' /\ IdleApart'
      <3>1. k'.stat[Me] = "RUNNING"
        BY <1>2, <2>2, <2>3
      <3> QED  BY <2>2, <2>3, <3>1 DEF Scheduled, PreemptionPending, IpcInv, IdleApart
    <2>5. WaitersParked' /\ ParkedInCall' /\ \A t : Waiting(t)' <=> Waiting(t) /\ t # h
      <3>1. \A t \in Thread \ {h} : Waiting(t) =>
               /\ pc'[t] \in {"blocked", "wait"}
               /\ call'[t] = call[t] /\ k'.err[t] = k.err[t]
        BY <1>2, <2>2, WaitingPlace
      <3> QED  BY <2>1, <2>2, <3>1, WaiterLeaves
    <2>6. /\ OnTheirWay(l)' = (OnTheirWay(l) \ {Me}) \cup {h}
          /\ h \notin OnTheirWay(l)
          /\ \A o : o # l => OnTheirWay(o)' = OnTheirWay(o) \ {Me}
      <3> DEFINE R == {Me}
      <3>1. /\ h \notin R /\ \A t \in R : pc'[t] \notin {"blocked", "wait"}
            /\ \A t \in Thread \ R : pc'[t] = pc[t] /\ call'[t] = call[t]
        BY <2>3
      <3>2. k'.err = k.err /\ \A t : Waiting(t)' <=> Waiting(t) /\ t # h
        BY <2>2, <2>5
      <3>3. h \in Thread /\ Waiting(h) /\ call[h].op = l
        BY <2>1
      <3> HIDE DEF R
      <3>4. /\ OnTheirWay(l)' = (OnTheirWay(l) \ R) \cup {h}
            /\ h \notin OnTheirWay(l)
            /\ \A o : o # l => OnTheirWay(o)' = OnTheirWay(o) \ R
        BY ONLY IpcInv, <3>1, <3>2, <3>3, WokenJoins
      <3> QED  BY <3>4 DEF R
    <2> QED  BY <1>4, <2>1, <2>3, <2>4, <2>5, <2>6 DEF IpcInv, h
  <1> QED  BY <1>3, <1>4

\* The same in an interrupt handler.
LEMMA IsrWakesSection ==
    ASSUME IpcInv, NEW l \in WaitList, IsrWakes(l)
    PROVE  /\ IpcInv'
           /\ \A j \in WaitList \ {l} : wl'[j] = wl[j]
           /\ wl[l] = << >> => wl'[l] = << >> /\ \A o : OnTheirWay(o)' = OnTheirWay(o)
           /\ wl[l] # << >> =>
                 LET h == Head(wl[l])
                 IN  /\ h \in Thread /\ h \notin OnTheirWay(l)
                     /\ OnTheirWay(l)' = OnTheirWay(l) \cup {h}
                     /\ \A o : o # l => OnTheirWay(o)' = OnTheirWay(o)
  <1> USE IpcTypes
  <1>1. /\ k' = IF wl[l] = << >> THEN k ELSE Schedule(ResumeFirst(l))
        /\ wl' = Popped(l) /\ UNCHANGED <<pc, call>>
    BY DEF IsrWakes
  <1>2. CASE wl[l] = << >>
    <2>1. k' = k /\ wl' = wl
      BY <1>1, <1>2 DEF Popped
    <2>2. IpcInv' /\ \A o : OnTheirWay(o)' = OnTheirWay(o)
      BY <1>1, <2>1, SameIpc DEF ipcVars
    <2> QED  BY <1>2, <2>1, <2>2
  <1>3. CASE wl[l] # << >>
    <2> DEFINE h == Head(wl[l])
    <2>1. /\ h \in Thread /\ h # Idle /\ Waiting(h) /\ call[h].op = l
          /\ pc[h] \in {"blocked", "wait"}
          /\ wl' \in [WaitList -> Seq(App)]
          /\ \A j \in WaitList : Distinct(wl'[j]) /\ ToSet(wl'[j]) = ToSet(wl[j]) \ {h}
          /\ \A j \in WaitList \ {l} : wl'[j] = wl[j]
      BY <1>1, <1>3, FirstWaiter
    <2> DEFINE m == ResumeFirst(l)
    <2>2. /\ m \in KernelState /\ KernelOK(m) /\ m.lock = 0
          /\ m.err = k.err /\ m.tmr = k.tmr \ {h}
          /\ m.stat[Idle] \in {"READY", "RUNNING"}
          /\ \A t \in Thread : m.stat[t] = "SUSPEND" <=> k.stat[t] = "SUSPEND" /\ t # h
      BY <1>3, ResumeKernel
    <2>3. k' = Schedule(m)
      BY <1>1, <1>3
    <2> HIDE DEF h, m
    <2>4. /\ Scheduled' /\ PreemptionPending' /\ k'.err = m.err /\ k'.tmr = m.tmr
          /\ \A t \in Thread : k'.stat[t] = "SUSPEND" <=> m.stat[t] = "SUSPEND"
      BY <2>2, <2>3, AfterSchedule
    <2>5. WaitersParked' /\ ParkedInCall' /\ \A t : Waiting(t)' <=> Waiting(t) /\ t # h
      <3>1. \A t \in Thread \ {h} : Waiting(t) =>
               /\ pc'[t] \in {"blocked", "wait"}
               /\ call'[t] = call[t] /\ k'.err[t] = k.err[t]
        BY <1>1, <2>2, <2>4, WaitingPlace
      <3>2. /\ k'.tmr = k.tmr \ {h}
            /\ \A t \in Thread : k'.stat[t] = "SUSPEND" <=> k.stat[t] = "SUSPEND" /\ t # h
        BY <2>2, <2>4
      <3> QED  BY <2>1, <3>1, <3>2, WaiterLeaves
    <2>6. /\ OnTheirWay(l)' = (OnTheirWay(l) \ {}) \cup {h}
          /\ h \notin OnTheirWay(l)
          /\ \A o : o # l => OnTheirWay(o)' = OnTheirWay(o) \ {}
      <3> DEFINE R == {}
      <3>1. /\ h \notin R /\ \A t \in R : pc'[t] \notin {"blocked", "wait"}
            /\ \A t \in Thread \ R : pc'[t] = pc[t] /\ call'[t] = call[t]
        BY <1>1
      <3>2. k'.err = k.err /\ \A t : Waiting(t)' <=> Waiting(t) /\ t # h
        BY <2>2, <2>4, <2>5
      <3>3. h \in Thread /\ Waiting(h) /\ call[h].op = l
        BY <2>1
      <3> HIDE DEF R
      <3>4. /\ OnTheirWay(l)' = (OnTheirWay(l) \ R) \cup {h}
            /\ h \notin OnTheirWay(l)
            /\ \A o : o # l => OnTheirWay(o)' = OnTheirWay(o) \ R
        BY ONLY IpcInv, <3>1, <3>2, <3>3, WokenJoins
      <3> QED  BY <3>4 DEF R
    <2>7. IdleApart'
      BY <1>1 DEF IpcInv, IdleApart
    <2> QED  BY <1>3, <2>1, <2>4, <2>5, <2>6, <2>7 DEF IpcInv, h
  <1> QED  BY <1>2, <1>3

\* A thread that leaves a wait with an error number is not on its way.
LEMMA FailedLeaves ==
    ASSUME IpcInv, NEW h \in Thread, Waiting(h), UNCHANGED <<pc, call>>,
           k'.err[h] # "EOK", \A t \in Thread \ {h} : k'.err[t] = k.err[t],
           \A t : Waiting(t)' <=> Waiting(t) /\ t # h
    PROVE  \A o : OnTheirWay(o)' = OnTheirWay(o)
  <1>1. \A o : h \notin OnTheirWay(o)
    BY WayMember
  <1>2. \A o, t : t \in OnTheirWay(o)' <=>
               /\ t \in Thread /\ pc[t] \in {"blocked", "wait"} /\ ~ (Waiting(t) /\ t # h)
               /\ k'.err[t] = "EOK" /\ call[t].op = o
    BY DEF OnTheirWay, Woken
  <1>3. \A o, t : t # h => (t \in OnTheirWay(o)' <=> t \in OnTheirWay(o))
    BY <1>2, WayMember
  <1>4. \A o : h \notin OnTheirWay(o)'
    BY <1>2
  <1> QED  BY <1>1, <1>3, <1>4

\* One round of rt_ipc_list_resume_all.
LEMMA ResetResumeSection ==
    ASSUME IpcInv, NEW l \in WaitList, ResetResume(l)
    PROVE  /\ IpcInv' /\ Me' = Me /\ \A o : OnTheirWay(o)' = OnTheirWay(o)
           /\ \A j \in WaitList : wl[j] = << >> => wl'[j] = << >>
  <1> USE IpcTypes
  <1> DEFINE h == Head(wl[l])
             m == ResumeError(k, h)
  <1>1. /\ pc[Me] = "reset" /\ wl[l] # << >> /\ k' = m /\ wl' = Popped(l)
        /\ UNCHANGED <<pc, call>>
    BY DEF ResetResume, At
  <1>2. /\ h \in Thread /\ h # Idle /\ Waiting(h) /\ k.stat[h] = "SUSPEND"
        /\ pc[h] \in {"blocked", "wait"}
        /\ wl' \in [WaitList -> Seq(App)]
        /\ \A j \in WaitList : /\ Distinct(wl'[j]) /\ ToSet(wl'[j]) = ToSet(wl[j]) \ {h}
                               /\ wl[j] = << >> => wl'[j] = << >>
    BY <1>1, FirstWaiter
  <1> HIDE DEF h
  <1>3. /\ m \in KernelState /\ KernelOK(m)
        /\ m.cur = k.cur /\ m.prio = k.prio /\ m.lock = k.lock
        /\ m.stat = [k.stat EXCEPT ![h] = IF h = k.cur THEN "RUNNING" ELSE "READY"]
        /\ m.err = [k.err EXCEPT ![h] = "ERROR"] /\ m.tmr = k.tmr \ {h}
    BY SMTT(40), <1>2, ResumeErrorEffect
  <1>4. h # Me
    BY <1>1, <1>2
  <1> HIDE DEF m
  <1>5. Scheduled' /\ PreemptionPending' /\ IdleApart'
    <2>1. k' \in KernelState /\ KernelOK(k') /\ k'.lock = 0 /\ Me' = Me
      BY <1>1, <1>3 DEF Me
    <2>2. k'.stat[Idle] \in {"READY", "RUNNING"} /\ k'.stat[Me] = k.stat[Me]
      BY <1>1, <1>2, <1>3, <1>4
    <2> QED  BY <1>1, <2>1, <2>2 DEF IpcInv, Scheduled, PreemptionPending, IdleApart
  <1>6. /\ k'.tmr = k.tmr \ {h} /\ k'.err[h] = "ERROR"
        /\ \A t \in Thread : k'.stat[t] = "SUSPEND" <=> k.stat[t] = "SUSPEND" /\ t # h
        /\ \A t \in Thread \ {h} : k'.err[t] = k.err[t]
    BY <1>1, <1>2, <1>3
  <1>7. WaitersParked' /\ ParkedInCall' /\ \A t : Waiting(t)' <=> Waiting(t) /\ t # h
    <2>1. \A t \in Thread \ {h} : Waiting(t) =>
               /\ pc'[t] \in {"blocked", "wait"}
               /\ call'[t] = call[t] /\ k'.err[t] = k.err[t]
      BY <1>1, <1>6, WaitingPlace
    <2> QED  BY <1>2, <1>6, <2>1, WaiterLeaves
  <1>8. \A o : OnTheirWay(o)' = OnTheirWay(o)
    BY <1>1, <1>2, <1>6, <1>7, FailedLeaves
  <1>9. Me' = Me
    BY <1>1, <1>3 DEF Me
  <1> QED  BY <1>2, <1>5, <1>7, <1>8, <1>9 DEF IpcInv

\* rt_thread_timeout.
LEMMA TickTimeoutSection ==
    ASSUME IpcInv, NEW t \in Thread, TickTimeout(t)
    PROVE  /\ IpcInv' /\ \A o : OnTheirWay(o)' = OnTheirWay(o)
           /\ \A j \in WaitList : wl[j] = << >> => wl'[j] = << >>
  <1> USE IpcTypes
  <1> DEFINE m == Wake(k, t, "ETIMEOUT")
  <1>1. /\ t \in k.tmr /\ k' = Schedule(m) /\ UNCHANGED <<pc, call>>
        /\ wl' = [j \in WaitList |-> RemoveFirst(wl[j], t)]
    BY DEF TickTimeout, Timeout
  <1>2. Waiting(t) /\ k.stat[t] = "SUSPEND" /\ t # Idle
    BY <1>1 DEF IpcInv, WaitersParked
  <1>3. /\ m \in KernelState /\ KernelOK(m)
        /\ m.cur = k.cur /\ m.prio = k.prio /\ m.lock = k.lock
        /\ m.stat = [k.stat EXCEPT ![t] = IF t = k.cur THEN "RUNNING" ELSE "READY"]
        /\ m.err = [k.err EXCEPT ![t] = "ETIMEOUT"]
        /\ m.tmr = k.tmr \ {t}
    <2>1. "ETIMEOUT" \in Err /\ k.stat[t] = "SUSPEND" /\ k \in KernelState /\ KernelOK(k)
      BY <1>2 DEF Err
    <2> QED  BY ONLY <2>1, t \in Thread, WakeEffect
  <1> HIDE DEF m
  <1>4. m.stat[Idle] \in {"READY", "RUNNING"}
    BY <1>2, <1>3
  <1>5. /\ Scheduled' /\ PreemptionPending' /\ k'.err = m.err /\ k'.tmr = m.tmr
        /\ \A u \in Thread : k'.stat[u] = "SUSPEND" <=> m.stat[u] = "SUSPEND"
    BY <1>1, <1>3, <1>4, AfterSchedule
  <1>6. /\ k'.tmr = k.tmr \ {t} /\ k'.err[t] = "ETIMEOUT"
        /\ \A u \in Thread : k'.stat[u] = "SUSPEND" <=> k.stat[u] = "SUSPEND" /\ u # t
        /\ \A u \in Thread \ {t} : k'.err[u] = k.err[u]
    BY <1>2, <1>3, <1>5
  <1>7. /\ wl' \in [WaitList -> Seq(App)]
        /\ \A j \in WaitList : /\ Distinct(wl'[j]) /\ ToSet(wl'[j]) = ToSet(wl[j]) \ {t}
                               /\ wl[j] = << >> => wl'[j] = << >>
    <2>1. \A j \in WaitList : /\ wl'[j] \in Seq(App) /\ Distinct(wl'[j])
                              /\ ToSet(wl'[j]) = ToSet(wl[j]) \ {t}
      BY <1>1, RemoveFirstList
    <2>2. \A j \in WaitList : wl[j] = << >> => wl'[j] = << >>
      BY <2>1, EmptyList
    <2> QED  BY <1>1, <2>1, <2>2
  <1>8. WaitersParked' /\ ParkedInCall' /\ \A u : Waiting(u)' <=> Waiting(u) /\ u # t
    <2>1. \A u \in Thread \ {t} : Waiting(u) =>
               /\ pc'[u] \in {"blocked", "wait"}
               /\ call'[u] = call[u] /\ k'.err[u] = k.err[u]
      BY <1>1, <1>6, WaitingPlace
    <2> QED  BY <1>6, <1>7, <2>1, WaiterLeaves
  <1>9. \A o : OnTheirWay(o)' = OnTheirWay(o)
    BY <1>1, <1>2, <1>6, <1>8, FailedLeaves
  <1>10. IdleApart'
    BY <1>1 DEF IpcInv, IdleApart
  <1> QED  BY <1>5, <1>7, <1>8, <1>9, <1>10 DEF IpcInv

-----------------------------------------------------------------------------
(* How many are on their way *)

LEMMA WayCount ==
    ASSUME NEW o, NEW h
    PROVE  /\ IsFiniteSet(OnTheirWay(o)) /\ Cardinality(OnTheirWay(o)) \in Nat
           /\ Cardinality(OnTheirWay(o) \ {h}) >= Cardinality(OnTheirWay(o)) - 1
           /\ Cardinality(OnTheirWay(o) \ {h}) \in Nat
           /\ h \notin OnTheirWay(o) =>
                 Cardinality(OnTheirWay(o) \cup {h}) = Cardinality(OnTheirWay(o)) + 1
  <1> DEFINE S == OnTheirWay(o)
  <1>1. S \in SUBSET Thread
    BY DEF OnTheirWay, Woken
  <1> HIDE DEF S
  <1>2. IsFiniteSet(S) /\ Cardinality(S) \in Nat
    BY <1>1, KernelAssumption, FS_Subset, FS_CardinalityType
  <1>3. Cardinality(S \ {h}) = IF h \in S THEN Cardinality(S) - 1 ELSE Cardinality(S)
    BY <1>2, FS_RemoveElement
  <1>4. IsFiniteSet(S \ {h}) /\ Cardinality(S \ {h}) \in Nat
    BY <1>2, FS_RemoveElement, FS_CardinalityType
  <1>5. Cardinality(S \cup {h}) = IF h \in S THEN Cardinality(S) ELSE Cardinality(S) + 1
    BY <1>2, FS_AddElement
  <1> QED  BY <1>2, <1>3, <1>4, <1>5 DEF S

\* Who tests the object in a call is on its way in no other operation.
LEMMA TesterElsewhere ==
    ASSUME NEW c, Testing(c), NEW o, o # c.op
    PROVE  OnTheirWay(o) \ {Me} = OnTheirWay(o)
  BY DEF Testing, Calling, Retrying, At, OnTheirWay, Woken

-----------------------------------------------------------------------------
(* The start and the end of a reset *)

LEMMA ResetEndSection ==
    ASSUME IpcInv, ResetEnd, Me \in DOMAIN pc
    PROVE  IpcInv' /\ UNCHANGED wl /\ \A l \in WaitList : wl[l] = << >>
  <1>1. /\ pc[Me] = "reset" /\ pc' = [pc EXCEPT ![Me] = "pend"] /\ UNCHANGED <<k, wl, call>>
        /\ \A l \in WaitList : wl[l] = << >>
    BY DEF ResetEnd, At, Goto
  <1>2. k' = [k EXCEPT !.err[Me] = k.err[Me]] /\ k.err[Me] \in Err
    BY <1>1, IpcTypes DEF KernelState
  <1>3. pc'[Me] = "pend" /\ \A t \in Thread \ {Me} : pc'[t] = pc[t] /\ call'[t] = call[t]
    BY <1>1
  <1>4. IpcInv'
    BY <1>1, <1>2, <1>3, QuietSection
  <1> QED  BY <1>1, <1>4

\* At the start no thread is on any list.
LEMMA IpcInvInit == IpcInit => IpcInv
  <1> SUFFICES ASSUME IpcInit PROVE IpcInv
    OBVIOUS
  <1>1. /\ k.cur = Idle /\ k.prio = BasePrio /\ k.grp = {} /\ k.tmr = {} /\ k.lock = 0
        /\ k.stat = [t \in Thread |-> IF t = Idle THEN "RUNNING" ELSE "INIT"]
        /\ k.err = [t \in Thread |-> "EOK"] /\ k.rq = [p \in Prio |-> << >>]
        /\ wl = [l \in WaitList |-> << >>] /\ pc = [t \in Thread |-> "run"]
    BY DEF IpcInit, SectionsInit
  <1>2. k \in KernelState
    BY KernelAssumption, SectionsAssumption DEF IpcInit, SectionsInit, KernelState, Stat, Err
  <1>3. ToSet(<< >>) = {} /\ Distinct(<< >>)
    BY DEF ToSet, Distinct
  <1>4. KernelOK(k)
    BY <1>1, <1>3, KernelAssumption
       DEF KernelOK, ReadyListed, ReadyDistinct, GroupExact, OneRunning
  <1>5. Scheduled
    BY <1>1, <1>2, <1>4, KernelAssumption DEF Scheduled, Me
  <1>6. PreemptionPending /\ IdleApart
    BY <1>1, KernelAssumption DEF PreemptionPending, TopRuns, IdleApart
  <1>7. \A t : ~ Waiting(t)
    BY <1>1, <1>3 DEF Waiting
  <1>8. WaitersParked /\ ParkedInCall
    BY <1>1, <1>3, <1>7 DEF WaitersParked, ParkedInCall
  <1>9. wl \in [WaitList -> Seq(App)]
    BY <1>1
  <1> QED  BY <1>5, <1>6, <1>8, <1>9 DEF IpcInv

-----------------------------------------------------------------------------
(* The steps of every object *)

\* The steps of IpcStep keep the invariant, wake nobody with RT_EOK and take no
\* thread further than to the end of its call.
LEMMA IpcStepSection ==
    ASSUME IpcInv, IpcStep, NEW P, {"run", "wait"} \subseteq P, pc \in [Thread -> P],
           NEW C, NoCall \in C, call \in [Thread -> C]
    PROVE  /\ IpcInv' /\ pc' \in [Thread -> P] /\ call' \in [Thread -> C]
           /\ \A o : OnTheirWay(o)' = OnTheirWay(o)
           /\ \A l \in WaitList : ToSet(wl'[l]) \subseteq ToSet(wl[l])
           /\ \A t \in Thread :
                 \/ pc'[t] = pc[t] /\ call'[t] = call[t]
                 \/ pc[t] = "pend" /\ pc'[t] = "run" /\ call'[t] = call[t]
                 \/ pc[t] = "blocked" /\ pc'[t] = "wait" /\ call'[t] = call[t]
                 \/ /\ pc[t] = "wait" /\ k.err[t] # "EOK"
                    /\ pc'[t] = "run" /\ call'[t] = NoCall
  <1> USE IpcTypes
  <1> DEFINE Places == \A t \in Thread :
                 \/ pc'[t] = pc[t] /\ call'[t] = call[t]
                 \/ pc[t] = "pend" /\ pc'[t] = "run" /\ call'[t] = call[t]
                 \/ pc[t] = "blocked" /\ pc'[t] = "wait" /\ call'[t] = call[t]
                 \/ /\ pc[t] = "wait" /\ k.err[t] # "EOK"
                    /\ pc'[t] = "run" /\ call'[t] = NoCall
             Goal == /\ IpcInv' /\ pc' \in [Thread -> P] /\ call' \in [Thread -> C]
                     /\ \A o : OnTheirWay(o)' = OnTheirWay(o)
                     /\ \A l \in WaitList : ToSet(wl'[l]) \subseteq ToSet(wl[l])
                     /\ Places
  <1>1. ASSUME NEW t \in Thread, Startup(t) PROVE Goal
    <2>1. UNCHANGED <<wl, pc, call>>
      BY <1>1 DEF Startup
    <2> QED  BY <1>1, <2>1, StartupSection
  <1>2. ASSUME NEW t \in Thread, TickTimeout(t) PROVE Goal
    <2>1. /\ UNCHANGED <<pc, call>> /\ wl' = [j \in WaitList |-> RemoveFirst(wl[j], t)]
      BY <1>2 DEF TickTimeout
    <2>2. ASSUME NEW j \in WaitList PROVE ToSet(wl'[j]) \subseteq ToSet(wl[j])
      <3>1. wl[j] \in Seq(App) /\ Distinct(wl[j]) /\ wl'[j] = RemoveFirst(wl[j], t)
        BY <2>1
      <3> QED  BY <3>1, RemoveFirstList
    <2> QED  BY <1>2, <2>1, <2>2, TickTimeoutSection
  <1>3. CASE CallSchedule
    <2>1. /\ k' = Schedule(k) /\ UNCHANGED <<wl, call>> /\ pc[Me] \in {"pend", "blocked"}
          /\ pc' = [pc EXCEPT ![Me] = IF pc[Me] = "pend" THEN "run" ELSE "wait"]
      BY <1>3 DEF CallSchedule, Goto, At
    <2>2. /\ pc' \in [Thread -> P] /\ Places
          /\ \A t \in Thread : pc'[t] \in {"blocked", "wait"} <=> pc[t] \in {"blocked", "wait"}
      BY <2>1
    <2>3. IpcInv' /\ \A o : OnTheirWay(o)' = OnTheirWay(o)
      BY <2>1, <2>2, ScheduleSection
    <2> QED  BY <2>1, <2>2, <2>3
  <1>4. CASE WaitFailed
    <2>1. /\ pc[Me] = "wait" /\ k.err[Me] # "EOK" /\ UNCHANGED <<k, wl>>
          /\ pc' = [pc EXCEPT ![Me] = "run"] /\ call' = [call EXCEPT ![Me] = NoCall]
      BY <1>4 DEF WaitFailed, EndCall, Goto, At
    <2>2. k' = [k EXCEPT !.err[Me] = k.err[Me]] /\ k.err[Me] \in Err
      BY <2>1 DEF KernelState
    <2>3. pc'[Me] = "run" /\ \A t \in Thread \ {Me} : pc'[t] = pc[t] /\ call'[t] = call[t]
      BY <2>1
    <2>4. IpcInv' /\ \A o : OnTheirWay(o)' = OnTheirWay(o) \ {Me}
      BY <2>1, <2>2, <2>3, QuietSection
    <2>5. \A o : Me \notin OnTheirWay(o)
      BY <2>1, WayMember
    <2>6. pc' \in [Thread -> P] /\ call' \in [Thread -> C] /\ Places
      BY <2>1
    <2>7. \A o : OnTheirWay(o)' = OnTheirWay(o)
      BY <2>4, <2>5
    <2> QED  BY <2>1, <2>4, <2>6, <2>7
  <1>5. CASE TickYield
    <2>1. k' = Schedule(k) /\ UNCHANGED <<wl, pc, call>>
      BY <1>5 DEF TickYield
    <2> QED  BY <2>1, ScheduleSection
  <1>6. \/ \E t \in Thread : Startup(t)
        \/ \E t \in Thread : TickTimeout(t)
        \/ CallSchedule \/ WaitFailed \/ TickYield
    BY DEF IpcStep
  <1>7. CASE \E t \in Thread : Startup(t)
    BY <1>1, <1>7
  <1>8. CASE \E t \in Thread : TickTimeout(t)
    BY <1>2, <1>8
  <1> QED  BY <1>3, <1>4, <1>5, <1>6, <1>7, <1>8

\* A finite waiting time has come down to 0 in a later round.
LEMMA ExpiredSection ==
    ASSUME IpcInv, NEW o, NEW e \in Err, Expired(o, e), NEW P, "run" \in P,
           pc \in [Thread -> P], NEW C, NoCall \in C, call \in [Thread -> C]
    PROVE  /\ IpcInv' /\ pc' \in [Thread -> P] /\ call' \in [Thread -> C] /\ wl' = wl
           /\ pc[Me] = "wait" /\ call[Me].op = o /\ pc'[Me] = "run" /\ call'[Me] = NoCall
           /\ \A t \in Thread \ {Me} : pc'[t] = pc[t] /\ call'[t] = call[t]
           /\ \A j : OnTheirWay(j)' = OnTheirWay(j) \ {Me}
  <1> USE IpcTypes
  <1>1. /\ pc[Me] = "wait" /\ call[Me].op = o /\ UNCHANGED wl
        /\ k' = [k EXCEPT !.err[Me] = e]
        /\ pc' = [pc EXCEPT ![Me] = "run"] /\ call' = [call EXCEPT ![Me] = NoCall]
    BY DEF Expired, Retrying, At, EndCall, Goto
  <1>2. /\ pc'[Me] = "run" /\ call'[Me] = NoCall
        /\ pc' \in [Thread -> P] /\ call' \in [Thread -> C]
        /\ \A t \in Thread \ {Me} : pc'[t] = pc[t] /\ call'[t] = call[t]
    BY <1>1
  <1>3. IpcInv' /\ \A j : OnTheirWay(j)' = OnTheirWay(j) \ {Me}
    BY <1>1, <1>2, QuietSection
  <1> QED  BY <1>1, <1>2, <1>3

-----------------------------------------------------------------------------
(* Chains of blocks *)

\* The chain of s, blocks of B, starts at b in the links nx and ends with null.
Chained(B, null, nx, s, b) ==
    /\ s \in Seq(B)
    /\ b = IF s = << >> THEN null ELSE s[1]
    /\ \A i \in 1 .. Len(s) : nx[s[i]] = IF i = Len(s) THEN null ELSE s[i + 1]

\* One more block of a chain.
Further(B, D, nx, from, n) ==
    [c \in D |->
        IF c \notin B THEN << >>
        ELSE IF n = 0 THEN <<c>>
        ELSE <<c>> \o from[n - 1][nx[c]]]

\* The walks of n blocks and less.
Walks(B, D, nx, n) == \E f : f = [m \in 0 .. n |-> Further(B, D, nx, f, m)]

\* There is such a function for every depth of the walk.
LEMMA WalkExists ==
    ASSUME NEW B, NEW D, NEW nx, NEW N \in Nat
    PROVE  Walks(B, D, nx, N)
  <1> USE DEF Walks
  <1> DEFINE Bad == {m \in Nat : ~ \E f : f = [n \in 0 .. m |-> Further(B, D, nx, f, n)]}
  <1>1. SUFFICES ASSUME Bad # {} PROVE FALSE
    OBVIOUS
  <1>2. PICK m \in Bad : \A j \in Bad : m <= j
    BY <1>1, LeastNat
  <1>3. CASE m = 0
    <2>1. \A g, h : Further(B, D, nx, g, 0) = Further(B, D, nx, h, 0)
      BY DEF Further
    <2> DEFINE f == [n \in 0 .. 0 |-> Further(B, D, nx, << >>, n)]
    <2>2. f = [n \in 0 .. 0 |-> Further(B, D, nx, f, n)]
      BY <2>1
    <2> QED  BY <1>2, <1>3, <2>2
  <1>4. CASE m # 0
    <2>1. m - 1 \in Nat /\ m - 1 \notin Bad
      BY <1>2, <1>4
    <2>2. PICK f : f = [n \in 0 .. m - 1 |-> Further(B, D, nx, f, n)]
      BY <2>1
    <2> DEFINE g == [n \in 0 .. m |-> IF n = m THEN Further(B, D, nx, f, n) ELSE f[n]]
    <2>3. ASSUME NEW n \in 0 .. m PROVE Further(B, D, nx, g, n) = Further(B, D, nx, f, n)
      <3>1. n # 0 => g[n - 1] = f[n - 1]
        BY <2>3
      <3> HIDE DEF g
      <3> QED  BY <3>1 DEF Further
    <2>4. \A n \in 0 .. m - 1 : f[n] = Further(B, D, nx, f, n)
      BY <2>2
    <2>5. \A n \in 0 .. m : g[n] = Further(B, D, nx, g, n)
      BY <1>2, <1>4, <2>3, <2>4
    <2>6. g = [n \in 0 .. m |-> Further(B, D, nx, g, n)]
      BY <2>5
    <2> QED  BY <1>2, <2>6
  <1> QED  BY <1>3, <1>4

\* The value that such a function has at b.
ChainOf(B, D, nx, b) ==
    (CHOOSE f : f = [n \in 0 .. Cardinality(B) |-> Further(B, D, nx, f, n)])
        [Cardinality(B)][b]

LEMMA ChainWalk ==
    ASSUME NEW B, NEW D, Cardinality(B) \in Nat, NEW nx
    PROVE  \E f : /\ f = [n \in 0 .. Cardinality(B) |-> Further(B, D, nx, f, n)]
                  /\ \A b : ChainOf(B, D, nx, b) = f[Cardinality(B)][b]
  <1> DEFINE N == Cardinality(B)
             P(f) == f = [n \in 0 .. N |-> Further(B, D, nx, f, n)]
             g == CHOOSE f : P(f)
  <1>3. P(g)
    <2>1. Walks(B, D, nx, Cardinality(B))
      BY WalkExists
    <2>2. \E f : P(f)
      BY <2>1 DEF Walks
    <2> HIDE DEF P
    <2> QED  BY <2>2
  <1>2. \A b : ChainOf(B, D, nx, b) = g[N][b]
    BY DEF ChainOf
  <1> QED  BY <1>2, <1>3

\* The number of the blocks of a chain.
LEMMA ChainLength ==
    ASSUME NEW B, NEW s \in Seq(B), Distinct(s), IsFiniteSet(B)
    PROVE  /\ Len(s) \in Nat /\ Len(s) <= Cardinality(B)
           /\ Cardinality(B) \in Nat
  <1>1. Len(s) \in Nat /\ \A i \in 1 .. Len(s) : s[i] \in B
    BY LenProperties, ElementOfSeq
  <1>2. s \in [1 .. Len(s) -> B] /\ DOMAIN s = 1 .. Len(s)
    BY LenProperties
  <1>3. s \in Injection(1 .. Len(s), B)
    BY <1>2 DEF Injection, IsInjective, Distinct
  <1>4. Cardinality(1 .. Len(s)) <= Cardinality(B) /\ Cardinality(B) \in Nat
    BY <1>3, FS_Injection, FS_CardinalityType
  <1>5. Cardinality(1 .. Len(s)) = Len(s)
    <2>1. Cardinality(1 .. Len(s)) = IF 1 > Len(s) THEN 0 ELSE Len(s) - 1 + 1
      BY <1>1, FS_Interval
    <2> QED  BY <1>1, <2>1
  <1> QED  BY <1>1, <1>4, <1>5

\* The blocks of a chain, one after the other.
LEMMA WalkIs ==
    ASSUME NEW B, NEW null, NEW D, B \cup {null} \subseteq D, IsFiniteSet(B), null \notin B,
           NEW nx, NEW s, NEW b, Chained(B, null, nx, s, b), Distinct(s)
    PROVE  ChainOf(B, D, nx, b) = s
  <1> DEFINE N == Cardinality(B)
             rest(j) == SubSeq(s, Len(s) - j + 1, Len(s))
  <1>1. Len(s) \in Nat /\ Len(s) <= N /\ N \in Nat
    BY ChainLength DEF Chained
  <1>2. PICK f : /\ f = [n \in 0 .. N |-> Further(B, D, nx, f, n)]
                 /\ \A c : ChainOf(B, D, nx, c) = f[N][c]
    BY <1>1, ChainWalk
  <1> DEFINE first(j) == IF j = 0 THEN null ELSE s[Len(s) - j + 1]
             Good(j) == \A n \in 0 .. N : j <= n => f[n][first(j)] = rest(j)
             Bad == {j \in 0 .. Len(s) : ~ Good(j)}
  <1> HIDE DEF N
  <1>3. ASSUME NEW j \in 0 .. Len(s), \A i \in 0 .. Len(s) : i < j => Good(i)
        PROVE  Good(j)
    <2> SUFFICES ASSUME NEW n \in 0 .. N, j <= n PROVE f[n][first(j)] = rest(j)
      OBVIOUS
    <2>1. f[n] = Further(B, D, nx, f, n)
      BY <1>2
    <2>2. CASE j = 0
      <3>1. f[n][first(j)] = << >>
        BY <2>1, <2>2 DEF Further
      <3>2. rest(j) = << >>
        BY <1>1, <2>2
      <3> QED  BY <3>1, <3>2
    <2>3. CASE j # 0
      <3>1. /\ j \in 1 .. Len(s) /\ j - 1 \in 0 .. Len(s) /\ n - 1 \in 0 .. N /\ n # 0
            /\ j - 1 <= n - 1 /\ j - 1 < j
        BY <1>1, <2>3
      <3>2. f[n - 1][first(j - 1)] = rest(j - 1)
        BY <1>3, <3>1
      <3> DEFINE p == Len(s) - j + 1
      <3>3. p \in 1 .. Len(s) /\ (p = Len(s) <=> j - 1 = 0) /\ Len(s) - (j - 1) + 1 = p + 1
        BY <1>1, <3>1
      <3>4. s[p] \in B /\ nx[s[p]] = IF p = Len(s) THEN null ELSE s[p + 1]
        BY <3>3, ElementOfSeq DEF Chained
      <3>5. first(j) = s[p] /\ first(j - 1) = IF j - 1 = 0 THEN null ELSE s[p + 1]
        BY <2>3, <3>3
      <3>6. first(j) \in B /\ nx[first(j)] = first(j - 1)
        BY ONLY <3>3, <3>4, <3>5
      <3>7. f[n][first(j)] = <<first(j)>> \o f[n - 1][nx[first(j)]]
        <4> HIDE DEF first
        <4> QED  BY <2>1, <3>1, <3>6 DEF Further
      <3>8. rest(j) = <<s[p]>> \o rest(j - 1)
        <4>1. s \in Seq(B) /\ rest(j) = SubSeq(s, p, Len(s))
              /\ rest(j - 1) = SubSeq(s, p + 1, Len(s))
          BY <3>3 DEF Chained
        <4> QED  BY <1>1, <3>3, <4>1
      <3> QED  BY <3>2, <3>5, <3>6, <3>7, <3>8
    <2> QED  BY <2>2, <2>3
  <1>4. Good(Len(s))
    <2> HIDE DEF Good
    <2>1. SUFFICES ASSUME Bad # {} PROVE FALSE
      BY <1>1
    <2>2. Bad \in SUBSET Nat
      BY <1>1
    <2>3. PICK j \in Bad : \A m \in Bad : j <= m
      BY <2>1, <2>2, LeastNat
    <2>4. \A i \in 0 .. Len(s) : i < j => Good(i)
      BY <1>1, <2>2, <2>3
    <2> QED  BY <1>3, <2>3, <2>4
  <1>5. first(Len(s)) = b
    BY <1>1 DEF Chained
  <1>6. rest(Len(s)) = s
    BY <1>1 DEF Chained
  <1>7. f[N][first(Len(s))] = rest(Len(s))
    BY <1>1, <1>4
  <1> QED  BY <1>2, <1>5, <1>6, <1>7

\* A chain does not depend on the links of other blocks.
LEMMA ChainedSame ==
    ASSUME NEW B, NEW null, NEW nx, NEW ny, NEW s, NEW b, Chained(B, null, nx, s, b),
           \A c \in ToSet(s) : ny[c] = nx[c]
    PROVE  Chained(B, null, ny, s, b)
  <1>1. \A i \in 1 .. Len(s) : s[i] \in ToSet(s)
    BY LenProperties DEF Chained, ToSet
  <1> QED  BY <1>1 DEF Chained

\* The first block of a chain and the rest.
LEMMA ChainedHead ==
    ASSUME NEW B, NEW null, null \notin B, NEW nx, NEW s, NEW b,
           Chained(B, null, nx, s, b), Distinct(s)
    PROVE  /\ b = null <=> s = << >>
           /\ s # << >> =>
                 /\ b \in B /\ b = Head(s) /\ b \in ToSet(s)
                 /\ Chained(B, null, nx, Tail(s), nx[b]) /\ Distinct(Tail(s))
                 /\ ToSet(Tail(s)) = ToSet(s) \ {b} /\ Len(Tail(s)) = Len(s) - 1
                 /\ Len(s) \in Nat \ {0}
  <1>1. s \in Seq(B) /\ Len(s) \in Nat /\ \A i \in 1 .. Len(s) : s[i] \in B
    BY LenProperties, ElementOfSeq DEF Chained
  <1>2. CASE s = << >>
    BY <1>2 DEF Chained
  <1>3. CASE s # << >>
    <2>1. Len(s) \in Nat \ {0} /\ b = s[1] /\ b \in B /\ b = Head(s)
      BY <1>1, <1>3, EmptySeq DEF Chained
    <2>2. /\ b \in ToSet(s) /\ Tail(s) \in Seq(B)
          /\ ToSet(Tail(s)) = ToSet(s) \ {b} /\ Distinct(Tail(s))
      BY <1>1, <1>3, <2>1, HeadTailList
    <2>3. Len(Tail(s)) = Len(s) - 1 /\ \A i \in 1 .. Len(s) - 1 : Tail(s)[i] = s[i + 1]
      BY <1>1, <1>3, <2>1
    <2>4. Chained(B, null, nx, Tail(s), nx[b])
      <3>1. nx[b] = IF Len(s) = 1 THEN null ELSE s[2]
        <4>1. 1 \in 1 .. Len(s) /\ 1 + 1 = 2
          BY <2>1
        <4>2. nx[s[1]] = IF 1 = Len(s) THEN null ELSE s[1 + 1]
          BY <4>1 DEF Chained
        <4> QED  BY <2>1, <4>1, <4>2
      <3>2. nx[b] = IF Tail(s) = << >> THEN null ELSE Tail(s)[1]
        <4>1. Tail(s) = << >> <=> Len(Tail(s)) = 0
          BY <2>2, EmptySeq
        <4>2. Len(s) # 1 => Tail(s)[1] = s[2]
          BY <2>1, <2>3
        <4> QED  BY <2>1, <2>3, <3>1, <4>1, <4>2
      <3>3. \A i \in 1 .. Len(Tail(s)) :
               nx[Tail(s)[i]] = IF i = Len(Tail(s)) THEN null ELSE Tail(s)[i + 1]
        <4> SUFFICES ASSUME NEW i \in 1 .. Len(Tail(s))
                     PROVE  nx[Tail(s)[i]] = IF i = Len(Tail(s)) THEN null ELSE Tail(s)[i + 1]
          OBVIOUS
        <4>1. i \in 1 .. Len(s) - 1 /\ i + 1 \in 1 .. Len(s) /\ Tail(s)[i] = s[i + 1]
          BY <2>1, <2>3
        <4>2. nx[s[i + 1]] = IF i + 1 = Len(s) THEN null ELSE s[i + 2]
          BY <2>1, <4>1 DEF Chained
        <4>3. i + 1 = Len(s) <=> i = Len(Tail(s))
          BY <2>1, <2>3, <4>1
        <4>4. i + 1 # Len(s) => Tail(s)[i + 1] = s[i + 2]
          <5>1. i + 1 # Len(s) => i + 1 \in 1 .. Len(s) - 1
            BY <2>1, <4>1
          <5>2. (i + 1) + 1 = i + 2
            BY <4>1
          <5> QED  BY <2>3, <5>1, <5>2
        <4> QED  BY <4>1, <4>2, <4>3, <4>4
      <3> QED  BY <2>2, <3>2, <3>3 DEF Chained
    <2> QED  BY <1>3, <2>1, <2>2, <2>3, <2>4
  <1> QED  BY <1>2, <1>3

\* A block that is linked before a chain.
LEMMA ChainedCons ==
    ASSUME NEW B, NEW null, null \notin B, NEW nx, NEW ny, NEW s, NEW b,
           Chained(B, null, nx, s, b), Distinct(s),
           NEW c \in B, c \notin ToSet(s), ny[c] = b,
           \A d \in ToSet(s) : ny[d] = nx[d]
    PROVE  LET q == <<c>> \o s
           IN  /\ Chained(B, null, ny, q, c) /\ Distinct(q) /\ ToSet(q) = ToSet(s) \cup {c}
               /\ Len(q) = Len(s) + 1 /\ Len(s) \in Nat /\ q # << >>
               /\ q[Len(q)] = IF s = << >> THEN c ELSE s[Len(s)]
  <1> DEFINE q == <<c>> \o s
  <1>0. Chained(B, null, ny, s, b)
    BY ChainedSame
  <1>1. s \in Seq(B) /\ Chained(B, null, ny, s, b)
    BY <1>0 DEF Chained
  <1>2. /\ q \in Seq(B) /\ Len(q) = Len(s) + 1 /\ Len(s) \in Nat
        /\ q[1] = c /\ \A i \in 1 .. Len(s) : q[i + 1] = s[i]
        /\ ToSet(q) = ToSet(s) \cup {c} /\ Distinct(q)
    BY <1>1, ConsList
  <1> HIDE DEF q
  <1>3. q # << >> /\ (s = << >> <=> Len(s) = 0)
    BY <1>1, <1>2, EmptySeq
  <1>4. q[Len(q)] = IF s = << >> THEN c ELSE s[Len(s)]
    BY <1>2, <1>3
  <1>5. ASSUME NEW i \in 1 .. Len(q)
        PROVE  ny[q[i]] = IF i = Len(q) THEN null ELSE q[i + 1]
    <2>1. CASE i = 1
      <3>1. ny[q[1]] = IF Len(s) = 0 THEN null ELSE s[1]
        BY <1>2, <1>3 DEF Chained
      <3>2. Len(s) # 0 => q[2] = s[1]
        BY <1>2
      <3> QED  BY <1>2, <2>1, <3>1, <3>2
    <2>2. CASE i # 1
      <3> DEFINE m == i - 1
      <3>1. m \in 1 .. Len(s) /\ m + 1 = i /\ (m = Len(s) <=> i = Len(q))
        BY <1>2, <1>5, <2>2
      <3>2. ny[s[m]] = IF m = Len(s) THEN null ELSE s[m + 1]
        BY <1>1, <3>1 DEF Chained
      <3>3. q[i] = s[m] /\ (m # Len(s) => q[i + 1] = s[m + 1])
        BY <1>2, <3>1
      <3> HIDE DEF m
      <3> QED  BY <3>1, <3>2, <3>3
    <2> QED  BY <2>1, <2>2
  <1>6. Chained(B, null, ny, q, c)
    BY <1>2, <1>3, <1>5 DEF Chained
  <1> QED  BY <1>2, <1>3, <1>4, <1>6 DEF q

\* A block that is linked behind a chain.
LEMMA ChainedAppend ==
    ASSUME NEW B, NEW null, null \notin B, NEW nx, NEW ny, NEW s, NEW b,
           Chained(B, null, nx, s, b), Distinct(s),
           NEW c \in B, c \notin ToSet(s), ny[c] = null,
           \A i \in 1 .. Len(s) : ny[s[i]] = IF i = Len(s) THEN c ELSE nx[s[i]]
    PROVE  LET q == Append(s, c)
           IN  /\ Chained(B, null, ny, q, IF s = << >> THEN c ELSE b)
               /\ Distinct(q) /\ ToSet(q) = ToSet(s) \cup {c}
               /\ Len(q) = Len(s) + 1 /\ Len(s) \in Nat /\ q # << >> /\ q[Len(q)] = c
  <1> DEFINE q == Append(s, c)
  <1>1. s \in Seq(B) /\ Len(s) \in Nat /\ (s = << >> <=> Len(s) = 0)
    BY LenProperties, EmptySeq DEF Chained
  <1>2. /\ q \in Seq(B) /\ ToSet(q) = ToSet(s) \cup {c} /\ Distinct(q)
    BY <1>1, AppendList
  <1>3. /\ Len(q) = Len(s) + 1 /\ q[Len(q)] = c /\ \A i \in 1 .. Len(s) : q[i] = s[i]
    BY <1>1
  <1> HIDE DEF q
  <1>4. q # << >>
    BY <1>1, <1>2, <1>3, EmptySeq
  <1>5. ASSUME NEW i \in 1 .. Len(q)
        PROVE  ny[q[i]] = IF i = Len(q) THEN null ELSE q[i + 1]
    <2>1. CASE i = Len(q)
      BY <1>3, <2>1
    <2>2. CASE i # Len(q)
      <3>1. i \in 1 .. Len(s) /\ q[i] = s[i]
        BY <1>1, <1>3, <2>2
      <3>2. CASE i = Len(s)
        BY <1>3, <2>2, <3>1, <3>2
      <3>3. CASE i # Len(s)
        <4>1. ny[s[i]] = s[i + 1]
          BY <3>1, <3>3 DEF Chained
        <4>2. q[i + 1] = s[i + 1]
          BY <1>1, <1>3, <3>1, <3>3
        <4> QED  BY <2>2, <3>1, <4>1, <4>2
      <3> QED  BY <3>2, <3>3
    <2> QED  BY <2>1, <2>2
  <1>6. (IF s = << >> THEN c ELSE b) = q[1]
    BY <1>1, <1>3 DEF Chained
  <1>7. Chained(B, null, ny, q, IF s = << >> THEN c ELSE b)
    BY <1>2, <1>4, <1>5, <1>6 DEF Chained
  <1> QED  BY <1>1, <1>2, <1>3, <1>4, <1>7 DEF q
=============================================================================
