------------------------------ MODULE LockProofs ------------------------------
(***************************************************************************)
(* The safety of the semaphore and of the mutex.                           *)
(*                                                                         *)
(* The semaphore, for any number of threads and priorities, either flag    *)
(* and any bound on the tokens: the kernel's lists, the accounting of      *)
(* tokens, the order of the wait list, and that the code implements the    *)
(* counting semaphore of module TokenPool.                                 *)
(*                                                                         *)
(* rt_mutex_take and rt_mutex_release, for any number of threads, mutexes  *)
(* and priorities, either flag and any bound on the depth of recursive     *)
(* takes; and, as long as no thread uses two mutexes at a time, what       *)
(* priority inheritance promises, and that each mutex implements the lock  *)
(* of module Lock.                                                         *)
(***************************************************************************)
EXTENDS Semaphore, Mutex, KernelProofs, FiniteSetTheorems

-----------------------------------------------------------------------------
(* Semaphore: the inductive invariant *)

\* The application never locks the scheduler around these calls, and nothing
\* suspends the idle thread.
SemIdleRunnable == k.lock = 0 /\ k.stat[Idle] \in {"READY", "RUNNING"}

\* A suspended thread is inside rt_sem_take and has no error number yet.
SemParkedInTake ==
    \A t \in Thread : k.stat[t] = "SUSPEND" =>
        pc[t] \in {"blocked", "wait"} /\ k.err[t] = "EOK"

\* Only between its suspension and its rt_schedule does a parked thread run.
SemRunsAwake == k.stat[k.cur] = "RUNNING" \/ pc[k.cur] = "blocked"

SemInv ==
    /\ SemTypeOK /\ KernelConsistent /\ SemIdleRunnable
    /\ SemWaitersParked /\ SemParkedInTake /\ SemRunsAwake
    /\ NoStrandedWaiter /\ SemPreemptionPending /\ Conservation

-----------------------------------------------------------------------------
(* Facts the actions share *)

\* What SemTypeOK says of the parts of the state.
LEMMA SemTypes ==
    ASSUME SemInv
    PROVE  /\ k \in KernelState /\ KernelOK(k) /\ k.lock = 0
           /\ k.cur \in Thread /\ k.stat \in [Thread -> Stat]
           /\ k.err \in [Thread -> Err] /\ k.tmr \in SUBSET Thread
           /\ k.stat[Idle] \in {"READY", "RUNNING"} /\ Idle \in Thread
           /\ k.stat[k.cur] # "READY"
           /\ semWaiters \in Seq(App) /\ ToSet(semWaiters) \subseteq Thread
           /\ pc \in [Thread -> SemPc]
           /\ semValue \in Nat /\ credit \in Nat /\ SemMod \in Nat /\ MaxCredit \in Nat
           /\ MaxCredit < SemMod
           /\ IsFiniteSet(Granted) /\ Granted \subseteq Thread
           /\ Cardinality(Granted) \in Nat
  <1>1. /\ k \in KernelState /\ k.cur \in Thread /\ k.stat \in [Thread -> Stat]
        /\ k.err \in [Thread -> Err] /\ k.tmr \in SUBSET Thread
    BY DEF SemInv, SemTypeOK, KernelState
  <1>2. IsFiniteSet(Granted) /\ Granted \subseteq Thread
    BY KernelAssumption, FS_Subset DEF Granted
  <1>3. Cardinality(Granted) \in Nat
    BY <1>2, FS_CardinalityType
  <1>4. ToSet(semWaiters) \subseteq Thread
    BY DEF SemInv, SemWaitersParked, ToSet, SemTypeOK, App
  <1> QED
    BY <1>1, <1>2, <1>3, <1>4, KernelAssumption, SemaphoreAssumption, SectionsAssumption
       DEF SemInv, SemTypeOK, KernelConsistent, KernelOK, OneRunning, SemIdleRunnable

\* What rt_schedule leaves of the invariant: called from any kernel state that
\* is consistent, with the other variables as the invariant wants them.
LEMMA SemAfterSchedule ==
    ASSUME NEW m \in KernelState, KernelOK(m), m.lock = 0,
           m.stat[Idle] \in {"READY", "RUNNING"},
           k' = Schedule(m)
    PROVE  /\ k' \in KernelState /\ KernelConsistent' /\ SemIdleRunnable'
           /\ SemRunsAwake' /\ SemPreemptionPending'
           /\ k'.prio = m.prio /\ k'.err = m.err /\ k'.tmr = m.tmr
           /\ \A t \in Thread : k'.stat[t] = "SUSPEND" <=> m.stat[t] = "SUSPEND"
  BY ScheduleWithIdle
     DEF KernelConsistent, SemIdleRunnable, SemRunsAwake, SemPreemptionPending, Me

-----------------------------------------------------------------------------
(* The threads' steps *)

\* The kernel after rt_thread_startup of a thread.
LEMMA SemStartupKernel ==
    ASSUME SemInv, NEW t \in Thread, SemStartup(t)
    PROVE  /\ k' \in KernelState /\ KernelConsistent' /\ SemIdleRunnable'
           /\ SemRunsAwake' /\ SemPreemptionPending'
           /\ k'.prio = k.prio /\ k'.err = k.err /\ k'.tmr = k.tmr
           /\ \A u \in Thread : k'.stat[u] = "SUSPEND" <=> k.stat[u] = "SUSPEND"
  <1> USE SemTypes
  <1> DEFINE i == [k EXCEPT !.stat[t] = "SUSPEND"]
             m == Resume(i, t)
  <1>1. k.stat[t] = "INIT" /\ k' = Schedule(m)
        /\ UNCHANGED <<semValue, semWaiters, pc, credit>>
    BY DEF SemStartup
  <1>2. /\ i \in KernelState /\ i.cur = k.cur /\ i.prio = k.prio /\ i.rq = k.rq
        /\ i.grp = k.grp /\ i.err = k.err /\ i.tmr = k.tmr /\ i.lock = k.lock
        /\ i.stat = [k.stat EXCEPT ![t] = "SUSPEND"]
    BY DEF KernelState, Stat
  <1> HIDE DEF i
  <1>3. KernelOK(i)
    BY <1>1, <1>2
       DEF KernelOK, ReadyListed, ReadyDistinct, GroupExact, OneRunning
  <1>4. t # Idle /\ t \notin k.tmr /\ t # k.cur /\ t \notin ToSet(semWaiters)
    BY <1>1 DEF SemInv, SemWaitersParked, SemRunsAwake, SemStartup, Me, At
  <1>5. /\ m \in KernelState /\ KernelOK(m)
        /\ m.cur = k.cur /\ m.prio = k.prio /\ m.lock = 0 /\ m.err = k.err /\ m.tmr = k.tmr
        /\ m.stat = [k.stat EXCEPT ![t] = "READY"]
    <2>1. i.stat[t] = "SUSPEND"
      BY <1>2
    <2> HIDE DEF m
    <2>2. /\ m \in KernelState /\ KernelOK(m)
          /\ m.cur = i.cur /\ m.prio = i.prio /\ m.lock = i.lock
          /\ m.stat = [i.stat EXCEPT ![t] = IF t = i.cur THEN "RUNNING" ELSE "READY"]
          /\ m.err = i.err
          /\ m.tmr = i.tmr \ {t}
      BY <1>2, <1>3, <2>1, ResumeEffect DEF m
    <2> QED  BY <1>2, <1>4, <2>2
  <1> HIDE DEF m
  <1>6. m.stat[Idle] \in {"READY", "RUNNING"}
    BY <1>4, <1>5
  <1> QED  BY <1>1, <1>5, <1>6, SemAfterSchedule

\* rt_thread_startup of a thread keeps the invariant.
LEMMA SemStartupStep ==
    ASSUME SemInv, NEW t \in Thread, SemStartup(t)
    PROVE  SemInv'
  <1> USE SemTypes
  <1>1. UNCHANGED <<semValue, semWaiters, pc, credit>>
    BY DEF SemStartup
  <1>2. /\ k' \in KernelState /\ KernelConsistent' /\ SemIdleRunnable'
        /\ SemRunsAwake' /\ SemPreemptionPending'
        /\ k'.err = k.err /\ k'.tmr = k.tmr
        /\ \A u \in Thread : k'.stat[u] = "SUSPEND" <=> k.stat[u] = "SUSPEND"
    BY SemStartupKernel
  <1>3. SemTypeOK' /\ NoStrandedWaiter'
    BY <1>1, <1>2 DEF SemInv, SemTypeOK, NoStrandedWaiter
  <1>4. SemWaitersParked' /\ SemParkedInTake'
    BY <1>1, <1>2 DEF SemInv, SemWaitersParked, SemParkedInTake
  <1>5. Conservation'
    <2>1. Granted' = Granted
      BY <1>1, <1>2 DEF Granted
    <2> QED  BY <1>1, <2>1 DEF SemInv, Conservation
  <1> QED  BY <1>2, <1>3, <1>4, <1>5 DEF SemInv

\* rt_sem_take with a token there keeps it.
LEMMA TakeAvailableStep ==
    ASSUME SemInv, TakeAvailable
    PROVE  SemInv'
  <1> USE SemTypes
  <1>1. /\ semValue > 0 /\ semValue' = semValue - 1 /\ credit' = credit - 1
        /\ UNCHANGED <<k, semWaiters, pc>>
    BY DEF TakeAvailable
  <1>2. Granted' = Granted
    BY <1>1 DEF Granted
  <1>3. SemTypeOK'
    BY <1>1 DEF SemInv, SemTypeOK, Conservation
  <1>4. Conservation'
    BY <1>1, <1>2 DEF SemInv, Conservation
  <1>5. NoStrandedWaiter'
    BY <1>1 DEF SemInv, NoStrandedWaiter
  <1>6. KernelConsistent' /\ SemIdleRunnable' /\ SemRunsAwake' /\ SemPreemptionPending'
    BY <1>1 DEF SemInv, KernelConsistent, SemIdleRunnable, SemRunsAwake,
                SemPreemptionPending, Me
  <1>7. SemWaitersParked' /\ SemParkedInTake'
    BY <1>1 DEF SemInv, SemWaitersParked, SemParkedInTake
  <1> QED  BY <1>3, <1>4, <1>5, <1>6, <1>7 DEF SemInv

\* rt_ipc_list_suspend of the current thread.
LEMMA SuspendSelf ==
    ASSUME NEW m \in KernelState, KernelOK(m), m.stat[m.cur] = "RUNNING",
           NEW time \in Wait
    PROVE  LET n == SuspendOn(m, m.cur, time)
           IN  /\ n \in KernelState /\ KernelOK(n)
               /\ n.cur = m.cur /\ n.prio = m.prio /\ n.lock = m.lock
               /\ n.stat = [m.stat EXCEPT ![m.cur] = "SUSPEND"]
               /\ n.err = [m.err EXCEPT ![m.cur] = "EOK"]
               /\ n.tmr = IF time = "limited" THEN m.tmr \cup {m.cur}
                                              ELSE m.tmr \ {m.cur}
  <1> DEFINE c == m.cur
  <1>1. c \in Thread /\ m.stat[c] \in {"READY", "RUNNING"}
    BY DEF KernelState
  <1> HIDE DEF c
  <1> DEFINE n == SuspendOn(m, c, time)
  <1>2. /\ n \in KernelState /\ KernelOK(n)
        /\ n.cur = m.cur /\ n.prio = m.prio /\ n.lock = m.lock
        /\ n.stat = [m.stat EXCEPT ![c] = "SUSPEND"]
    BY <1>1, SuspendOnEffect
  <1>3. n.err = [m.err EXCEPT ![c] = "EOK"]
    BY <1>1, SuspendOnError
  <1>4. n.tmr = IF time = "limited" THEN m.tmr \cup {c} ELSE m.tmr \ {c}
    BY <1>1, SuspendOnTimer
  <1> QED  BY <1>2, <1>3, <1>4 DEF c

\* The taker that suspends itself joins the wait list.
LEMMA EnqueueApp ==
    ASSUME NEW m, NEW q \in Seq(App), NEW c \in App
    PROVE  /\ EnqueueWaiter(m, q, c, Flag) \in Seq(App)
           /\ ToSet(EnqueueWaiter(m, q, c, Flag)) = ToSet(q) \cup {c}
           /\ Distinct(q) /\ c \notin ToSet(q) => Distinct(EnqueueWaiter(m, q, c, Flag))
  <1>1. EnqueueWaiter(m, q, c, Flag) \in Seq(App)
    BY EnqueueWaiterType
  <1>2. ToSet(EnqueueWaiter(m, q, c, Flag)) = ToSet(q) \cup {c}
    BY EnqueueWaiterSet
  <1>3. Distinct(q) /\ c \notin ToSet(q) => Distinct(EnqueueWaiter(m, q, c, Flag))
    BY EnqueueWaiterDistinct
  <1> QED  BY <1>1, <1>2, <1>3

\* rt_sem_take that suspends its caller keeps it.
LEMMA SemTakeSuspendStep ==
    ASSUME SemInv, NEW time \in Wait, SemTakeSuspend(time)
    PROVE  SemInv'
  <1> USE SemTypes
  <1>1. /\ k.cur \in App /\ pc[k.cur] = "run" /\ semValue = 0
        /\ k' = SuspendOn(k, k.cur, time)
        /\ semWaiters' = EnqueueWaiter(k, semWaiters, k.cur, Flag)
        /\ pc' = [pc EXCEPT ![k.cur] = "blocked"]
        /\ UNCHANGED <<semValue, credit>>
    BY DEF SemTakeSuspend, Me, At, Goto
  <1>2. k.stat[k.cur] = "RUNNING" /\ k.cur \notin ToSet(semWaiters) /\ k.cur # Idle
    BY <1>1 DEF SemInv, SemRunsAwake, SemWaitersParked, App
  <1>3. /\ k' \in KernelState /\ KernelOK(k')
        /\ k'.cur = k.cur /\ k'.prio = k.prio /\ k'.lock = k.lock
        /\ k'.stat = [k.stat EXCEPT ![k.cur] = "SUSPEND"]
        /\ k'.err = [k.err EXCEPT ![k.cur] = "EOK"]
        /\ k'.tmr = IF time = "limited" THEN k.tmr \cup {k.cur} ELSE k.tmr \ {k.cur}
    BY <1>1, <1>2, SuspendSelf
  <1>4. /\ semWaiters' \in Seq(App)
        /\ ToSet(semWaiters') = ToSet(semWaiters) \cup {k.cur}
        /\ Distinct(semWaiters')
    <2> DEFINE c == k.cur
               w == EnqueueWaiter(k, semWaiters, c, Flag)
    <2>1. c \in App /\ Distinct(semWaiters) /\ c \notin ToSet(semWaiters)
      BY <1>1, <1>2 DEF SemInv, SemWaitersParked
    <2> HIDE DEF c
    <2>2. /\ w \in Seq(App)
          /\ ToSet(w) = ToSet(semWaiters) \cup {c}
          /\ Distinct(semWaiters) /\ c \notin ToSet(semWaiters) => Distinct(w)
      BY <2>1, EnqueueApp
    <2> QED  BY <1>1, <2>1, <2>2 DEF c
  <1>5. SemTypeOK'
    BY <1>1, <1>3, <1>4 DEF SemInv, SemTypeOK, SemPc
  <1>6. KernelConsistent' /\ SemIdleRunnable' /\ SemRunsAwake' /\ SemPreemptionPending'
    BY <1>1, <1>2, <1>3
       DEF SemInv, KernelConsistent, SemIdleRunnable, SemRunsAwake, SemPreemptionPending, Me
  <1>7. SemWaitersParked'
    BY <1>3, <1>4 DEF SemInv, SemWaitersParked
  <1>8. SemParkedInTake'
    BY <1>1, <1>3 DEF SemInv, SemParkedInTake
  <1>9. NoStrandedWaiter'
    BY <1>1 DEF NoStrandedWaiter
  <1>10. Conservation'
    <2>1. Granted' = Granted
      BY <1>1, <1>3, <1>4 DEF Granted
    <2> QED  BY <1>1, <2>1 DEF SemInv, Conservation
  <1> QED  BY <1>5, <1>6, <1>7, <1>8, <1>9, <1>10 DEF SemInv

\* The rt_schedule at the end of a call keeps it.
LEMMA SemCallScheduleStep ==
    ASSUME SemInv, SemCallSchedule
    PROVE  SemInv'
  <1> USE SemTypes
  <1>1. /\ pc[k.cur] \in {"pend", "blocked"}
        /\ k' = Schedule(k)
        /\ pc' = [pc EXCEPT ![k.cur] = IF pc[k.cur] = "pend" THEN "run" ELSE "wait"]
        /\ UNCHANGED <<semValue, semWaiters, credit>>
    BY DEF SemCallSchedule, Me, At, Goto
  <1>2. /\ k' \in KernelState /\ KernelConsistent' /\ SemIdleRunnable'
        /\ SemRunsAwake' /\ SemPreemptionPending'
        /\ k'.err = k.err /\ k'.tmr = k.tmr
        /\ \A u \in Thread : k'.stat[u] = "SUSPEND" <=> k.stat[u] = "SUSPEND"
    BY <1>1, SemAfterSchedule
  <1>3. SemTypeOK' /\ NoStrandedWaiter'
    BY <1>1, <1>2 DEF SemInv, SemTypeOK, NoStrandedWaiter, SemPc
  <1>4. SemWaitersParked'
    BY <1>1, <1>2 DEF SemInv, SemWaitersParked
  <1>5. SemParkedInTake'
    BY <1>1, <1>2 DEF SemInv, SemParkedInTake
  <1>6. Conservation'
    <2>1. Granted' = Granted
      BY <1>1, <1>2 DEF Granted
    <2> QED  BY <1>1, <2>1 DEF SemInv, Conservation
  <1> QED  BY <1>2, <1>3, <1>4, <1>5, <1>6 DEF SemInv

\* The return of a take keeps it.
LEMMA SemTakeReturnStep ==
    ASSUME SemInv, SemTakeReturn
    PROVE  SemInv'
  <1> USE SemTypes
  <1>1. /\ pc[k.cur] = "wait" /\ pc' = [pc EXCEPT ![k.cur] = "run"]
        /\ credit' = IF k.err[k.cur] = "EOK" THEN credit - 1 ELSE credit
        /\ UNCHANGED <<k, semValue, semWaiters>>
    BY DEF SemTakeReturn, Me, At, Goto
  <1>2. k.stat[k.cur] = "RUNNING" /\ k.cur \notin ToSet(semWaiters)
    BY <1>1 DEF SemInv, SemRunsAwake, SemWaitersParked
  <1>3. Granted' = Granted \ {k.cur}
    BY <1>1 DEF Granted
  <1>4. SemTypeOK' /\ Conservation'
    <2>1. CASE k.err[k.cur] = "EOK"
      <3>1. k.cur \in Granted
        BY <1>1, <1>2, <2>1 DEF Granted
      <3>2. Cardinality(Granted') = Cardinality(Granted) - 1
        <4> DEFINE g == Granted
                   c == k.cur
        <4>1. IsFiniteSet(g) /\ c \in g
          BY <3>1
        <4> HIDE DEF g, c
        <4>2. Cardinality(g \ {c}) = Cardinality(g) - 1
          BY <4>1, FS_RemoveElement
        <4> QED  BY <1>3, <4>2 DEF g, c
      <3>3. Cardinality(Granted) > 0
        <4>1. Granted # {}
          BY <3>1
        <4> QED  BY <4>1, FS_EmptySet
      <3>4. Conservation'
        BY <1>1, <2>1, <3>2 DEF SemInv, Conservation
      <3>5. credit' \in 0 .. MaxCredit
        BY <1>1, <2>1, <3>3 DEF SemInv, SemTypeOK, Conservation
      <3> QED  BY <1>1, <3>4, <3>5 DEF SemInv, SemTypeOK, SemPc
    <2>2. CASE k.err[k.cur] # "EOK"
      <3>1. Granted' = Granted
        BY <1>3, <2>2 DEF Granted
      <3> QED  BY <1>1, <2>2, <3>1 DEF SemInv, SemTypeOK, Conservation, SemPc
    <2> QED  BY <2>1, <2>2
  <1>5. KernelConsistent' /\ SemIdleRunnable' /\ SemRunsAwake' /\ SemPreemptionPending'
    BY <1>1, <1>2 DEF SemInv, KernelConsistent, SemIdleRunnable, SemRunsAwake,
                SemPreemptionPending, Me
  <1>6. SemWaitersParked' /\ SemParkedInTake' /\ NoStrandedWaiter'
    BY <1>1, <1>2 DEF SemInv, SemWaitersParked, SemParkedInTake, NoStrandedWaiter
  <1> QED  BY <1>4, <1>5, <1>6 DEF SemInv

-----------------------------------------------------------------------------
(* Releases and resets *)

\* The first waiter, when there is one.
LEMMA SemFirstWaiter ==
    ASSUME SemInv, semWaiters # << >>
    PROVE  LET h == Head(semWaiters)
           IN  /\ h \in Thread /\ h \in ToSet(semWaiters) /\ h # Idle
               /\ k.stat[h] = "SUSPEND"
               /\ pc[h] \in {"blocked", "wait"} /\ k.err[h] = "EOK"
               /\ h \notin Granted
               /\ Tail(semWaiters) \in Seq(App)
               /\ ToSet(Tail(semWaiters)) = ToSet(semWaiters) \ {h}
               /\ Distinct(Tail(semWaiters))
               /\ semValue = 0
  <1> DEFINE h == Head(semWaiters)
  <1>1. semWaiters \in Seq(App) /\ Distinct(semWaiters) /\ semValue \in Nat
    BY SemTypes DEF SemInv, SemWaitersParked
  <1>2. /\ h \in App /\ h \in ToSet(semWaiters)
        /\ Tail(semWaiters) \in Seq(App)
        /\ ToSet(Tail(semWaiters)) = ToSet(semWaiters) \ {h}
        /\ Distinct(Tail(semWaiters))
    BY <1>1, HeadTailList
  <1> HIDE DEF h
  <1>3. h \in Thread /\ h # Idle /\ k.stat[h] = "SUSPEND"
    BY <1>2 DEF SemInv, SemWaitersParked, App
  <1>4. pc[h] \in {"blocked", "wait"} /\ k.err[h] = "EOK"
    BY <1>3 DEF SemInv, SemParkedInTake
  <1>5. h \notin Granted /\ semValue = 0
    BY <1>1, <1>2 DEF SemInv, NoStrandedWaiter, Granted
  <1> QED  BY <1>2, <1>3, <1>4, <1>5 DEF h

LEMMA Unwrapped ==
    ASSUME NEW n \in Nat, NEW m \in Nat, n < m
    PROVE  n % m = n
  OBVIOUS

\* Counting a token nobody waits for.
LEMMA CountToken ==
    ASSUME SemInv, SemRelease, semWaiters = << >>, UNCHANGED <<k, pc>>
    PROVE  SemInv'
  <1> USE SemTypes
  <1>1. /\ credit < MaxCredit /\ credit' = credit + 1
        /\ semValue' = (semValue + 1) % SemMod /\ UNCHANGED <<k, pc, semWaiters>>
    BY DEF SemRelease
  <1>2. Granted' = Granted
    BY <1>1 DEF Granted
  <1>3. semValue' = semValue + 1
    <2>1. semValue + 1 < SemMod
      BY <1>1 DEF SemInv, Conservation
    <2>2. semValue + 1 \in Nat /\ SemMod \in Nat
      OBVIOUS
    <2>3. (semValue + 1) % SemMod = semValue + 1
      BY ONLY <2>1, <2>2, Unwrapped
    <2> QED  BY ONLY <1>1, <2>3
  <1>4. SemTypeOK'
    BY SMTT(40), <1>1, <1>3 DEF SemInv, SemTypeOK, Conservation
  <1>5. Conservation'
    BY <1>1, <1>2, <1>3 DEF SemInv, Conservation
  <1>6. NoStrandedWaiter'
    BY <1>1 DEF NoStrandedWaiter
  <1>7. KernelConsistent' /\ SemIdleRunnable' /\ SemRunsAwake' /\ SemPreemptionPending'
    BY <1>1 DEF SemInv, KernelConsistent, SemIdleRunnable, SemRunsAwake,
                SemPreemptionPending, Me
  <1>8. SemWaitersParked' /\ SemParkedInTake'
    BY <1>1 DEF SemInv, SemWaitersParked, SemParkedInTake
  <1> QED  BY <1>4, <1>5, <1>6, <1>7, <1>8 DEF SemInv

\* The kernel after rt_ipc_list_resume of the first waiter.
LEMMA ResumeFirst ==
    ASSUME SemInv, semWaiters # << >>
    PROVE  LET h == Head(semWaiters)
               m == Resume(k, h)
           IN  /\ m \in KernelState /\ KernelOK(m)
               /\ m.cur = k.cur /\ m.prio = k.prio /\ m.lock = 0
               /\ m.stat = [k.stat EXCEPT ![h] = IF h = k.cur THEN "RUNNING" ELSE "READY"]
               /\ m.err = k.err /\ m.tmr = k.tmr \ {h}
               /\ m.stat[Idle] \in {"READY", "RUNNING"}
  <1> DEFINE h == Head(semWaiters)
             m == Resume(k, h)
  <1>1. h \in Thread /\ h # Idle /\ k.stat[h] = "SUSPEND"
    BY SemFirstWaiter
  <1>2. /\ k \in KernelState /\ KernelOK(k) /\ k.lock = 0
        /\ k.stat[Idle] \in {"READY", "RUNNING"} /\ k.stat \in [Thread -> Stat]
        /\ Idle \in Thread
    BY SemTypes
  <1> HIDE DEF h
  <1>3. /\ m \in KernelState /\ KernelOK(m)
        /\ m.cur = k.cur /\ m.prio = k.prio /\ m.lock = k.lock
        /\ m.stat = [k.stat EXCEPT ![h] = IF h = k.cur THEN "RUNNING" ELSE "READY"]
        /\ m.err = k.err /\ m.tmr = k.tmr \ {h}
    BY <1>1, <1>2, ResumeEffect
  <1> HIDE DEF m
  <1>4. m.stat[Idle] \in {"READY", "RUNNING"}
    BY <1>1, <1>2, <1>3
  <1> QED  BY <1>2, <1>3, <1>4 DEF m, h

\* Handing the token to the first waiter h, whoever runs afterwards.
LEMMA HandToken ==
    ASSUME SemInv, SemRelease, semWaiters # << >>, pc' \in [Thread -> SemPc],
           \A t \in Thread : pc[t] \in {"blocked", "wait"} \/
                             pc'[t] \in {"blocked", "wait"} => pc'[t] = pc[t],
           k' \in KernelState, KernelConsistent', SemIdleRunnable',
           SemRunsAwake', SemPreemptionPending',
           k'.err = k.err, k'.tmr = k.tmr \ {Head(semWaiters)},
           \A t \in Thread : k'.stat[t] = "SUSPEND" <=>
                             k.stat[t] = "SUSPEND" /\ t # Head(semWaiters)
    PROVE  SemInv'
  <1> USE SemTypes
  <1> DEFINE h == Head(semWaiters)
  <1>1. /\ credit < MaxCredit /\ credit' = credit + 1
        /\ semValue' = semValue /\ semWaiters' = Tail(semWaiters)
    BY DEF SemRelease
  <1>2. /\ h \in Thread /\ h \in ToSet(semWaiters) /\ h # Idle
        /\ k.stat[h] = "SUSPEND"
        /\ pc[h] \in {"blocked", "wait"} /\ k.err[h] = "EOK"
        /\ h \notin Granted
        /\ Tail(semWaiters) \in Seq(App)
        /\ ToSet(Tail(semWaiters)) = ToSet(semWaiters) \ {h}
        /\ Distinct(Tail(semWaiters))
        /\ semValue = 0
    BY SemFirstWaiter
  <1> HIDE DEF h
  <1>3. SemTypeOK'
    BY <1>1, <1>2 DEF SemInv, SemTypeOK
  <1>4. SemWaitersParked'
    BY <1>1, <1>2 DEF SemInv, SemWaitersParked, h
  <1>5. SemParkedInTake'
    BY <1>1, <1>2 DEF SemInv, SemParkedInTake, h
  <1>6. NoStrandedWaiter'
    BY <1>1, <1>2 DEF NoStrandedWaiter
  <1>7. Granted' = Granted \cup {h}
    <2>1. \A t \in Thread : t \in ToSet(semWaiters') <=> t \in ToSet(semWaiters) /\ t # h
      BY <1>1, <1>2
    <2>2. \A t \in Thread : pc'[t] \in {"blocked", "wait"} <=> pc[t] \in {"blocked", "wait"}
      OBVIOUS
    <2> QED  BY <1>2, <2>1, <2>2 DEF Granted
  <1>8. Conservation'
    <2> DEFINE g == Granted
    <2>1. IsFiniteSet(g) /\ h \notin g
      BY <1>2
    <2> HIDE DEF g
    <2>2. Cardinality(g \cup {h}) = Cardinality(g) + 1
      BY <2>1, FS_AddElement
    <2> QED  BY <1>1, <1>7, <2>2 DEF SemInv, Conservation, g
  <1> QED  BY <1>3, <1>4, <1>5, <1>6, <1>8 DEF SemInv

\* rt_sem_release by a thread keeps it.
LEMMA ThreadReleaseStep ==
    ASSUME SemInv, ThreadRelease
    PROVE  SemInv'
  <1> USE SemTypes
  <1>1. CASE semWaiters = << >>
    BY <1>1, CountToken DEF ThreadRelease
  <1>2. CASE semWaiters # << >>
    <2> DEFINE h == Head(semWaiters)
    <2>1. /\ pc[k.cur] = "run" /\ pc' = [pc EXCEPT ![k.cur] = "pend"]
          /\ k' = Resume(k, h) /\ SemRelease
      BY <1>2 DEF ThreadRelease, Me, At, Goto
    <2>2. h \in Thread /\ k.stat[h] = "SUSPEND" /\ pc[h] \in {"blocked", "wait"}
      BY <1>2, SemFirstWaiter
    <2>3. /\ k' \in KernelState /\ KernelOK(k')
          /\ k'.cur = k.cur /\ k'.prio = k.prio /\ k'.lock = 0
          /\ k'.stat = [k.stat EXCEPT ![h] = IF h = k.cur THEN "RUNNING" ELSE "READY"]
          /\ k'.err = k.err /\ k'.tmr = k.tmr \ {h}
          /\ k'.stat[Idle] \in {"READY", "RUNNING"}
      BY <1>2, <2>1, ResumeFirst
    <2> HIDE DEF h
    <2>4. KernelConsistent' /\ SemIdleRunnable' /\ SemPreemptionPending'
      BY <2>1, <2>3 DEF KernelConsistent, SemIdleRunnable, SemPreemptionPending, Me
    <2>5. SemRunsAwake'
      BY <2>1, <2>2, <2>3 DEF SemInv, SemRunsAwake
    <2>6. \A t \in Thread : k'.stat[t] = "SUSPEND" <=> k.stat[t] = "SUSPEND" /\ t # h
      BY <2>2, <2>3
    <2>7. /\ pc' \in [Thread -> SemPc]
          /\ \A t \in Thread : pc[t] \in {"blocked", "wait"} \/
                               pc'[t] \in {"blocked", "wait"} => pc'[t] = pc[t]
      BY <2>1 DEF SemPc
    <2> QED  BY <1>2, <2>1, <2>3, <2>4, <2>5, <2>6, <2>7, HandToken DEF h
  <1> QED  BY <1>1, <1>2

\* rt_sem_release by an interrupt handler keeps it.
LEMMA IsrReleaseStep ==
    ASSUME SemInv, IsrRelease
    PROVE  SemInv'
  <1> USE SemTypes
  <1>1. CASE semWaiters = << >>
    BY <1>1, CountToken DEF IsrRelease
  <1>2. CASE semWaiters # << >>
    <2> DEFINE h == Head(semWaiters)
               m == Resume(k, h)
    <2>1. k' = Schedule(m) /\ SemRelease /\ UNCHANGED pc
      BY <1>2 DEF IsrRelease
    <2>2. h \in Thread /\ k.stat[h] = "SUSPEND"
      BY <1>2, SemFirstWaiter
    <2>3. /\ m \in KernelState /\ KernelOK(m) /\ m.lock = 0
          /\ m.stat = [k.stat EXCEPT ![h] = IF h = k.cur THEN "RUNNING" ELSE "READY"]
          /\ m.err = k.err /\ m.tmr = k.tmr \ {h}
          /\ m.stat[Idle] \in {"READY", "RUNNING"}
      BY <1>2, ResumeFirst
    <2> HIDE DEF m, h
    <2>4. /\ k' \in KernelState /\ KernelConsistent' /\ SemIdleRunnable'
          /\ SemRunsAwake' /\ SemPreemptionPending'
          /\ k'.err = m.err /\ k'.tmr = m.tmr
          /\ \A t \in Thread : k'.stat[t] = "SUSPEND" <=> m.stat[t] = "SUSPEND"
      BY <2>1, <2>3, SemAfterSchedule
    <2>5. \A t \in Thread : k'.stat[t] = "SUSPEND" <=> k.stat[t] = "SUSPEND" /\ t # h
      BY <2>2, <2>3, <2>4
    <2> QED  BY <1>2, <2>1, <2>3, <2>4, <2>5, HandToken DEF h
  <1> QED  BY <1>1, <1>2

\* The start of a reset keeps it.
LEMMA ResetBeginStep ==
    ASSUME SemInv, ResetBegin
    PROVE  SemInv'
  <1> USE SemTypes
  <1>1. /\ pc[k.cur] = "run" /\ pc' = [pc EXCEPT ![k.cur] = "reset"]
        /\ UNCHANGED <<k, semValue, semWaiters, credit>>
    BY DEF ResetBegin, Me, At, Goto
  <1>2. k.stat[k.cur] = "RUNNING"
    BY <1>1 DEF SemInv, SemRunsAwake
  <1>3. SemTypeOK' /\ NoStrandedWaiter'
    BY <1>1 DEF SemInv, SemTypeOK, NoStrandedWaiter, SemPc
  <1>4. KernelConsistent' /\ SemIdleRunnable' /\ SemRunsAwake' /\ SemPreemptionPending'
    BY <1>1, <1>2 DEF SemInv, KernelConsistent, SemIdleRunnable, SemRunsAwake,
                      SemPreemptionPending, Me
  <1>5. SemWaitersParked' /\ SemParkedInTake'
    BY <1>1, <1>2 DEF SemInv, SemWaitersParked, SemParkedInTake
  <1>6. Conservation'
    <2>1. Granted' = Granted
      BY <1>1 DEF Granted
    <2> QED  BY <1>1, <2>1 DEF SemInv, Conservation
  <1> QED  BY <1>3, <1>4, <1>5, <1>6 DEF SemInv

\* One round of the reset loop keeps it.
LEMMA ResetResumeStep ==
    ASSUME SemInv, ResetResume
    PROVE  SemInv'
  <1> USE SemTypes
  <1> DEFINE h == Head(semWaiters)
  <1>1. /\ pc[k.cur] = "reset" /\ semWaiters # << >>
        /\ k' = ResumeError(k, h) /\ semWaiters' = Tail(semWaiters)
        /\ UNCHANGED <<semValue, pc, credit>>
    BY DEF ResetResume, At, Me
  <1>2. /\ h \in Thread /\ h \in ToSet(semWaiters) /\ h # Idle
        /\ k.stat[h] = "SUSPEND"
        /\ pc[h] \in {"blocked", "wait"}
        /\ h \notin Granted
        /\ Tail(semWaiters) \in Seq(App)
        /\ ToSet(Tail(semWaiters)) = ToSet(semWaiters) \ {h}
        /\ Distinct(Tail(semWaiters))
    BY <1>1, SemFirstWaiter
  <1> HIDE DEF h
  <1>3. h # k.cur
    BY <1>1, <1>2
  <1>4. /\ k' \in KernelState /\ KernelOK(k')
        /\ k'.cur = k.cur /\ k'.prio = k.prio /\ k'.lock = k.lock
        /\ k'.stat = [k.stat EXCEPT ![h] = "READY"]
        /\ k'.err = [k.err EXCEPT ![h] = "ERROR"]
        /\ k'.tmr = k.tmr \ {h}
    BY <1>1, <1>2, <1>3, ResumeErrorEffect
  <1>5. SemTypeOK' /\ NoStrandedWaiter'
    BY <1>1, <1>2, <1>4 DEF SemInv, SemTypeOK, NoStrandedWaiter
  <1>6. KernelConsistent' /\ SemIdleRunnable' /\ SemRunsAwake' /\ SemPreemptionPending'
    BY <1>1, <1>2, <1>3, <1>4
       DEF SemInv, KernelConsistent, SemIdleRunnable, SemRunsAwake, SemPreemptionPending, Me
  <1>7. SemWaitersParked'
    BY <1>1, <1>2, <1>4 DEF SemInv, SemWaitersParked
  <1>8. SemParkedInTake'
    BY <1>1, <1>4 DEF SemInv, SemParkedInTake
  <1>9. Conservation'
    <2>1. Granted' = Granted
      <3>1. \A t \in Thread : t \in ToSet(semWaiters') <=> t \in ToSet(semWaiters) /\ t # h
        BY <1>1, <1>2
      <3> QED  BY <1>1, <1>2, <1>4, <3>1 DEF Granted
    <2> QED  BY <1>1, <2>1 DEF SemInv, Conservation
  <1> QED  BY <1>5, <1>6, <1>7, <1>8, <1>9 DEF SemInv

\* The end of a reset keeps it.
LEMMA ResetEndStep ==
    ASSUME SemInv, NEW v \in 0 .. MaxCredit, ResetEnd(v)
    PROVE  SemInv'
  <1> USE SemTypes
  <1>1. /\ pc[k.cur] = "reset" /\ semWaiters = << >>
        /\ credit - semValue + v <= MaxCredit
        /\ semValue' = v /\ credit' = credit - semValue + v
        /\ pc' = [pc EXCEPT ![k.cur] = "pend"]
        /\ UNCHANGED <<k, semWaiters>>
    BY DEF ResetEnd, Me, At, Goto
  <1>2. k.stat[k.cur] = "RUNNING"
    BY <1>1 DEF SemInv, SemRunsAwake
  <1>3. Conservation'
    <2>1. Granted' = Granted
      BY <1>1 DEF Granted
    <2> QED  BY <1>1, <2>1 DEF SemInv, Conservation
  <1>4. SemTypeOK' /\ NoStrandedWaiter'
    <2>1. v \in 0 .. SemMod - 1 /\ credit' \in 0 .. MaxCredit
      BY <1>1 DEF SemInv, Conservation
    <2> QED  BY <1>1, <2>1 DEF SemInv, SemTypeOK, NoStrandedWaiter, SemPc
  <1>5. KernelConsistent' /\ SemIdleRunnable' /\ SemRunsAwake' /\ SemPreemptionPending'
    BY <1>1, <1>2 DEF SemInv, KernelConsistent, SemIdleRunnable, SemRunsAwake,
                      SemPreemptionPending, Me
  <1>6. SemWaitersParked' /\ SemParkedInTake'
    BY <1>1, <1>2 DEF SemInv, SemWaitersParked, SemParkedInTake
  <1> QED  BY <1>3, <1>4, <1>5, <1>6 DEF SemInv

-----------------------------------------------------------------------------
(* The tick interrupt *)

\* The end of a time slice keeps it.
LEMMA SemTickYieldStep ==
    ASSUME SemInv, SemTickYield
    PROVE  SemInv'
  <1> USE SemTypes
  <1>1. k' = Schedule(k) /\ UNCHANGED <<semValue, semWaiters, pc, credit>>
    BY DEF SemTickYield
  <1>2. /\ k' \in KernelState /\ KernelConsistent' /\ SemIdleRunnable'
        /\ SemRunsAwake' /\ SemPreemptionPending'
        /\ k'.err = k.err /\ k'.tmr = k.tmr
        /\ \A u \in Thread : k'.stat[u] = "SUSPEND" <=> k.stat[u] = "SUSPEND"
    BY <1>1, SemAfterSchedule
  <1>3. SemTypeOK' /\ NoStrandedWaiter'
    BY <1>1, <1>2 DEF SemInv, SemTypeOK, NoStrandedWaiter
  <1>4. SemWaitersParked' /\ SemParkedInTake'
    BY <1>1, <1>2 DEF SemInv, SemWaitersParked, SemParkedInTake
  <1>5. Conservation'
    <2>1. Granted' = Granted
      BY <1>1, <1>2 DEF Granted
    <2> QED  BY <1>1, <2>1 DEF SemInv, Conservation
  <1> QED  BY <1>2, <1>3, <1>4, <1>5 DEF SemInv

\* The kernel after rt_thread_timeout and the rt_schedule it ends with.
LEMMA SemTimeoutKernel ==
    ASSUME SemInv, NEW t \in Thread, SemTickTimeout(t)
    PROVE  /\ t \in ToSet(semWaiters) /\ t \in App /\ k.stat[t] = "SUSPEND"
           /\ k' \in KernelState /\ KernelConsistent' /\ SemIdleRunnable'
           /\ SemRunsAwake' /\ SemPreemptionPending'
           /\ k'.prio = k.prio /\ k'.tmr = k.tmr \ {t}
           /\ k'.err = [k.err EXCEPT ![t] = "ETIMEOUT"]
           /\ \A u \in Thread : k'.stat[u] = "SUSPEND" <=> k.stat[u] = "SUSPEND" /\ u # t
  <1> USE SemTypes
  <1> DEFINE m == Wake(k, t, "ETIMEOUT")
  <1>1. t \in k.tmr /\ k' = Schedule(m)
    BY DEF SemTickTimeout, Timeout
  <1>2. t \in ToSet(semWaiters) /\ k.stat[t] = "SUSPEND" /\ t # Idle /\ t \in App
    BY <1>1 DEF SemInv, SemWaitersParked, App
  <1>3. /\ m \in KernelState /\ KernelOK(m)
        /\ m.cur = k.cur /\ m.prio = k.prio /\ m.lock = k.lock
        /\ m.stat = [k.stat EXCEPT ![t] = IF t = k.cur THEN "RUNNING" ELSE "READY"]
        /\ m.err = [k.err EXCEPT ![t] = "ETIMEOUT"]
        /\ m.tmr = k.tmr \ {t}
    <2>1. "ETIMEOUT" \in Err
      BY DEF Err
    <2> QED  BY <1>2, <2>1, WakeEffect
  <1> HIDE DEF m
  <1>4. m.stat[Idle] \in {"READY", "RUNNING"}
    BY <1>2, <1>3
  <1>5. /\ k' \in KernelState /\ KernelConsistent' /\ SemIdleRunnable'
        /\ SemRunsAwake' /\ SemPreemptionPending'
        /\ k'.prio = m.prio /\ k'.err = m.err /\ k'.tmr = m.tmr
        /\ \A u \in Thread : k'.stat[u] = "SUSPEND" <=> m.stat[u] = "SUSPEND"
    BY <1>1, <1>3, <1>4, SemAfterSchedule
  <1>6. \A u \in Thread : k'.stat[u] = "SUSPEND" <=> k.stat[u] = "SUSPEND" /\ u # t
    BY <1>2, <1>3, <1>5
  <1> QED  BY <1>2, <1>3, <1>5, <1>6

\* rt_thread_timeout keeps it.
LEMMA SemTickTimeoutStep ==
    ASSUME SemInv, NEW t \in Thread, SemTickTimeout(t)
    PROVE  SemInv'
  <1> USE SemTypes
  <1>1. semWaiters' = RemoveFirst(semWaiters, t) /\ UNCHANGED <<semValue, pc, credit>>
    BY DEF SemTickTimeout
  <1>2. /\ t \in ToSet(semWaiters) /\ k.stat[t] = "SUSPEND"
        /\ k' \in KernelState /\ KernelConsistent' /\ SemIdleRunnable'
        /\ SemRunsAwake' /\ SemPreemptionPending'
        /\ k'.err = [k.err EXCEPT ![t] = "ETIMEOUT"] /\ k'.tmr = k.tmr \ {t}
        /\ \A u \in Thread : k'.stat[u] = "SUSPEND" <=> k.stat[u] = "SUSPEND" /\ u # t
    BY SemTimeoutKernel
  <1>3. /\ semWaiters' \in Seq(App) /\ Distinct(semWaiters')
        /\ ToSet(semWaiters') = ToSet(semWaiters) \ {t}
    BY <1>1, RemoveFirstList DEF SemInv, SemWaitersParked
  <1>4. SemTypeOK'
    BY <1>1, <1>2, <1>3 DEF SemInv, SemTypeOK
  <1>5. NoStrandedWaiter'
    <2>1. semWaiters # << >>
      BY <1>2, EmptyList
    <2> QED  BY <1>1, <2>1 DEF SemInv, NoStrandedWaiter
  <1>6. SemWaitersParked'
    BY <1>2, <1>3 DEF SemInv, SemWaitersParked
  <1>7. SemParkedInTake'
    BY <1>1, <1>2 DEF SemInv, SemParkedInTake
  <1>8. Conservation'
    <2>1. Granted' = Granted
      <3>1. \A u \in Thread : u \in ToSet(semWaiters') <=> u \in ToSet(semWaiters) /\ u # t
        BY <1>3
      <3> QED  BY <1>1, <1>2, <3>1 DEF Granted
    <2> QED  BY <1>1, <2>1 DEF SemInv, Conservation
  <1> QED  BY <1>2, <1>4, <1>5, <1>6, <1>7, <1>8 DEF SemInv

-----------------------------------------------------------------------------
(* The theorems *)

\* The invariant holds before the first thread is started.
LEMMA SemInvInit == SemInit => SemInv
  <1> SUFFICES ASSUME SemInit PROVE SemInv
    OBVIOUS
  <1>1. /\ k.cur = Idle /\ k.prio = BasePrio /\ k.grp = {} /\ k.tmr = {} /\ k.lock = 0
        /\ k.stat = [t \in Thread |-> IF t = Idle THEN "RUNNING" ELSE "INIT"]
        /\ k.err = [t \in Thread |-> "EOK"] /\ k.rq = [p \in Prio |-> << >>]
        /\ semValue = InitValue /\ semWaiters = << >> /\ credit = InitValue
        /\ pc = [t \in Thread |-> "run"]
    BY DEF SemInit, SectionsInit
  <1>2. k \in KernelState
    BY KernelAssumption, SemaphoreAssumption, SectionsAssumption DEF SemInit, SectionsInit, KernelState, Stat, Err
  <1>3. ToSet(<< >>) = {} /\ Distinct(<< >>)
    BY DEF ToSet, Distinct
  <1>4. SemTypeOK
    BY <1>1, <1>2, SemaphoreAssumption, SectionsAssumption DEF SemTypeOK, SemPc
  <1>5. KernelConsistent
    BY <1>1, <1>3, KernelAssumption
       DEF KernelConsistent, KernelOK, ReadyListed, ReadyDistinct, GroupExact, OneRunning
  <1>6. SemIdleRunnable /\ SemRunsAwake /\ SemPreemptionPending
    BY <1>1, KernelAssumption
       DEF SemIdleRunnable, SemRunsAwake, SemPreemptionPending, TopRuns
  <1>7. SemWaitersParked /\ SemParkedInTake /\ NoStrandedWaiter
    BY <1>1, <1>3 DEF SemWaitersParked, SemParkedInTake, NoStrandedWaiter
  <1>8. Conservation
    <2>1. Granted = {}
      BY <1>1 DEF Granted
    <2>2. semValue + 0 = credit
      BY <1>1, SemaphoreAssumption, SectionsAssumption
    <2> QED  BY <2>1, <2>2, FS_EmptySet DEF Conservation
  <1> QED  BY <1>4, <1>5, <1>6, <1>7, <1>8 DEF SemInv

\* Every step of the semaphore and its interrupts keeps the invariant.
LEMMA SemInvNext == SemInv /\ [SemNext]_semVars => SemInv'
  <1> SUFFICES ASSUME SemInv, [SemNext]_semVars PROVE SemInv'
    OBVIOUS
  <1>1. ASSUME NEW t \in Thread, SemStartup(t) PROVE SemInv'
    BY <1>1, SemStartupStep
  <1>2. ASSUME NEW t \in Thread, SemTickTimeout(t) PROVE SemInv'
    BY <1>2, SemTickTimeoutStep
  <1>3. CASE TakeAvailable
    BY <1>3, TakeAvailableStep
  <1>4. ASSUME NEW time \in Wait, SemTakeSuspend(time) PROVE SemInv'
    BY <1>4, SemTakeSuspendStep
  <1>5. CASE SemCallSchedule
    BY <1>5, SemCallScheduleStep
  <1>6. CASE SemTakeReturn
    BY <1>6, SemTakeReturnStep
  <1>7. CASE ThreadRelease
    BY <1>7, ThreadReleaseStep
  <1>8. CASE ResetBegin
    BY <1>8, ResetBeginStep
  <1>9. CASE ResetResume
    BY <1>9, ResetResumeStep
  <1>10. ASSUME NEW v \in 0 .. MaxCredit, ResetEnd(v) PROVE SemInv'
    BY <1>10, ResetEndStep
  <1>11. CASE IsrRelease
    BY <1>11, IsrReleaseStep
  <1>12. CASE SemTickYield
    BY <1>12, SemTickYieldStep
  <1>13. CASE UNCHANGED semVars
    BY <1>13
       DEF semVars, SemInv, SemTypeOK, KernelConsistent, SemIdleRunnable, SemWaitersParked,
           SemParkedInTake, SemRunsAwake, NoStrandedWaiter, SemPreemptionPending,
           Conservation, Granted, Me
  <1> QED
    BY <1>1, <1>2, <1>3, <1>4, <1>5, <1>6, <1>7, <1>8, <1>9, <1>10, <1>11,
       <1>12, <1>13 DEF SemNext

\* The inductive invariant holds throughout.
THEOREM SemaphoreInvariant == SemSpec => []SemInv
  BY SemInvInit, SemInvNext, PTL DEF SemSpec

\* Every variable keeps its type: the 16-bit value never wraps as long as the
\* tokens in circulation fit the field.
THEOREM SemaphoreTypes == SemSpec => []SemTypeOK
  BY SemaphoreInvariant, PTL DEF SemInv

\* Ready lists, bitmap and thread states of the scheduler agree in every state.
THEOREM SemaphoreKernel == SemSpec => []KernelConsistent
  BY SemaphoreInvariant, PTL DEF SemInv

\* No token is lost or made on the way from a release to the take it wakes.
THEOREM SemaphoreConservation == SemSpec => []Conservation
  BY SemaphoreInvariant, PTL DEF SemInv

\* No waiter sleeps beside an available token.
THEOREM SemaphoreNoLostWakeup == SemSpec => []NoStrandedWaiter
  BY SemaphoreInvariant, PTL DEF SemInv

\* The suspended threads are exactly those on the wait list, once each.
THEOREM SemaphoreWaiters == SemSpec => []SemWaitersParked
  BY SemaphoreInvariant, PTL DEF SemInv

\* A woken thread of higher priority waits at most for the pending rt_schedule.
THEOREM SemaphorePreemption == SemSpec => []SemPreemptionPending
  BY SemaphoreInvariant, PTL DEF SemInv

\* rt_sem_take never returns to a caller that is still suspended.
OnlyAwakeReturn == At("wait") => k.stat[Me] = "RUNNING"

\* The rt_schedule of rt_sem_take comes back only to a thread that was woken.
THEOREM SemaphoreAwake == SemSpec => []OnlyAwakeReturn
  <1>1. SemInv => OnlyAwakeReturn
    BY DEF SemInv, SemRunsAwake, OnlyAwakeReturn, At, Me
  <1> QED  BY <1>1, SemaphoreInvariant, PTL

-----------------------------------------------------------------------------
(* The order of the wait list *)

\* No call of the semaphore changes a priority, so that the order in which
\* waiters joined is the order of their priorities.
Ordered ==
    /\ k.prio = BasePrio
    /\ Flag = "PRIO" => ByUrgency(semWaiters, BasePrio)

\* The order at the start.
LEMMA OrderedInit == SemInit => Ordered
  BY DEF SemInit, SectionsInit, Ordered, ByUrgency

\* The priorities of the waiters can be compared.
LEMMA AppRanks == Ranks(BasePrio, App)
  BY SemaphoreAssumption, SectionsAssumption, KernelAssumption DEF Ranks, App, Prio

\* The first waiter leaves the list.
LEMMA HeadLeavesOrder ==
    ASSUME SemInv, Ordered, semWaiters # << >>
    PROVE  Flag = "PRIO" => ByUrgency(Tail(semWaiters), BasePrio)
  BY SemTypes, TailInOrder DEF Ordered

\* The section of rt_sem_release.
LEMMA ReleaseOrder ==
    ASSUME SemInv, Ordered, SemRelease
    PROVE  Flag = "PRIO" => ByUrgency(semWaiters', BasePrio)
  BY HeadLeavesOrder DEF SemRelease, Ordered

\* Every step keeps the order.
LEMMA OrderedNext ==
    ASSUME SemInv, Ordered, [SemNext]_semVars
    PROVE  Ordered'
  <1> USE SemTypes DEF Ordered
  <1>1. ASSUME NEW t \in Thread, SemStartup(t) PROVE Ordered'
    BY <1>1, SemStartupKernel DEF SemStartup
  <1>2. ASSUME NEW t \in Thread, SemTickTimeout(t) PROVE Ordered'
    <2>1. semWaiters' = RemoveFirst(semWaiters, t)
      BY <1>2 DEF SemTickTimeout
    <2>2. k'.prio = k.prio
      BY <1>2, SemTimeoutKernel
    <2> QED  BY <2>1, <2>2, RemoveFirstInOrder
  <1>3. CASE TakeAvailable
    BY <1>3 DEF TakeAvailable
  <1>4. ASSUME NEW time \in Wait, SemTakeSuspend(time) PROVE Ordered'
    <2> DEFINE c == k.cur
    <2>1. /\ c \in App /\ k' = SuspendOn(k, c, time)
          /\ semWaiters' = EnqueueWaiter(k, semWaiters, c, Flag)
      BY <1>4 DEF SemTakeSuspend, Me
    <2>2. k.stat[c] = "RUNNING"
      BY <1>4 DEF SemTakeSuspend, SemInv, SemRunsAwake, Me, At
    <2>3. k'.prio = k.prio
      BY <2>1, <2>2, SuspendSelf
    <2> HIDE DEF c
    <2>4. Flag = "PRIO" => ByUrgency(semWaiters', BasePrio)
      BY <2>1, AppRanks, EnqueueInOrder
    <2> QED  BY <2>3, <2>4
  <1>5. CASE SemCallSchedule
    BY <1>5, SemAfterSchedule DEF SemCallSchedule
  <1>6. CASE SemTakeReturn
    BY <1>6 DEF SemTakeReturn
  <1>7. CASE ThreadRelease
    <2>1. k'.prio = k.prio
      BY <1>7, ResumeFirst DEF ThreadRelease
    <2> QED  BY <1>7, <2>1, ReleaseOrder DEF ThreadRelease
  <1>8. CASE ResetBegin
    BY <1>8 DEF ResetBegin
  <1>9. CASE ResetResume
    <2> DEFINE h == Head(semWaiters)
    <2>1. /\ semWaiters # << >> /\ k' = ResumeError(k, h) /\ semWaiters' = Tail(semWaiters)
      BY <1>9 DEF ResetResume
    <2>2. h \in Thread /\ k.stat[h] = "SUSPEND"
      BY <2>1, SemFirstWaiter
    <2> HIDE DEF h
    <2>3. k'.prio = k.prio
      BY <2>1, <2>2, ResumeErrorEffect
    <2> QED  BY <2>1, <2>3, HeadLeavesOrder
  <1>10. ASSUME NEW v \in 0 .. MaxCredit, ResetEnd(v) PROVE Ordered'
    BY <1>10 DEF ResetEnd
  <1>11. CASE IsrRelease
    <2> DEFINE m == Resume(k, Head(semWaiters))
    <2>1. k'.prio = k.prio
      <3>1. CASE semWaiters = << >>
        BY <1>11, <3>1 DEF IsrRelease
      <3>2. CASE semWaiters # << >>
        <4>1. k' = Schedule(m)
          BY <1>11, <3>2 DEF IsrRelease
        <4>2. /\ m \in KernelState /\ KernelOK(m) /\ m.lock = 0 /\ m.prio = k.prio
              /\ m.stat[Idle] \in {"READY", "RUNNING"}
          BY <3>2, ResumeFirst
        <4> HIDE DEF m
        <4> QED  BY <4>1, <4>2, SemAfterSchedule
      <3> QED  BY <3>1, <3>2
    <2> QED  BY <1>11, <2>1, ReleaseOrder DEF IsrRelease
  <1>12. CASE SemTickYield
    BY <1>12, SemAfterSchedule DEF SemTickYield
  <1>13. CASE UNCHANGED semVars
    BY <1>13 DEF semVars
  <1> QED
    BY <1>1, <1>2, <1>3, <1>4, <1>5, <1>6, <1>7, <1>8, <1>9, <1>10, <1>11,
       <1>12, <1>13 DEF SemNext

\* The wait list of a semaphore with RT_IPC_FLAG_PRIO is in priority order
\* whatever threads time out of it, are reset and come back.
THEOREM SemaphoreWaitersOrdered == SemSpec => []WaitersOrdered
  <1>1. SemInv /\ Ordered /\ [SemNext]_semVars => Ordered'
    BY OrderedNext
  <1>2. Ordered => WaitersOrdered
    BY DEF Ordered, ByUrgency, WaitersOrdered, IsSorted
  <1> QED
    BY <1>1, <1>2, OrderedInit, SemaphoreInvariant, PTL DEF SemSpec

-----------------------------------------------------------------------------
(* The refinement mapping *)

\* The idle thread calls nothing.
SemIdleOutside == pc[Idle] = "run"

InTake(t) == pc[t] \in {"blocked", "wait"}

\* What the mapping makes of a thread in the states of the invariant.
OutcomeOf(t) ==
    /\ ~ InTake(t) => Outcome[t] = "none"
    /\ t \in ToSet(semWaiters) => InTake(t) /\ Outcome[t] = "waiting"
    /\ InTake(t) /\ t \notin ToSet(semWaiters) =>
          Outcome[t] = IF k.err[t] = "EOK" THEN "granted" ELSE "failed"

SemMapping ==
    /\ Outcome = [t \in App |-> Outcome[t]]
    /\ \A t \in App : OutcomeOf(t)

\* A waiter is inside rt_sem_take, so that the cases of Outcome exclude one
\* another.
LEMMA OutcomeCases == SemInv => SemMapping
  <1> SUFFICES ASSUME SemInv PROVE SemMapping
    OBVIOUS
  <1>1. Outcome = [t \in App |-> Outcome[t]]
    BY DEF Outcome
  <1>2. ASSUME NEW t \in App PROVE OutcomeOf(t)
    <2>1. Outcome[t] = CASE pc[t] \notin {"blocked", "wait"} -> "none"
                         [] t \in ToSet(semWaiters) -> "waiting"
                         [] t \in Granted -> "granted"
                         [] OTHER -> "failed"
      BY DEF Outcome
    <2>2. t \in Thread
      BY DEF App
    <2>3. t \in ToSet(semWaiters) => InTake(t)
      BY <2>2 DEF SemInv, SemWaitersParked, SemParkedInTake, InTake
    <2>4. t \in Granted <=> InTake(t) /\ t \notin ToSet(semWaiters) /\ k.err[t] = "EOK"
      BY <2>2 DEF Granted, InTake
    <2> QED  BY <2>1, <2>3, <2>4 DEF OutcomeOf, InTake
  <1> QED  BY <1>1, <1>2 DEF SemMapping

\* The mapping before and after a step between states of the invariant.
LEMMA SemMappingStep ==
    ASSUME SemInv, SemInv'
    PROVE  SemMapping /\ SemMapping'
  <1>1. SemInv' => SemMapping'
    BY OutcomeCases, PTL
  <1> QED  BY <1>1, OutcomeCases

\* A step that changes neither who is inside rt_sem_take, nor who waits, nor the
\* error number of the others changes no outcome.
LEMMA SameOutcome ==
    ASSUME SemInv, SemInv', UNCHANGED semWaiters,
           \A t \in App : InTake(t)' <=> InTake(t),
           \A t \in App : InTake(t) /\ t \notin ToSet(semWaiters) => k'.err[t] = k.err[t]
    PROVE  Outcome' = Outcome
  <1>1. SemMapping /\ SemMapping'
    BY SemMappingStep
  <1>2. ASSUME NEW t \in App PROVE Outcome'[t] = Outcome[t]
    BY <1>1 DEF SemMapping, OutcomeOf
  <1> QED  BY <1>1, <1>2 DEF SemMapping

\* A step that changes them for the thread c only changes the outcome of c only.
LEMMA OneOutcome ==
    ASSUME SemInv, SemInv', NEW c \in App,
           \A t \in App \ {c} :
               /\ InTake(t)' <=> InTake(t)
               /\ t \in ToSet(semWaiters') <=> t \in ToSet(semWaiters)
               /\ k'.err[t] = k.err[t]
    PROVE  Outcome' = [Outcome EXCEPT ![c] = Outcome'[c]]
  <1>1. SemMapping /\ SemMapping'
    BY SemMappingStep
  <1>2. ASSUME NEW t \in App \ {c} PROVE Outcome'[t] = Outcome[t]
    BY <1>1 DEF SemMapping, OutcomeOf
  <1> QED  BY <1>1, <1>2 DEF SemMapping

\* Nobody waits in the pool exactly when the wait list is empty.
LEMMA NoneWaits ==
    ASSUME SemInv, semWaiters = << >>
    PROVE  \A t \in App : Outcome[t] # "waiting"
  <1>1. SemMapping
    BY OutcomeCases
  <1>2. ToSet(semWaiters) = {}
    BY EmptyList DEF ToSet
  <1> QED  BY <1>1, <1>2 DEF SemMapping, OutcomeOf

-----------------------------------------------------------------------------
(* Steps that the pool does not see *)

\* rt_thread_startup of a thread.
LEMMA StartupMaps ==
    ASSUME SemInv, SemInv', NEW t \in Thread, SemStartup(t)
    PROVE  UNCHANGED <<semValue, Outcome>>
  <1> USE SemTypes
  <1>1. /\ UNCHANGED <<semValue, semWaiters, pc>> /\ k'.err = k.err
    BY SemStartupKernel DEF SemStartup
  <1> QED  BY <1>1, SameOutcome DEF InTake

\* The end of a time slice.
LEMMA TickYieldMaps ==
    ASSUME SemInv, SemInv', SemTickYield
    PROVE  UNCHANGED <<semValue, Outcome>>
  <1>1. UNCHANGED <<semValue, semWaiters, pc>> /\ k'.err = k.err
    BY SemTypes, SemAfterSchedule DEF SemTickYield
  <1> QED  BY <1>1, SameOutcome DEF InTake

\* The rt_schedule of a call: a taker stays inside rt_sem_take.
LEMMA CallScheduleMaps ==
    ASSUME SemInv, SemInv', SemCallSchedule
    PROVE  UNCHANGED <<semValue, Outcome>>
  <1>1. /\ UNCHANGED <<semValue, semWaiters>> /\ k'.err = k.err
        /\ pc[k.cur] \in {"pend", "blocked"}
        /\ pc' = [pc EXCEPT ![k.cur] = IF pc[k.cur] = "pend" THEN "run" ELSE "wait"]
    BY SemTypes, SemAfterSchedule DEF SemCallSchedule, Me, At, Goto
  <1>2. \A t \in App : InTake(t)' <=> InTake(t)
    BY <1>1, SemTypes DEF InTake, App
  <1> QED  BY <1>1, <1>2, SameOutcome

\* The start of a reset.
LEMMA ResetBeginMaps ==
    ASSUME SemInv, SemInv', ResetBegin
    PROVE  UNCHANGED <<semValue, Outcome>>
  <1>1. /\ UNCHANGED <<k, semValue, semWaiters>> /\ pc[k.cur] = "run"
        /\ pc' = [pc EXCEPT ![k.cur] = "reset"]
    BY DEF ResetBegin, Me, At, Goto
  <1>2. \A t \in App : InTake(t)' <=> InTake(t)
    BY <1>1, SemTypes DEF InTake, App
  <1> QED  BY <1>1, <1>2, SameOutcome

-----------------------------------------------------------------------------
(* Takes *)

\* rt_sem_take with a token there.
LEMMA TakeAvailableMaps ==
    ASSUME SemInv, SemInv', TakeAvailable
    PROVE  Pool!Take
  <1>1. semValue > 0 /\ semValue' = semValue - 1 /\ UNCHANGED <<k, semWaiters, pc>>
    BY DEF TakeAvailable
  <1>2. Outcome' = Outcome
    BY <1>1, SameOutcome DEF InTake
  <1> QED  BY <1>1, <1>2 DEF Pool!Take

\* rt_sem_take that suspends its caller.
LEMMA SemTakeSuspendMaps ==
    ASSUME SemInv, SemInv', NEW time \in Wait, SemTakeSuspend(time)
    PROVE  k.cur \in App /\ Pool!Wait(k.cur)
  <1> DEFINE c == k.cur
  <1>1. /\ c \in App /\ pc[c] = "run" /\ semValue = 0 /\ semValue' = semValue
        /\ semWaiters' = EnqueueWaiter(k, semWaiters, c, Flag)
        /\ k' = SuspendOn(k, c, time)
        /\ pc' = [pc EXCEPT ![c] = "blocked"]
    BY DEF SemTakeSuspend, Me, At, Goto
  <1>2. k'.err = [k.err EXCEPT ![c] = "EOK"]
    <2>1. k.stat[c] = "RUNNING"
      BY <1>1 DEF SemInv, SemRunsAwake
    <2> QED  BY <1>1, <2>1, SemTypes, SuspendSelf
  <1> HIDE DEF c
  <1>3. ToSet(semWaiters') = ToSet(semWaiters) \cup {c}
    BY <1>1, SemTypes, EnqueueApp
  <1>4. \A t \in App \ {c} :
            /\ InTake(t)' <=> InTake(t)
            /\ t \in ToSet(semWaiters') <=> t \in ToSet(semWaiters)
            /\ k'.err[t] = k.err[t]
    BY <1>1, <1>2, <1>3, SemTypes DEF InTake, App
  <1>5. Outcome[c] = "none" /\ Outcome'[c] = "waiting"
    BY <1>1, <1>3, SemMappingStep DEF SemMapping, OutcomeOf, InTake
  <1>6. Outcome' = [Outcome EXCEPT ![c] = "waiting"]
    BY <1>1, <1>4, <1>5, OneOutcome
  <1> QED  BY <1>1, <1>5, <1>6 DEF Pool!Wait, c

\* The return of a take that was suspended, with its one outcome.
LEMMA SemTakeReturnMaps ==
    ASSUME SemInv, SemInv', SemIdleOutside, SemTakeReturn
    PROVE  k.cur \in App /\ Pool!Return(k.cur)
  <1> DEFINE c == k.cur
  <1>1. /\ pc[c] = "wait" /\ pc' = [pc EXCEPT ![c] = "run"]
        /\ UNCHANGED <<k, semValue, semWaiters>>
    BY DEF SemTakeReturn, Me, At, Goto
  <1>2. c \in Thread /\ pc \in [Thread -> SemPc]
    BY SemTypes
  <1>3. c \in App
    <2>1. c # Idle
      BY <1>1 DEF SemIdleOutside
    <2> QED  BY <1>2, <2>1 DEF App
  <1>4. c \notin ToSet(semWaiters)
    BY <1>1, <1>2 DEF SemInv, SemRunsAwake, SemWaitersParked
  <1> HIDE DEF c
  <1>5. \A t \in App \ {c} :
            /\ InTake(t)' <=> InTake(t)
            /\ t \in ToSet(semWaiters') <=> t \in ToSet(semWaiters)
            /\ k'.err[t] = k.err[t]
    BY <1>1, <1>2 DEF InTake, App
  <1>6. Outcome[c] \in {"granted", "failed"} /\ Outcome'[c] = "none"
    BY <1>1, <1>2, <1>3, <1>4, SemMappingStep DEF SemMapping, OutcomeOf, InTake
  <1>7. Outcome' = [Outcome EXCEPT ![c] = "none"]
    BY <1>3, <1>5, <1>6, OneOutcome
  <1> QED  BY <1>1, <1>3, <1>6, <1>7 DEF Pool!Return, c

-----------------------------------------------------------------------------
(* Releases *)

\* A token that nobody waits for goes to the pool.
LEMMA CountMaps ==
    ASSUME SemInv, SemInv', SemRelease, semWaiters = << >>, UNCHANGED <<k, pc>>
    PROVE  Pool!Give
  <1>1. /\ credit < MaxCredit /\ semValue' = (semValue + 1) % SemMod
        /\ UNCHANGED <<k, pc, semWaiters>>
    BY DEF SemRelease
  <1>2. semValue < MaxCredit /\ semValue' = semValue + 1
    BY <1>1, SemTypes DEF SemInv, Conservation
  <1>3. Outcome' = Outcome
    BY <1>1, SameOutcome DEF InTake
  <1>4. \A t \in App : Outcome[t] # "waiting"
    BY NoneWaits
  <1> QED  BY <1>2, <1>3, <1>4 DEF Pool!Give

\* The first waiter leaves the wait list.
LEMMA HeadLeaves ==
    ASSUME SemInv, semWaiters # << >>, semWaiters' = Tail(semWaiters)
    PROVE  /\ Head(semWaiters) \in App /\ InTake(Head(semWaiters))
           /\ Head(semWaiters) \in ToSet(semWaiters) /\ Head(semWaiters) \notin ToSet(semWaiters')
           /\ \A t \in App \ {Head(semWaiters)} :
                 t \in ToSet(semWaiters') <=> t \in ToSet(semWaiters)
  <1> DEFINE h == Head(semWaiters)
  <1>1. /\ h \in Thread /\ h # Idle /\ h \in ToSet(semWaiters)
        /\ pc[h] \in {"blocked", "wait"}
        /\ ToSet(Tail(semWaiters)) = ToSet(semWaiters) \ {h}
    BY SemFirstWaiter
  <1> HIDE DEF h
  <1>2. h \in App /\ InTake(h)
    BY <1>1 DEF App, InTake
  <1>3. ToSet(semWaiters') = ToSet(semWaiters) \ {h}
    BY <1>1
  <1> QED  BY <1>1, <1>2, <1>3 DEF h

\* A token is handed to the first waiter.
LEMMA HandMaps ==
    ASSUME SemInv, SemInv', SemRelease, semWaiters # << >>, k'.err = k.err,
           \A t \in App : InTake(t)' <=> InTake(t)
    PROVE  Pool!Give
  <1> DEFINE h == Head(semWaiters)
  <1>1. semValue' = semValue /\ semWaiters' = Tail(semWaiters)
    BY DEF SemRelease
  <1>2. /\ h \in App /\ InTake(h) /\ h \in ToSet(semWaiters) /\ h \notin ToSet(semWaiters')
        /\ \A t \in App \ {h} : t \in ToSet(semWaiters') <=> t \in ToSet(semWaiters)
    BY <1>1, HeadLeaves
  <1>3. k.err[h] = "EOK"
    BY SemFirstWaiter
  <1> HIDE DEF h
  <1>4. Outcome[h] = "waiting" /\ Outcome'[h] = "granted"
    BY <1>2, <1>3, SemMappingStep DEF SemMapping, OutcomeOf
  <1>5. Outcome' = [Outcome EXCEPT ![h] = "granted"]
    BY <1>2, <1>4, OneOutcome
  <1> QED  BY <1>1, <1>2, <1>4, <1>5 DEF Pool!Give

\* rt_sem_release by a thread.
LEMMA ThreadReleaseMaps ==
    ASSUME SemInv, SemInv', ThreadRelease
    PROVE  Pool!Give
  <1>1. CASE semWaiters = << >>
    BY <1>1, CountMaps DEF ThreadRelease
  <1>2. CASE semWaiters # << >>
    <2>1. SemRelease /\ pc[k.cur] = "run" /\ pc' = [pc EXCEPT ![k.cur] = "pend"]
      BY <1>2 DEF ThreadRelease, Me, At, Goto
    <2>2. k'.err = k.err
      BY <1>2, ResumeFirst DEF ThreadRelease
    <2>3. \A t \in App : InTake(t)' <=> InTake(t)
      BY <2>1, SemTypes DEF InTake, App
    <2> QED  BY <1>2, <2>1, <2>2, <2>3, HandMaps
  <1> QED  BY <1>1, <1>2

\* rt_sem_release by an interrupt handler.
LEMMA IsrReleaseMaps ==
    ASSUME SemInv, SemInv', IsrRelease
    PROVE  Pool!Give
  <1>1. CASE semWaiters = << >>
    BY <1>1, CountMaps DEF IsrRelease
  <1>2. CASE semWaiters # << >>
    <2> DEFINE m == Resume(k, Head(semWaiters))
    <2>1. SemRelease /\ UNCHANGED pc /\ k' = Schedule(m)
      BY <1>2 DEF IsrRelease
    <2>2. /\ m \in KernelState /\ KernelOK(m) /\ m.lock = 0 /\ m.err = k.err
          /\ m.stat[Idle] \in {"READY", "RUNNING"}
      BY <1>2, ResumeFirst
    <2> HIDE DEF m
    <2>3. k'.err = k.err
      BY <2>1, <2>2, SemAfterSchedule
    <2> QED  BY <1>2, <2>1, <2>3, HandMaps DEF InTake
  <1> QED  BY <1>1, <1>2

-----------------------------------------------------------------------------
(* Failures and resets *)

\* One round of the reset loop.
LEMMA ResetResumeMaps ==
    ASSUME SemInv, SemInv', ResetResume
    PROVE  \E c \in App : Pool!Fail(c)
  <1> DEFINE h == Head(semWaiters)
  <1>1. /\ pc[k.cur] = "reset" /\ semWaiters # << >>
        /\ k' = ResumeError(k, h) /\ semWaiters' = Tail(semWaiters)
        /\ UNCHANGED <<semValue, pc>>
    BY DEF ResetResume, At, Me
  <1>2. /\ h \in App /\ InTake(h) /\ h \in ToSet(semWaiters) /\ h \notin ToSet(semWaiters')
        /\ \A t \in App \ {h} : t \in ToSet(semWaiters') <=> t \in ToSet(semWaiters)
    BY <1>1, HeadLeaves
  <1>3. h \in Thread /\ k.stat[h] = "SUSPEND"
    BY <1>1, SemFirstWaiter
  <1> HIDE DEF h
  <1>4. k'.err = [k.err EXCEPT ![h] = "ERROR"]
    BY <1>1, <1>3, SemTypes, ResumeErrorEffect
  <1>5. k'.err[h] = "ERROR" /\ \A t \in App \ {h} : k'.err[t] = k.err[t]
    BY <1>3, <1>4, SemTypes DEF App
  <1>6. Outcome[h] = "waiting" /\ Outcome'[h] = "failed"
    BY <1>1, <1>2, <1>5, SemMappingStep DEF SemMapping, OutcomeOf, InTake
  <1>7. Outcome' = [Outcome EXCEPT ![h] = "failed"]
    BY <1>1, <1>2, <1>5, <1>6, OneOutcome DEF InTake
  <1> QED  BY <1>1, <1>2, <1>6, <1>7 DEF Pool!Fail

\* The end of a reset sets a new value when nobody waits any more.
LEMMA ResetEndMaps ==
    ASSUME SemInv, SemInv', NEW v \in 0 .. MaxCredit, ResetEnd(v)
    PROVE  Pool!Reset(v)
  <1>1. /\ semWaiters = << >> /\ semValue' = v /\ UNCHANGED <<k, semWaiters>>
        /\ pc[k.cur] = "reset" /\ pc' = [pc EXCEPT ![k.cur] = "pend"]
    BY DEF ResetEnd, At, Me, Goto
  <1>2. \A t \in App : InTake(t)' <=> InTake(t)
    BY <1>1, SemTypes DEF InTake, App
  <1>3. Outcome' = Outcome
    BY <1>1, <1>2, SameOutcome
  <1>4. \A t \in App : Outcome[t] # "waiting"
    BY <1>1, NoneWaits
  <1> QED  BY <1>1, <1>3, <1>4 DEF Pool!Reset

\* rt_thread_timeout.
LEMMA SemTickTimeoutMaps ==
    ASSUME SemInv, SemInv', NEW t \in Thread, SemTickTimeout(t)
    PROVE  t \in App /\ Pool!Fail(t)
  <1>1. semWaiters' = RemoveFirst(semWaiters, t) /\ UNCHANGED <<semValue, pc>>
    BY DEF SemTickTimeout
  <1>2. /\ t \in ToSet(semWaiters) /\ t \in App
        /\ k'.err = [k.err EXCEPT ![t] = "ETIMEOUT"]
    BY SemTimeoutKernel
  <1>3. ToSet(semWaiters') = ToSet(semWaiters) \ {t}
    BY <1>1, SemTypes, RemoveFirstList DEF SemInv, SemWaitersParked
  <1>4. k'.err[t] = "ETIMEOUT" /\ \A u \in App \ {t} : k'.err[u] = k.err[u]
    BY <1>2, SemTypes DEF App
  <1>5. Outcome[t] = "waiting" /\ Outcome'[t] = "failed"
    BY <1>1, <1>2, <1>3, <1>4, SemMappingStep DEF SemMapping, OutcomeOf, InTake
  <1>6. Outcome' = [Outcome EXCEPT ![t] = "failed"]
    BY <1>1, <1>2, <1>3, <1>4, <1>5, OneOutcome DEF InTake
  <1> QED  BY <1>1, <1>2, <1>5, <1>6 DEF Pool!Fail

-----------------------------------------------------------------------------
(* The theorem *)

\* No step is the idle thread's call.
LEMMA SemIdleOutsideNext == SemInv /\ SemIdleOutside /\ [SemNext]_semVars => SemIdleOutside'
  <1> SUFFICES ASSUME SemInv, SemIdleOutside, [SemNext]_semVars PROVE SemIdleOutside'
    OBVIOUS
  <1> USE SemTypes
  <1>1. CASE UNCHANGED pc
    BY <1>1 DEF SemIdleOutside
  <1>2. CASE pc[k.cur] # "run" /\ \E l \in SemPc : pc' = [pc EXCEPT ![k.cur] = l]
    BY <1>2 DEF SemIdleOutside
  <1>3. CASE k.cur \in App /\ \E l \in SemPc : pc' = [pc EXCEPT ![k.cur] = l]
    BY <1>3 DEF SemIdleOutside, App
  <1> QED
    BY <1>1, <1>2, <1>3
       DEF SemNext, semVars, SemStartup, SemTickTimeout, TakeAvailable, SemTakeSuspend, SemCallSchedule,
           SemTakeReturn, ThreadRelease, ResetBegin, ResetResume, ResetEnd, IsrRelease,
           SemTickYield, Me, At, Goto, SemPc

\* Every step of the code is a step of the pool or one it does not see.
LEMMA SemStepMaps ==
    ASSUME SemInv, SemInv', SemIdleOutside, [SemNext]_semVars
    PROVE  [Pool!PoolNext]_Pool!poolVars
  <1> USE DEF Pool!PoolNext, Pool!poolVars
  <1>1. ASSUME NEW t \in Thread, SemStartup(t) PROVE UNCHANGED <<semValue, Outcome>>
    BY <1>1, StartupMaps
  <1>2. ASSUME NEW t \in Thread, SemTickTimeout(t) PROVE Pool!PoolNext
    BY <1>2, SemTickTimeoutMaps
  <1>3. CASE TakeAvailable
    BY <1>3, TakeAvailableMaps
  <1>4. ASSUME NEW time \in Wait, SemTakeSuspend(time) PROVE Pool!PoolNext
    BY <1>4, SemTakeSuspendMaps
  <1>5. CASE SemCallSchedule
    BY <1>5, CallScheduleMaps
  <1>6. CASE SemTakeReturn
    BY <1>6, SemTakeReturnMaps
  <1>7. CASE ThreadRelease
    BY <1>7, ThreadReleaseMaps
  <1>8. CASE ResetBegin
    BY <1>8, ResetBeginMaps
  <1>9. CASE ResetResume
    BY <1>9, ResetResumeMaps
  <1>10. ASSUME NEW v \in 0 .. MaxCredit, ResetEnd(v) PROVE Pool!PoolNext
    BY <1>10, ResetEndMaps
  <1>11. CASE IsrRelease
    BY <1>11, IsrReleaseMaps
  <1>12. CASE SemTickYield
    BY <1>12, TickYieldMaps
  <1>13. CASE UNCHANGED semVars
    BY <1>13 DEF semVars, Outcome, Granted
  <1> QED
    BY <1>1, <1>2, <1>3, <1>4, <1>5, <1>6, <1>7, <1>8, <1>9, <1>10, <1>11,
       <1>12, <1>13 DEF SemNext

\* At the start the pool has the initial value and nobody calls.
LEMMA SemInitMaps == SemInit => Pool!PoolInit /\ SemIdleOutside
  <1> SUFFICES ASSUME SemInit PROVE Pool!PoolInit /\ SemIdleOutside
    OBVIOUS
  <1>1. semValue = InitValue /\ \A t \in Thread : pc[t] = "run"
    BY DEF SemInit, SectionsInit
  <1>2. SemMapping
    BY SemInvInit, OutcomeCases
  <1>3. \A t \in App : Outcome[t] = "none"
    BY <1>1, <1>2 DEF SemMapping, OutcomeOf, InTake, App
  <1> QED
    BY <1>1, <1>2, <1>3, KernelAssumption DEF Pool!PoolInit, SemMapping, SemIdleOutside

\* Whatever takes, releases, resets, timeouts and interrupts do, callers see the
\* abstract semaphore: one outcome for each wait, and no token in the pool as
\* long as anybody waits for it.
THEOREM SemaphoreImplementsPool == SemSpec => ImplementsPool
  <1>1. SemSpec => []SemIdleOutside
    BY SemInitMaps, SemIdleOutsideNext, SemaphoreInvariant, PTL DEF SemSpec
  <1>2. SemInv /\ SemInv' /\ SemIdleOutside /\ [SemNext]_semVars => [Pool!PoolNext]_Pool!poolVars
    BY SemStepMaps
  <1> QED
    BY <1>1, <1>2, SemInitMaps, SemaphoreInvariant, PTL
       DEF SemSpec, ImplementsPool, Pool!PoolSpec

-----------------------------------------------------------------------------
(* Mutex: the inductive invariant *)

\* The application never locks the scheduler around these calls, and nothing
\* suspends the idle thread.
IdleRunnable == k.lock = 0 /\ k.stat[Idle] \in {"READY", "RUNNING"}

\* A thread on a wait list is inside rt_mutex_take and has no error number yet.
ParkedInTake ==
    \A t \in Parked : pc[t] \in {"blocked", "wait"} /\ k.err[t] = "EOK"

\* Only between its suspension and its rt_schedule does a suspended thread run.
RunsAwake == k.stat[k.cur] = "RUNNING" \/ pc[k.cur] \in {"blocked", "sleep"}

MutexInv ==
    /\ TypeOK /\ KernelConsistent /\ IdleRunnable
    /\ WaitersParked /\ ParkedInTake /\ RunsAwake
    /\ LockConsistent /\ OutcomeTrue /\ PreemptionPending

-----------------------------------------------------------------------------
(* Facts the actions share *)

\* What TypeOK and the invariants of the scheduler say of the parts of the state.
LEMMA Types ==
    ASSUME MutexInv
    PROVE  /\ k \in KernelState /\ KernelOK(k) /\ k.lock = 0
           /\ k.cur \in Thread /\ k.stat \in [Thread -> Stat]
           /\ k.err \in [Thread -> Err] /\ k.tmr \in SUBSET Thread
           /\ k.prio \in [Thread -> Prio]
           /\ k.stat[Idle] \in {"READY", "RUNNING"} /\ Idle \in Thread
           /\ k.stat[k.cur] # "READY"
           /\ value \in [Mutex -> 0 .. 1] /\ hold \in [Mutex -> 0 .. MaxHold]
           /\ owner \in [Mutex -> App \cup {None}]
           /\ orig \in [Mutex -> Prio \cup {None}]
           /\ waiters \in [Mutex -> Seq(App)]
           /\ pc \in [Thread -> Pc]
           /\ App \subseteq Thread /\ Idle \notin App
           /\ None \notin Thread /\ None \notin Prio
  <1>1. /\ k \in KernelState /\ k.cur \in Thread /\ k.stat \in [Thread -> Stat]
        /\ k.err \in [Thread -> Err] /\ k.tmr \in SUBSET Thread
        /\ k.prio \in [Thread -> Prio]
    BY DEF MutexInv, TypeOK, KernelState
  <1>2. KernelOK(k) /\ k.stat[k.cur] # "READY"
    BY DEF MutexInv, KernelConsistent, KernelOK, OneRunning
  <1>3. k.lock = 0 /\ k.stat[Idle] \in {"READY", "RUNNING"}
    BY DEF MutexInv, IdleRunnable
  <1>4. /\ value \in [Mutex -> 0 .. 1] /\ hold \in [Mutex -> 0 .. MaxHold]
        /\ owner \in [Mutex -> App \cup {None}] /\ orig \in [Mutex -> Prio \cup {None}]
        /\ waiters \in [Mutex -> Seq(App)] /\ pc \in [Thread -> Pc]
    BY DEF MutexInv, TypeOK
  <1> QED
    BY <1>1, <1>2, <1>3, <1>4, KernelAssumption, MutexAssumption, SectionsAssumption DEF App

\* A suspended thread waits for one mutex or sleeps, and is not the idle thread.
LEMMA SuspendedNotIdle ==
    ASSUME MutexInv, NEW t \in Thread, k.stat[t] = "SUSPEND"
    PROVE  t \in App /\ t # Idle
  BY Types DEF App

\* What the rt_schedule at the end of a section leaves of the invariant.
LEMMA AfterSchedule ==
    ASSUME NEW m \in KernelState, KernelOK(m), m.lock = 0,
           m.stat[Idle] \in {"READY", "RUNNING"},
           Reschedule(m)
    PROVE  /\ k' \in KernelState /\ KernelConsistent' /\ IdleRunnable'
           /\ RunsAwake' /\ PreemptionPending' /\ lowered' \in BOOLEAN
           /\ k'.prio = m.prio /\ k'.err = m.err /\ k'.tmr = m.tmr
           /\ \A t \in Thread : k'.stat[t] = "SUSPEND" <=> m.stat[t] = "SUSPEND"
  <1>1. k' = Schedule(m) /\ lowered' = FALSE
    BY DEF Reschedule
  <1> QED
    BY <1>1, ScheduleWithIdle
       DEF KernelConsistent, IdleRunnable, RunsAwake, PreemptionPending, Me

\* A step that neither parks nor wakes a thread and leaves the mutexes alone.
LEMMA SameWaits ==
    ASSUME MutexInv, UNCHANGED lockVars,
           k'.err = k.err, k'.tmr = k.tmr,
           \A t \in Thread : k'.stat[t] = "SUSPEND" <=> k.stat[t] = "SUSPEND",
           \A t \in Thread : pc'[t] \in {"blocked", "wait"} <=> pc[t] \in {"blocked", "wait"}
    PROVE  WaitersParked' /\ ParkedInTake' /\ LockConsistent' /\ OutcomeTrue'
  <1>1. /\ UNCHANGED <<value, owner, orig, hold, waiters>>
        /\ Parked' = Parked /\ Parked \subseteq Thread
    BY DEF lockVars, Parked
  <1>2. WaitersParked' /\ LockConsistent'
    BY <1>1 DEF MutexInv, WaitersParked, LockConsistent
  <1>3. ParkedInTake' /\ OutcomeTrue'
    BY <1>1 DEF MutexInv, ParkedInTake, OutcomeTrue
  <1> QED  BY <1>2, <1>3

-----------------------------------------------------------------------------
(* Steps that leave the wait lists and the owners alone *)

\* The kernel after rt_thread_startup of a thread.
LEMMA StartupKernel ==
    ASSUME MutexInv, NEW t \in Thread, Startup(t)
    PROVE  /\ k' \in KernelState /\ KernelConsistent' /\ IdleRunnable'
           /\ RunsAwake' /\ PreemptionPending' /\ lowered' \in BOOLEAN
           /\ k'.prio = k.prio /\ k'.err = k.err /\ k'.tmr = k.tmr
           /\ \A u \in Thread : k'.stat[u] = "SUSPEND" <=> k.stat[u] = "SUSPEND"
  <1> USE Types
  <1> DEFINE i == [k EXCEPT !.stat[t] = "SUSPEND"]
             m == Resume(i, t)
  <1>1. k.stat[t] = "INIT" /\ Reschedule(m)
    BY DEF Startup
  <1>2. /\ i \in KernelState /\ i.cur = k.cur /\ i.prio = k.prio /\ i.rq = k.rq
        /\ i.grp = k.grp /\ i.err = k.err /\ i.tmr = k.tmr /\ i.lock = k.lock
        /\ i.stat = [k.stat EXCEPT ![t] = "SUSPEND"]
    BY DEF KernelState, Stat
  <1> HIDE DEF i
  <1>3. KernelOK(i)
    <2>1. ReadyListed(i) /\ OneRunning(i)
      BY <1>1, <1>2 DEF KernelOK, ReadyListed, OneRunning
    <2> QED  BY <1>2, <2>1 DEF KernelOK, ReadyDistinct, GroupExact
  <1>4. /\ m \in KernelState /\ KernelOK(m)
        /\ m.cur = k.cur /\ m.prio = k.prio /\ m.lock = k.lock
        /\ m.stat = [i.stat EXCEPT ![t] = IF t = k.cur THEN "RUNNING" ELSE "READY"]
        /\ m.err = k.err /\ m.tmr = k.tmr \ {t}
    <2>1. i.stat[t] = "SUSPEND"
      BY <1>2
    <2> QED  BY <1>2, <1>3, <2>1, ResumeEffect
  <1> HIDE DEF m
  <1>5. /\ m.stat[Idle] \in {"READY", "RUNNING"}
        /\ \A u \in Thread : m.stat[u] = "SUSPEND" <=> k.stat[u] = "SUSPEND"
    BY <1>1, <1>2, <1>4
  <1>6. k.tmr \ {t} = k.tmr
    BY <1>1 DEF MutexInv, WaitersParked
  <1>7. /\ k' \in KernelState /\ KernelConsistent' /\ IdleRunnable'
        /\ RunsAwake' /\ PreemptionPending' /\ lowered' \in BOOLEAN
        /\ k'.prio = m.prio /\ k'.err = m.err /\ k'.tmr = m.tmr
        /\ \A u \in Thread : k'.stat[u] = "SUSPEND" <=> m.stat[u] = "SUSPEND"
    BY <1>1, <1>4, <1>5, AfterSchedule
  <1> QED  BY <1>4, <1>5, <1>6, <1>7

\* rt_thread_startup keeps the invariant.
LEMMA StartupStep ==
    ASSUME MutexInv, NEW t \in Thread, Startup(t)
    PROVE  MutexInv'
  <1>1. UNCHANGED lockVars /\ UNCHANGED pc
    BY DEF Startup
  <1>2. TypeOK'
    BY <1>1, StartupKernel DEF MutexInv, TypeOK, lockVars
  <1>3. WaitersParked' /\ ParkedInTake' /\ LockConsistent' /\ OutcomeTrue'
    BY <1>1, StartupKernel, SameWaits
  <1> QED  BY <1>2, <1>3, StartupKernel DEF MutexInv

\* The end of a time slice keeps it.
LEMMA TickYieldStep ==
    ASSUME MutexInv, TickYield
    PROVE  MutexInv'
  <1>1. Reschedule(k) /\ UNCHANGED lockVars /\ UNCHANGED pc
    BY DEF TickYield
  <1>2. /\ k' \in KernelState /\ KernelConsistent' /\ IdleRunnable'
        /\ RunsAwake' /\ PreemptionPending' /\ lowered' \in BOOLEAN
        /\ k'.prio = k.prio /\ k'.err = k.err /\ k'.tmr = k.tmr
        /\ \A t \in Thread : k'.stat[t] = "SUSPEND" <=> k.stat[t] = "SUSPEND"
    BY <1>1, Types, AfterSchedule
  <1>3. TypeOK'
    BY <1>1, <1>2 DEF MutexInv, TypeOK, lockVars
  <1>4. WaitersParked' /\ ParkedInTake' /\ LockConsistent' /\ OutcomeTrue'
    BY <1>1, <1>2, SameWaits
  <1> QED  BY <1>2, <1>3, <1>4 DEF MutexInv

\* The rt_schedule of a call keeps it.
LEMMA CallScheduleStep ==
    ASSUME MutexInv, CallSchedule
    PROVE  MutexInv'
  <1> USE Types
  <1>1. /\ Reschedule(k) /\ UNCHANGED lockVars
        /\ pc[k.cur] \in {"pend", "blocked", "sleep"}
        /\ pc' = [pc EXCEPT ![k.cur] = CASE pc[k.cur] = "pend" -> "run"
                                         [] pc[k.cur] = "blocked" -> "wait"
                                         [] OTHER -> "asleep"]
    BY DEF CallSchedule, Me, At, Goto
  <1>2. /\ k' \in KernelState /\ KernelConsistent' /\ IdleRunnable'
        /\ RunsAwake' /\ PreemptionPending' /\ lowered' \in BOOLEAN
        /\ k'.prio = k.prio /\ k'.err = k.err /\ k'.tmr = k.tmr
        /\ \A t \in Thread : k'.stat[t] = "SUSPEND" <=> k.stat[t] = "SUSPEND"
    BY <1>1, AfterSchedule
  <1>3. /\ pc' \in [Thread -> Pc]
        /\ \A t \in Thread : pc'[t] \in {"blocked", "wait"} <=> pc[t] \in {"blocked", "wait"}
    BY <1>1 DEF Pc
  <1>4. TypeOK'
    BY <1>1, <1>2, <1>3 DEF MutexInv, TypeOK, lockVars
  <1>5. WaitersParked' /\ ParkedInTake' /\ LockConsistent' /\ OutcomeTrue'
    BY <1>1, <1>2, <1>3, SameWaits
  <1> QED  BY <1>2, <1>4, <1>5 DEF MutexInv

\* The kernel after the suspension and the start of the timer in rt_thread_sleep.
LEMMA SleepKernel ==
    ASSUME MutexInv, Sleep
    PROVE  LET c == k.cur
           IN  /\ c \in App /\ c \in Thread /\ k.stat[c] = "RUNNING"
               /\ k' \in KernelState /\ KernelOK(k')
               /\ k'.cur = c /\ k'.prio = k.prio /\ k'.err = k.err /\ k'.lock = 0
               /\ k'.stat = [k.stat EXCEPT ![c] = "SUSPEND"] /\ k'.tmr = k.tmr \cup {c}
  <1> USE Types
  <1> DEFINE c == k.cur
             s == Suspend(k, c)
  <1>1. c \in App /\ pc[c] = "run" /\ k' = StartTimer(s, c)
    BY DEF Sleep, Me, At
  <1>2. k.stat[c] = "RUNNING" /\ c \in Thread
    BY <1>1 DEF MutexInv, RunsAwake
  <1>3. /\ s \in KernelState /\ KernelOK(s)
        /\ s.cur = k.cur /\ s.prio = k.prio /\ s.err = k.err /\ s.lock = k.lock
        /\ s.stat = [k.stat EXCEPT ![c] = "SUSPEND"] /\ s.tmr = k.tmr \ {c}
    BY <1>2, SuspendEffect
  <1> HIDE DEF s
  <1>4. /\ k' \in KernelState /\ KernelOK(k')
        /\ k'.cur = s.cur /\ k'.prio = s.prio /\ k'.err = s.err /\ k'.lock = s.lock
        /\ k'.stat = s.stat /\ k'.tmr = s.tmr \cup {c}
    BY <1>1, <1>2, <1>3, StartTimerEffect
  <1>5. s.tmr \cup {c} = k.tmr \cup {c}
    BY <1>3
  <1> QED  BY <1>1, <1>2, <1>3, <1>4, <1>5

\* The thread timer and the suspension of rt_thread_sleep keep it.
LEMMA SleepStep ==
    ASSUME MutexInv, Sleep
    PROVE  MutexInv'
  <1> USE Types
  <1> DEFINE c == k.cur
  <1>1. /\ c \in App /\ pc[c] = "run" /\ pc' = [pc EXCEPT ![c] = "sleep"]
        /\ UNCHANGED lockVars /\ UNCHANGED lowered
    BY DEF Sleep, Me, At, Goto
  <1>2. k.stat[c] = "RUNNING" /\ c \in Thread
    BY SleepKernel
  <1>3. c \notin Parked
    BY <1>2 DEF MutexInv, WaitersParked
  <1>4. /\ k' \in KernelState /\ KernelOK(k')
        /\ k'.cur = c /\ k'.prio = k.prio /\ k'.err = k.err /\ k'.lock = 0
        /\ k'.stat = [k.stat EXCEPT ![c] = "SUSPEND"] /\ k'.tmr = k.tmr \cup {c}
    BY SleepKernel
  <1> HIDE DEF c
  <1>5. pc' \in [Thread -> Pc]
    BY <1>1 DEF Pc
  <1>6. TypeOK'
    BY <1>1, <1>4, <1>5 DEF MutexInv, TypeOK, lockVars
  <1>7. KernelConsistent' /\ IdleRunnable' /\ RunsAwake' /\ PreemptionPending'
    BY <1>1, <1>2, <1>4 DEF KernelConsistent, IdleRunnable, RunsAwake, PreemptionPending, Me
  <1>8. /\ UNCHANGED <<value, owner, orig, hold, waiters>>
        /\ Parked' = Parked /\ Parked \subseteq Thread
    BY <1>1 DEF lockVars, Parked
  <1>9. WaitersParked' /\ LockConsistent'
    <2>1. \A u \in Thread : k'.stat[u] = "SUSPEND" <=> k.stat[u] = "SUSPEND" \/ u = c
      BY <1>2, <1>4
    <2>2. Parked' \cup k'.tmr = {u \in Thread : k'.stat[u] = "SUSPEND"}
      BY <1>2, <1>4, <1>8, <2>1 DEF MutexInv, WaitersParked
    <2>3. LockConsistent'
      BY <1>8 DEF MutexInv, LockConsistent
    <2> QED  BY <1>8, <2>2, <2>3 DEF MutexInv, WaitersParked
  <1>10. ParkedInTake' /\ OutcomeTrue'
    BY <1>1, <1>2, <1>3, <1>4, <1>8 DEF MutexInv, ParkedInTake, OutcomeTrue
  <1> QED  BY <1>4, <1>6, <1>7, <1>9, <1>10 DEF MutexInv

\* The return of rt_mutex_take keeps it: the caller has run since it was woken.
LEMMA TakeReturnStep ==
    ASSUME MutexInv, TakeReturn
    PROVE  MutexInv'
  <1> USE Types
  <1>1. /\ pc[k.cur] = "wait" /\ pc' = [pc EXCEPT ![k.cur] = "run"]
        /\ UNCHANGED <<k, value, owner, orig, hold, waiters, lowered>>
    BY DEF TakeReturn, Me, At, Goto, lockVars
  <1>2. k.stat[k.cur] = "RUNNING" /\ k.cur \notin Parked /\ Parked' = Parked
    BY <1>1 DEF MutexInv, RunsAwake, WaitersParked, Parked
  <1>3. TypeOK'
    BY <1>1 DEF MutexInv, TypeOK, Pc
  <1>4. KernelConsistent' /\ IdleRunnable' /\ RunsAwake' /\ PreemptionPending'
    BY <1>1, <1>2 DEF MutexInv, KernelConsistent, IdleRunnable, RunsAwake,
                      PreemptionPending, Me
  <1>5. WaitersParked' /\ LockConsistent'
    BY <1>1, <1>2 DEF MutexInv, WaitersParked, LockConsistent
  <1>6. ParkedInTake' /\ OutcomeTrue'
    BY <1>1, <1>2 DEF MutexInv, ParkedInTake, OutcomeTrue, Parked
  <1> QED  BY <1>3, <1>4, <1>5, <1>6 DEF MutexInv

\* A section that only sets the error number of a running thread outside
\* rt_mutex_take leaves the kernel's part of the invariant as it is.
LEMMA SetError ==
    ASSUME MutexInv, NEW e \in Err, pc[k.cur] \notin {"pend", "blocked", "sleep"},
           pc'[k.cur] \notin {"blocked", "wait", "pend", "sleep"},
           \A t \in Thread \ {k.cur} : pc'[t] = pc[t],
           UNCHANGED <<waiters, lowered>>,
           k' = [k EXCEPT !.err[k.cur] = e]
    PROVE  /\ k' \in KernelState /\ KernelConsistent' /\ IdleRunnable'
           /\ RunsAwake' /\ PreemptionPending'
           /\ WaitersParked' /\ ParkedInTake'
           /\ k'.cur = k.cur /\ k'.stat = k.stat /\ k'.prio = k.prio
           /\ k'.err = [k.err EXCEPT ![k.cur] = e]
  <1> USE Types
  <1>1. /\ k' \in KernelState
        /\ k'.cur = k.cur /\ k'.stat = k.stat /\ k'.prio = k.prio
        /\ k'.rq = k.rq /\ k'.grp = k.grp /\ k'.tmr = k.tmr /\ k'.lock = k.lock
        /\ k'.err = [k.err EXCEPT ![k.cur] = e]
    BY DEF KernelState
  <1>2. KernelOK(k')
    BY <1>1, SameQueues
  <1>3. /\ k.stat[k.cur] = "RUNNING" /\ k.cur \notin Parked
        /\ Parked' = Parked /\ Parked \subseteq Thread
    BY DEF MutexInv, RunsAwake, WaitersParked, Parked
  <1>4. KernelConsistent' /\ IdleRunnable' /\ RunsAwake'
    BY <1>1, <1>2, <1>3 DEF KernelConsistent, IdleRunnable, RunsAwake
  <1>5. PreemptionPending'
    BY <1>1 DEF MutexInv, PreemptionPending, TopRuns, Me
  <1>6. WaitersParked'
    BY <1>1, <1>3 DEF MutexInv, WaitersParked
  <1>7. ParkedInTake'
    BY <1>1, <1>3 DEF MutexInv, ParkedInTake
  <1> QED  BY <1>1, <1>4, <1>5, <1>6, <1>7

\* The return of rt_thread_sleep keeps it.
LEMMA SleepReturnStep ==
    ASSUME MutexInv, SleepReturn
    PROVE  MutexInv'
  <1> USE Types
  <1> DEFINE c == k.cur
             e == IF k.err[c] = "ETIMEOUT" THEN "EOK" ELSE k.err[c]
  <1>1. /\ pc[c] = "asleep" /\ pc' = [pc EXCEPT ![c] = "run"]
        /\ k' = IF k.err[c] = "ETIMEOUT" THEN [k EXCEPT !.err[c] = "EOK"] ELSE k
        /\ UNCHANGED <<value, owner, orig, hold, waiters, lowered>>
    BY DEF SleepReturn, Me, At, Goto, lockVars
  <1>2. e \in Err /\ pc'[c] = "run" /\ \A t \in Thread \ {c} : pc'[t] = pc[t]
    BY <1>1 DEF Err
  <1>3. k' = [k EXCEPT !.err[c] = e]
    <2>1. [k EXCEPT !.err = [k.err EXCEPT ![c] = k.err[c]]] = k
      <3>1. [k.err EXCEPT ![c] = k.err[c]] = k.err
        OBVIOUS
      <3>2. [k EXCEPT !.err = k.err] = k
        BY DEF KernelState
      <3> QED  BY <3>1, <3>2
    <2>2. CASE k.err[c] = "ETIMEOUT"
      BY <1>1, <2>2
    <2>3. CASE k.err[c] # "ETIMEOUT"
      BY <1>1, <2>1, <2>3
    <2> QED  BY <2>2, <2>3
  <1> HIDE DEF e
  <1>4. /\ k' \in KernelState /\ KernelConsistent' /\ IdleRunnable'
        /\ RunsAwake' /\ PreemptionPending'
        /\ WaitersParked' /\ ParkedInTake'
        /\ k'.stat = k.stat /\ k'.err = [k.err EXCEPT ![c] = e]
    BY <1>1, <1>2, <1>3, SetError
  <1>5. TypeOK'
    BY <1>1, <1>4 DEF MutexInv, TypeOK, Pc
  <1>6. LockConsistent'
    BY <1>1 DEF MutexInv, LockConsistent
  <1>7. OutcomeTrue'
    BY <1>1, <1>2, <1>4 DEF MutexInv, OutcomeTrue
  <1> QED  BY <1>4, <1>5, <1>6, <1>7 DEF MutexInv

-----------------------------------------------------------------------------
(* Takes and releases without a waiter *)

\* Within the bound the 8-bit hold counts the takes.
LEMMA HoldCounts ==
    ASSUME NEW x \in 0 .. MaxHold - 1
    PROVE  (x + 1) % HoldMod = x + 1
  <1>1. x + 1 \in Nat /\ HoldMod \in Nat \ {0} /\ x + 1 < HoldMod
    BY MutexAssumption, SectionsAssumption
  <1> QED  BY <1>1

\* A recursive take keeps it: the 8-bit hold does not wrap within the bound.
LEMMA TakeAgainStep ==
    ASSUME MutexInv, NEW m \in Mutex, TakeAgain(m)
    PROVE  MutexInv'
  <1> USE Types
  <1>1. /\ pc[k.cur] = "run" /\ owner[m] = k.cur /\ hold[m] < MaxHold
        /\ hold' = [hold EXCEPT ![m] = (hold[m] + 1) % HoldMod]
        /\ k' = [k EXCEPT !.err[k.cur] = "EOK"]
        /\ UNCHANGED <<value, owner, orig, waiters, pc, lowered>>
    BY DEF TakeAgain, Me, At
  <1>2. "EOK" \in Err /\ pc'[k.cur] = "run" /\ \A t \in Thread : pc'[t] = pc[t]
    BY <1>1 DEF Err
  <1>3. /\ k' \in KernelState /\ KernelConsistent' /\ IdleRunnable'
        /\ RunsAwake' /\ PreemptionPending'
        /\ WaitersParked' /\ ParkedInTake'
        /\ k'.stat = k.stat /\ k'.err = [k.err EXCEPT ![k.cur] = "EOK"]
    BY <1>1, <1>2, SetError
  <1>4. hold[m] \in 1 .. MaxHold - 1 /\ (hold[m] + 1) % HoldMod = hold[m] + 1
    <2>1. hold[m] \in 0 .. MaxHold /\ MaxHold \in Nat /\ hold[m] # 0
      BY <1>1, MutexAssumption, SectionsAssumption DEF MutexInv, LockConsistent
    <2>2. hold[m] \in 0 .. MaxHold - 1 /\ hold[m] \in 1 .. MaxHold - 1
      BY <1>1, <2>1
    <2> QED  BY <2>2, HoldCounts
  <1>5. hold' \in [Mutex -> 0 .. MaxHold] /\ hold'[m] # 0
        /\ \A n \in Mutex : hold'[n] = 0 <=> hold[n] = 0
    BY <1>1, <1>4, MutexAssumption, SectionsAssumption
  <1>6. TypeOK'
    BY <1>1, <1>3, <1>5 DEF MutexInv, TypeOK
  <1>7. LockConsistent'
    BY <1>1, <1>5 DEF MutexInv, LockConsistent
  <1>8. OutcomeTrue'
    BY <1>1, <1>2, <1>3 DEF MutexInv, OutcomeTrue
  <1> QED  BY <1>3, <1>6, <1>7, <1>8 DEF MutexInv

\* The take of a free mutex keeps it.
LEMMA TakeFreeStep ==
    ASSUME MutexInv, NEW m \in Mutex, TakeFree(m)
    PROVE  MutexInv'
  <1> USE Types
  <1> DEFINE c == k.cur
  <1>1. /\ c \in App /\ pc[c] = "run" /\ value[m] > 0
        /\ value' = [value EXCEPT ![m] = value[m] - 1]
        /\ owner' = [owner EXCEPT ![m] = c]
        /\ orig' = [orig EXCEPT ![m] = k.prio[c]]
        /\ hold' = [hold EXCEPT ![m] = (hold[m] + 1) % HoldMod]
        /\ k' = [k EXCEPT !.err[c] = "EOK"]
        /\ UNCHANGED <<waiters, pc, lowered>>
    BY DEF TakeFree, Me, At
  <1>2. "EOK" \in Err /\ pc'[c] = "run" /\ \A t \in Thread : pc'[t] = pc[t]
    BY <1>1 DEF Err
  <1>3. /\ k' \in KernelState /\ KernelConsistent' /\ IdleRunnable'
        /\ RunsAwake' /\ PreemptionPending'
        /\ WaitersParked' /\ ParkedInTake'
        /\ k'.stat = k.stat /\ k'.err = [k.err EXCEPT ![c] = "EOK"]
    BY <1>1, <1>2, SetError
  <1>4. /\ value[m] = 1 /\ owner[m] = None /\ hold[m] = 0 /\ waiters[m] = << >>
        /\ (hold[m] + 1) % HoldMod = 1
    <2>1. value[m] = 1
      BY <1>1
    <2>2. owner[m] = None /\ hold[m] = 0 /\ waiters[m] = << >>
      BY <2>1 DEF MutexInv, LockConsistent
    <2>3. 0 \in 0 .. MaxHold - 1
      BY MutexAssumption, SectionsAssumption
    <2>4. (0 + 1) % HoldMod = 0 + 1
      BY <2>3, HoldCounts
    <2> QED  BY <2>1, <2>2, <2>4
  <1>5. /\ value' = [value EXCEPT ![m] = 0] /\ hold' = [hold EXCEPT ![m] = 1]
        /\ k.prio[c] \in Prio /\ k.prio[c] # None /\ c # None
    <2>1. value[m] - 1 = 0 /\ c \in Thread
      BY <1>1, <1>4
    <2> QED  BY <1>1, <1>4, <2>1
  <1>6. TypeOK'
    <2>1. 0 \in 0 .. 1 /\ 1 \in 0 .. MaxHold
      BY MutexAssumption, SectionsAssumption
    <2>2. /\ value' \in [Mutex -> 0 .. 1] /\ hold' \in [Mutex -> 0 .. MaxHold]
          /\ orig' \in [Mutex -> Prio \cup {None}]
          /\ owner' \in [Mutex -> App \cup {None}]
      BY <1>1, <1>5, <2>1
    <2> QED  BY <1>1, <1>3, <2>2 DEF MutexInv, TypeOK
  <1>7. LockConsistent'
    <2>1. c \notin ToSet(waiters'[m])
      BY <1>1, <1>4, EmptyList
    <2> QED  BY <1>1, <1>5, <2>1 DEF MutexInv, LockConsistent
  <1>8. OutcomeTrue'
    BY <1>1, <1>2, <1>3, <1>4 DEF MutexInv, OutcomeTrue
  <1> QED  BY <1>3, <1>6, <1>7, <1>8 DEF MutexInv

\* A release of a mutex taken more than once keeps it.
LEMMA ReleaseInnerStep ==
    ASSUME MutexInv, NEW m \in Mutex, ReleaseInner(m)
    PROVE  MutexInv'
  <1> USE Types
  <1>1. /\ hold[m] > 1 /\ hold' = [hold EXCEPT ![m] = hold[m] - 1]
        /\ UNCHANGED <<k, value, owner, orig, waiters, pc, lowered>>
    BY DEF ReleaseInner
  <1>2. /\ hold' \in [Mutex -> 0 .. MaxHold]
        /\ \A n \in Mutex : hold'[n] = 0 <=> hold[n] = 0
    BY <1>1, MutexAssumption, SectionsAssumption
  <1>3. TypeOK'
    BY <1>1, <1>2 DEF MutexInv, TypeOK
  <1>4. LockConsistent'
    BY <1>1, <1>2 DEF MutexInv, LockConsistent
  <1>5. KernelConsistent' /\ IdleRunnable' /\ RunsAwake' /\ PreemptionPending'
    BY <1>1 DEF MutexInv, KernelConsistent, IdleRunnable, RunsAwake,
                PreemptionPending, Me
  <1>6. WaitersParked' /\ ParkedInTake' /\ OutcomeTrue'
    BY <1>1 DEF MutexInv, WaitersParked, ParkedInTake, OutcomeTrue, Parked
  <1> QED  BY <1>3, <1>4, <1>5, <1>6 DEF MutexInv

-----------------------------------------------------------------------------
(* The take that suspends its caller *)

\* Priority inheritance changes the owner's priority and nothing else, and only
\* to a more urgent one.
LEMMA InheritEffect ==
    ASSUME MutexInv, NEW m \in Mutex, owner[m] \in Thread
    PROVE  LET n == Inherit(m)
               p == IF k.prio[k.cur] < k.prio[owner[m]] THEN k.prio[k.cur]
                                                        ELSE k.prio[owner[m]]
           IN  /\ n \in KernelState /\ KernelOK(n)
               /\ n.cur = k.cur /\ n.stat = k.stat /\ n.err = k.err
               /\ n.tmr = k.tmr /\ n.lock = k.lock
               /\ n.prio = [k.prio EXCEPT ![owner[m]] = p]
               /\ p <= k.prio[owner[m]] /\ p <= k.prio[k.cur] /\ p \in Prio
  <1> USE Types
  <1> DEFINE n == Inherit(m)
  <1>1. /\ k.prio[k.cur] \in Prio /\ k.prio[owner[m]] \in Prio
        /\ k.prio[k.cur] \in Int /\ k.prio[owner[m]] \in Int
    <2>1. k.prio[k.cur] \in Prio /\ k.prio[owner[m]] \in Prio
      OBVIOUS
    <2> QED  BY <2>1 DEF Prio
  <1>2. CASE k.prio[k.cur] < k.prio[owner[m]]
    <2>1. n = ChangePriority(k, owner[m], k.prio[k.cur])
      BY <1>2 DEF Inherit, Me
    <2>2. k.prio[k.cur] <= k.prio[owner[m]] /\ k.prio[k.cur] <= k.prio[k.cur]
      BY <1>1, <1>2
    <2> DEFINE o == owner[m]
               p == k.prio[k.cur]
    <2>3. k \in KernelState /\ KernelOK(k) /\ o \in Thread /\ p \in Prio
      BY <1>1
    <2>4. n = ChangePriority(k, o, p)
      BY <2>1
    <2> HIDE DEF n, o, p
    <2>5. /\ n \in KernelState /\ KernelOK(n)
          /\ n.cur = k.cur /\ n.stat = k.stat /\ n.err = k.err
          /\ n.tmr = k.tmr /\ n.lock = k.lock
          /\ n.prio = [k.prio EXCEPT ![o] = p]
      BY <2>3, <2>4, ChangePriorityEffect
    <2> QED  BY <1>1, <1>2, <2>2, <2>5 DEF n, o, p
  <1>3. CASE ~ (k.prio[k.cur] < k.prio[owner[m]])
    <2>1. n = k
      BY <1>3 DEF Inherit, Me
    <2>2. k.prio[owner[m]] <= k.prio[k.cur] /\ k.prio[owner[m]] <= k.prio[owner[m]]
      BY <1>1, <1>3
    <2>3. [k.prio EXCEPT ![owner[m]] = k.prio[owner[m]]] = k.prio
      OBVIOUS
    <2> QED  BY <1>1, <1>3, <2>1, <2>2, <2>3
  <1> QED  BY <1>2, <1>3

\* The kernel and the wait lists after rt_ipc_list_suspend of the caller.
LEMMA TakeSuspendKernel ==
    ASSUME MutexInv, NEW m \in Mutex, NEW time \in Wait, TakeSuspend(m, time)
    PROVE  LET c == k.cur
               p == IF k.prio[c] < k.prio[owner[m]] THEN k.prio[c]
                                                    ELSE k.prio[owner[m]]
               w == EnqueueWaiter(k, waiters[m], c, Flag)
           IN  /\ c \in App /\ k.stat[c] = "RUNNING" /\ c \notin Parked /\ c \notin k.tmr
               /\ pc[c] = "run" /\ pc' = [pc EXCEPT ![c] = "blocked"]
               /\ owner[m] \in App /\ owner[m] # c
               /\ UNCHANGED <<value, owner, orig, hold, lowered>>
               /\ waiters' = [waiters EXCEPT ![m] = w]
               /\ w \in Seq(App) /\ ToSet(w) = ToSet(waiters[m]) \cup {c} /\ Distinct(w)
               /\ k' \in KernelState /\ KernelOK(k') /\ k'.cur = c /\ k'.lock = 0
               /\ k'.stat = [k.stat EXCEPT ![c] = "SUSPEND"]
               /\ k'.err = [k.err EXCEPT ![c] = "EOK"]
               /\ k'.tmr = IF time = "limited" THEN k.tmr \cup {c} ELSE k.tmr \ {c}
               /\ k'.prio = [k.prio EXCEPT ![owner[m]] = p]
               /\ p <= k.prio[owner[m]] /\ p <= k.prio[c] /\ p \in Prio
  <1> DEFINE c == k.cur
             p == IF k.prio[c] < k.prio[owner[m]] THEN k.prio[c]
                                                  ELSE k.prio[owner[m]]
             w == EnqueueWaiter(k, waiters[m], c, Flag)
             i == Inherit(m)
  <1>1. /\ c \in App /\ pc[c] = "run" /\ owner[m] # c /\ value[m] = 0
        /\ k' = SuspendOn(i, c, time)
        /\ waiters' = [waiters EXCEPT ![m] = w]
        /\ pc' = [pc EXCEPT ![c] = "blocked"]
        /\ UNCHANGED <<value, owner, orig, hold, lowered>>
    BY DEF TakeSuspend, Me, At, Goto
  <1>2. k.stat[c] = "RUNNING" /\ c \in Thread /\ c \notin Parked /\ c \notin k.tmr
    BY <1>1, Types DEF MutexInv, RunsAwake, WaitersParked
  <1>3. owner[m] \in App
    BY <1>1, Types DEF MutexInv, LockConsistent
  <1>4. /\ i \in KernelState /\ KernelOK(i)
        /\ i.cur = k.cur /\ i.stat = k.stat /\ i.err = k.err
        /\ i.tmr = k.tmr /\ i.lock = k.lock
        /\ i.prio = [k.prio EXCEPT ![owner[m]] = p]
        /\ p <= k.prio[owner[m]] /\ p <= k.prio[c] /\ p \in Prio
    BY <1>3, Types, InheritEffect
  <1>5. c \notin ToSet(waiters[m]) /\ Distinct(waiters[m]) /\ waiters[m] \in Seq(App)
    BY <1>2, Types DEF Parked, MutexInv, WaitersParked
  <1>6. w \in Seq(App) /\ ToSet(w) = ToSet(waiters[m]) \cup {c} /\ Distinct(w)
    <2> DEFINE q == waiters[m]
    <2>1. q \in Seq(App) /\ c \in App /\ Distinct(q) /\ c \notin ToSet(q)
      BY <1>1, <1>5
    <2>2. w = EnqueueWaiter(k, q, c, Flag)
      OBVIOUS
    <2> HIDE DEF c, q, w
    <2>3. w \in Seq(App)
      BY <2>1, <2>2, EnqueueWaiterType
    <2>4. ToSet(w) = ToSet(q) \cup {c}
      BY <2>1, <2>2, EnqueueWaiterSet
    <2>5. Distinct(w)
      BY <2>1, <2>2, EnqueueWaiterDistinct
    <2> QED  BY <2>3, <2>4, <2>5 DEF q
  <1> HIDE DEF c, p, w, i
  <1>7. /\ k' \in KernelState /\ KernelOK(k') /\ k'.cur = i.cur /\ k'.lock = i.lock
        /\ k'.stat = [i.stat EXCEPT ![c] = "SUSPEND"]
        /\ k'.err = [i.err EXCEPT ![c] = "EOK"]
        /\ k'.tmr = IF time = "limited" THEN i.tmr \cup {c} ELSE i.tmr \ {c}
        /\ k'.prio = i.prio
    <2>1. i.stat[c] \in {"READY", "RUNNING"}
      BY <1>2, <1>4
    <2>2. i \in KernelState /\ KernelOK(i) /\ c \in Thread /\ k' = SuspendOn(i, c, time)
      BY <1>1, <1>2, <1>4
    <2> DEFINE n == k'
    <2>0. n = SuspendOn(i, c, time)
      BY <2>2
    <2> HIDE DEF n
    <2>3. n \in KernelState /\ KernelOK(n) /\ n.cur = i.cur /\ n.lock = i.lock
      BY <2>0, <2>1, <2>2, SuspendOnEffect
    <2>4. n.stat = [i.stat EXCEPT ![c] = "SUSPEND"] /\ n.prio = i.prio
      BY <2>0, <2>1, <2>2, SuspendOnEffect
    <2>5. n.err = [i.err EXCEPT ![c] = "EOK"]
      BY <2>0, <2>1, <2>2, SuspendOnError
    <2>6. n.tmr = IF time = "limited" THEN i.tmr \cup {c} ELSE i.tmr \ {c}
      BY <2>0, <2>1, <2>2, SuspendOnTimer
    <2> QED  BY <2>3, <2>4, <2>5, <2>6 DEF n
  <1>8. k'.cur = c /\ k'.lock = 0
    BY <1>4, <1>7, Types DEF c
  <1>9. /\ k'.stat = [k.stat EXCEPT ![c] = "SUSPEND"]
        /\ k'.err = [k.err EXCEPT ![c] = "EOK"]
        /\ k'.tmr = IF time = "limited" THEN k.tmr \cup {c} ELSE k.tmr \ {c}
        /\ k'.prio = [k.prio EXCEPT ![owner[m]] = p]
    BY <1>4, <1>7, Types
  <1> QED
    BY <1>1, <1>2, <1>3, <1>4, <1>6, <1>7, <1>8, <1>9 DEF c, p, w

\* rt_mutex_take up to its rt_schedule keeps the invariant.
LEMMA TakeSuspendStep ==
    ASSUME MutexInv, NEW m \in Mutex, NEW time \in Wait, TakeSuspend(m, time)
    PROVE  MutexInv'
  <1> USE Types
  <1> DEFINE c == k.cur
             w == EnqueueWaiter(k, waiters[m], c, Flag)
  <1>1. /\ c \in App /\ k.stat[c] = "RUNNING" /\ c \notin Parked /\ c \notin k.tmr
        /\ pc[c] = "run" /\ pc' = [pc EXCEPT ![c] = "blocked"]
        /\ owner[m] \in App /\ owner[m] # c
        /\ UNCHANGED <<value, owner, orig, hold, lowered>>
        /\ waiters' = [waiters EXCEPT ![m] = w]
        /\ w \in Seq(App) /\ ToSet(w) = ToSet(waiters[m]) \cup {c} /\ Distinct(w)
        /\ k' \in KernelState /\ KernelOK(k') /\ k'.cur = c /\ k'.lock = 0
        /\ k'.stat = [k.stat EXCEPT ![c] = "SUSPEND"]
        /\ k'.err = [k.err EXCEPT ![c] = "EOK"]
        /\ k'.tmr = IF time = "limited" THEN k.tmr \cup {c} ELSE k.tmr \ {c}
    BY TakeSuspendKernel
  <1> HIDE DEF c, w
  <1>2. c \in Thread /\ pc' \in [Thread -> Pc] /\ waiters' \in [Mutex -> Seq(App)]
    BY <1>1 DEF Pc
  <1>3. TypeOK'
    BY <1>1, <1>2 DEF MutexInv, TypeOK
  <1>4. KernelConsistent' /\ IdleRunnable' /\ RunsAwake' /\ PreemptionPending'
    BY <1>1, <1>2 DEF KernelConsistent, IdleRunnable, RunsAwake, PreemptionPending, Me
  <1>5. /\ \A n \in Mutex \ {m} : waiters'[n] = waiters[n]
        /\ waiters'[m] = w
    BY <1>1
  <1>6. Parked' = Parked \cup {c}
    <2>1. ASSUME NEW u \in Thread PROVE u \in Parked' <=> u \in Parked \/ u = c
      <3>1. \A n \in Mutex : u \in ToSet(waiters'[n]) <=>
                                u \in ToSet(waiters[n]) \/ (n = m /\ u = c)
        BY <1>1, <1>5
      <3> QED  BY <3>1 DEF Parked
    <2> QED  BY <1>2, <2>1 DEF Parked
  <1>7. /\ \A u \in Thread : k'.stat[u] = "SUSPEND" <=> k.stat[u] = "SUSPEND" \/ u = c
        /\ k'.tmr \cup {c} = k.tmr \cup {c}
    BY <1>1, <1>2
  <1>8. WaitersParked'
    <2>1. \A n \in Mutex : Distinct(waiters'[n]) /\ c \notin ToSet(waiters[n])
      BY <1>1, <1>2, <1>5 DEF MutexInv, WaitersParked, Parked
    <2>2. ASSUME NEW n \in Mutex, NEW o \in Mutex, n # o
          PROVE  ToSet(waiters'[n]) \cap ToSet(waiters'[o]) = {}
      BY <1>1, <1>5, <2>1, <2>2 DEF MutexInv, WaitersParked
    <2>3. Parked' \cup k'.tmr = {u \in Thread : k'.stat[u] = "SUSPEND"}
      BY <1>2, <1>6, <1>7 DEF MutexInv, WaitersParked
    <2> QED  BY <2>1, <2>2, <2>3 DEF WaitersParked
  <1>9. ParkedInTake'
    BY <1>1, <1>2, <1>6 DEF MutexInv, ParkedInTake
  <1>10. LockConsistent'
    <2>1. owner[m] # None
      BY <1>1
    <2> QED  BY <1>1, <1>5, <2>1 DEF MutexInv, LockConsistent
  <1>11. OutcomeTrue'
    BY <1>1, <1>2 DEF MutexInv, OutcomeTrue
  <1> QED  BY <1>3, <1>4, <1>8, <1>9, <1>10, <1>11 DEF MutexInv

-----------------------------------------------------------------------------
(* The release that ends an ownership *)

\* Setting the priority back changes the caller's priority and nothing else.
LEMMA RestoredEffect ==
    ASSUME MutexInv, NEW m \in Mutex, owner[m] = k.cur
    PROVE  LET n == Restored(m)
           IN  /\ n \in KernelState /\ KernelOK(n)
               /\ n.cur = k.cur /\ n.stat = k.stat /\ n.err = k.err
               /\ n.tmr = k.tmr /\ n.lock = k.lock
               /\ n.prio = [k.prio EXCEPT ![k.cur] = orig[m]]
               /\ orig[m] \in Prio
  <1> DEFINE n == Restored(m)
             c == k.cur
             p == orig[m]
  <1>1. k \in KernelState /\ KernelOK(k) /\ c \in Thread /\ p \in Prio
    <2>1. owner[m] # None
      BY Types
    <2> QED  BY <2>1, Types DEF MutexInv, LockConsistent
  <1>2. n = IF p # k.prio[c] THEN ChangePriority(k, c, p) ELSE k
    BY DEF Restored, Me
  <1>3. k.prio \in [Thread -> Prio]
    BY Types
  <1> HIDE DEF n, c, p
  <1>4. CASE p # k.prio[c]
    <2>1. n = ChangePriority(k, c, p)
      BY <1>2, <1>4
    <2>2. /\ n \in KernelState /\ KernelOK(n)
          /\ n.cur = k.cur /\ n.stat = k.stat /\ n.err = k.err
          /\ n.tmr = k.tmr /\ n.lock = k.lock
          /\ n.prio = [k.prio EXCEPT ![c] = p]
      BY <1>1, <2>1, ChangePriorityEffect
    <2> QED  BY <1>1, <2>2 DEF n, c, p
  <1>5. CASE p = k.prio[c]
    <2>1. [k.prio EXCEPT ![c] = p] = k.prio
      BY <1>3, <1>5
    <2>2. n = k
      BY <1>2, <1>5
    <2> QED  BY <1>1, <2>1, <2>2 DEF n, c, p
  <1> QED  BY <1>4, <1>5

\* The first waiter of a mutex waits for it alone, is parked, and is not the one
\* who has it.
LEMMA FirstWaiter ==
    ASSUME MutexInv, NEW m \in Mutex, waiters[m] # << >>
    PROVE  LET h == Head(waiters[m])
           IN  /\ h \in App /\ h \in Thread /\ h \in ToSet(waiters[m])
               /\ k.stat[h] = "SUSPEND" /\ k.err[h] = "EOK"
               /\ pc[h] \in {"blocked", "wait"}
               /\ owner[m] # h
               /\ \A n \in Mutex \ {m} : h \notin ToSet(waiters[n])
               /\ Tail(waiters[m]) \in Seq(App)
               /\ ToSet(Tail(waiters[m])) = ToSet(waiters[m]) \ {h}
               /\ Distinct(Tail(waiters[m]))
  <1> DEFINE q == waiters[m]
             h == Head(q)
  <1>1. q \in Seq(App) /\ Distinct(q) /\ q # << >>
    BY Types DEF MutexInv, WaitersParked
  <1> HIDE DEF q
  <1>2. /\ h \in App /\ h \in ToSet(q) /\ Tail(q) \in Seq(App)
        /\ ToSet(Tail(q)) = ToSet(q) \ {h} /\ Distinct(Tail(q))
    BY <1>1, HeadTailList
  <1> HIDE DEF h
  <1>3. h \in Thread /\ h \in Parked
    BY <1>2, Types DEF Parked, q
  <1>4. k.stat[h] = "SUSPEND" /\ k.err[h] = "EOK" /\ pc[h] \in {"blocked", "wait"}
    BY <1>3 DEF MutexInv, WaitersParked, ParkedInTake
  <1>5. owner[m] # h /\ \A n \in Mutex \ {m} : h \notin ToSet(waiters[n])
    BY <1>2 DEF q, MutexInv, LockConsistent, WaitersParked
  <1> QED  BY <1>2, <1>3, <1>4, <1>5 DEF q, h

\* The kernel after the hand-over: the first waiter is ready and the caller has
\* its priority back.
LEMMA HandOverKernel ==
    ASSUME MutexInv, NEW m \in Mutex, owner[m] = k.cur, pc[k.cur] = "run", HandOver(m)
    PROVE  LET h == Head(waiters[m])
           IN  /\ k' \in KernelState /\ KernelOK(k') /\ k'.lock = 0
               /\ k'.cur = k.cur /\ k.stat[k.cur] = "RUNNING"
               /\ k'.stat = [k.stat EXCEPT ![h] = "READY"]
               /\ k'.err = k.err /\ k'.tmr = k.tmr \ {h}
               /\ k'.prio = [k.prio EXCEPT ![k.cur] = orig[m]]
               /\ orig[m] \in Prio
  <1> DEFINE h == Head(waiters[m])
             r == Restored(m)
  <1>1. /\ r \in KernelState /\ KernelOK(r)
        /\ r.cur = k.cur /\ r.stat = k.stat /\ r.err = k.err
        /\ r.tmr = k.tmr /\ r.lock = k.lock
        /\ r.prio = [k.prio EXCEPT ![k.cur] = orig[m]]
        /\ orig[m] \in Prio
    BY RestoredEffect
  <1>2. h \in Thread /\ k.stat[h] = "SUSPEND" /\ h # k.cur /\ k' = Resume(r, h)
    BY FirstWaiter DEF HandOver
  <1>3. k.stat[k.cur] = "RUNNING"
    BY DEF MutexInv, RunsAwake
  <1> HIDE DEF h, r
  <1>4. /\ k' \in KernelState /\ KernelOK(k')
        /\ k'.cur = r.cur /\ k'.prio = r.prio /\ k'.lock = r.lock
        /\ k'.stat = [r.stat EXCEPT ![h] = IF h = r.cur THEN "RUNNING" ELSE "READY"]
        /\ k'.err = r.err /\ k'.tmr = r.tmr \ {h}
    <2>1. r.stat[h] = "SUSPEND"
      BY <1>1, <1>2
    <2> QED  BY <1>1, <1>2, <2>1, ResumeEffect
  <1> QED  BY <1>1, <1>2, <1>3, <1>4, Types DEF h

\* The release that makes the first waiter the owner keeps the invariant.
LEMMA HandOverStep ==
    ASSUME MutexInv, NEW m \in Mutex, owner[m] = k.cur, pc[k.cur] = "run", HandOver(m)
    PROVE  MutexInv'
  <1> USE Types
  <1> DEFINE c == k.cur
             h == Head(waiters[m])
             w == Tail(waiters[m])
  <1>1. /\ k' \in KernelState /\ KernelOK(k') /\ k'.lock = 0
        /\ k'.cur = c /\ k.stat[c] = "RUNNING"
        /\ k'.stat = [k.stat EXCEPT ![h] = "READY"]
        /\ k'.err = k.err /\ k'.tmr = k.tmr \ {h}
    BY HandOverKernel
  <1>2. /\ owner' = [owner EXCEPT ![m] = h]
        /\ orig' = [orig EXCEPT ![m] = k.prio[h]]
        /\ hold' = [hold EXCEPT ![m] = 1]
        /\ waiters' = [waiters EXCEPT ![m] = w]
        /\ pc' = [pc EXCEPT ![c] = "pend"]
        /\ UNCHANGED <<value, lowered>>
    BY DEF HandOver, Me, Goto
  <1>3. /\ h \in App /\ h \in Thread /\ h \in ToSet(waiters[m])
        /\ k.stat[h] = "SUSPEND" /\ k.err[h] = "EOK"
        /\ owner[m] # h /\ h # None
        /\ \A n \in Mutex \ {m} : h \notin ToSet(waiters[n])
        /\ w \in Seq(App) /\ ToSet(w) = ToSet(waiters[m]) \ {h} /\ Distinct(w)
    <2>1. waiters[m] # << >>
      BY DEF HandOver
    <2> QED  BY <2>1, FirstWaiter
  <1>4. owner[m] = c /\ c # None /\ c # h /\ value[m] = 0
    <2>1. owner[m] # None
      OBVIOUS
    <2> QED  BY <1>3, <2>1 DEF MutexInv, LockConsistent
  <1> HIDE DEF c, h, w
  <1>5. TypeOK'
    <2>0. pc' \in [Thread -> Pc]
      BY <1>2 DEF Pc
    <2>1. 1 \in 0 .. MaxHold /\ k.prio[h] \in Prio
      BY <1>3, MutexAssumption, SectionsAssumption
    <2>2. /\ owner' \in [Mutex -> App \cup {None}] /\ hold' \in [Mutex -> 0 .. MaxHold]
          /\ orig' \in [Mutex -> Prio \cup {None}] /\ waiters' \in [Mutex -> Seq(App)]
      BY <1>2, <1>3, <2>1
    <2> QED  BY <1>1, <1>2, <2>0, <2>2 DEF MutexInv, TypeOK
  <1>6. KernelConsistent' /\ IdleRunnable' /\ RunsAwake' /\ PreemptionPending'
    <2>1. c \in Thread
      BY DEF c
    <2> QED
      BY <1>1, <1>2, <1>3, <1>4, <2>1
         DEF KernelConsistent, IdleRunnable, RunsAwake, PreemptionPending, Me
  <1>7. /\ \A n \in Mutex \ {m} : waiters'[n] = waiters[n]
        /\ waiters'[m] = w
    BY <1>2
  <1>8. Parked' = Parked \ {h}
    <2>1. ASSUME NEW u \in Thread PROVE u \in Parked' <=> u \in Parked /\ u # h
      <3>1. u \in ToSet(waiters'[m]) <=> u \in ToSet(waiters[m]) /\ u # h
        BY <1>3, <1>7
      <3>2. \A n \in Mutex \ {m} :
               u \in ToSet(waiters'[n]) <=> u \in ToSet(waiters[n]) /\ u # h
        BY <1>3, <1>7
      <3> QED  BY <3>1, <3>2 DEF Parked
    <2> QED  BY <2>1 DEF Parked
  <1>9. WaitersParked'
    <2>1. \A n \in Mutex : Distinct(waiters'[n]) /\ ToSet(waiters'[n]) \subseteq ToSet(waiters[n])
      BY <1>3, <1>7 DEF MutexInv, WaitersParked
    <2>2. ASSUME NEW n \in Mutex, NEW o \in Mutex, n # o
          PROVE  ToSet(waiters'[n]) \cap ToSet(waiters'[o]) = {}
      BY <2>1, <2>2 DEF MutexInv, WaitersParked
    <2>3. \A u \in Thread : k'.stat[u] = "SUSPEND" <=> k.stat[u] = "SUSPEND" /\ u # h
      BY <1>1, <1>3
    <2>4. Parked' \cup k'.tmr = {u \in Thread : k'.stat[u] = "SUSPEND"}
      BY <1>1, <1>8, <2>3 DEF MutexInv, WaitersParked
    <2> QED  BY <2>1, <2>2, <2>4 DEF WaitersParked
  <1>10. c \in Thread /\ c \notin Parked
    BY <1>1, <1>4 DEF c, MutexInv, WaitersParked
  <1>11. ParkedInTake'
    <2>1. ASSUME NEW t \in Parked'
          PROVE  pc'[t] \in {"blocked", "wait"} /\ k'.err[t] = "EOK"
      <3>1. t \in Parked /\ t \in Thread /\ t # c
        BY <1>8, <1>10 DEF Parked
      <3>2. pc'[t] = pc[t] /\ k'.err[t] = k.err[t]
        BY <1>1, <1>2, <3>1
      <3> QED  BY <3>1, <3>2 DEF MutexInv, ParkedInTake
    <2> QED  BY <2>1 DEF ParkedInTake
  <1>12. LockConsistent'
    <2>1. k.prio[h] # None /\ h \notin ToSet(w)
      BY <1>3
    <2> QED  BY <1>2, <1>3, <1>4, <1>7, <2>1 DEF MutexInv, LockConsistent
  <1>13. OutcomeTrue'
    <2> SUFFICES ASSUME NEW t \in Thread, pc'[t] \in {"blocked", "wait"},
                        k'.stat[t] # "SUSPEND", k'.err[t] = "EOK"
                 PROVE  \E n \in Mutex : owner'[n] = t
      BY DEF OutcomeTrue
    <2>1. t # c
      BY <1>2, <1>10
    <2>2. CASE t = h
      BY <1>2, <2>2
    <2>3. CASE t # h
      <3>1. PICK n \in Mutex : owner[n] = t
        BY <1>1, <1>2, <1>3, <1>10, <2>1, <2>3 DEF MutexInv, OutcomeTrue
      <3> QED  BY <1>2, <1>4, <2>1, <3>1
    <2> QED  BY <2>2, <2>3
  <1> QED  BY <1>5, <1>6, <1>9, <1>11, <1>12, <1>13 DEF MutexInv

\* The release with nobody waiting keeps it: giving up a boost is what "lowered"
\* excuses.
LEMMA SetFreeStep ==
    ASSUME MutexInv, NEW m \in Mutex, owner[m] = k.cur, pc[k.cur] = "run", SetFree(m)
    PROVE  MutexInv'
  <1> USE Types
  <1> DEFINE c == k.cur
             p == orig[m]
  <1>1. /\ k' = Restored(m) /\ waiters[m] = << >>
        /\ value' = [value EXCEPT ![m] = value[m] + 1]
        /\ owner' = [owner EXCEPT ![m] = None]
        /\ orig' = [orig EXCEPT ![m] = None]
        /\ hold' = [hold EXCEPT ![m] = 0]
        /\ lowered' = (lowered \/ orig[m] > k.prio[c])
        /\ UNCHANGED <<waiters, pc>>
    BY DEF SetFree, Me
  <1>2. /\ k' \in KernelState /\ KernelOK(k') /\ k'.cur = c /\ k'.stat = k.stat
        /\ k'.err = k.err /\ k'.tmr = k.tmr /\ k'.lock = 0
        /\ k'.prio = [k.prio EXCEPT ![c] = p] /\ p \in Prio
    BY <1>1, RestoredEffect
  <1>3. /\ c \in Thread /\ owner[m] = c /\ c # None /\ value[m] = 0
        /\ k.stat[c] = "RUNNING"
    <2>1. owner[m] # None
      OBVIOUS
    <2> QED  BY <2>1 DEF MutexInv, LockConsistent, RunsAwake
  <1>4. k.prio[c] \in Prio
    BY <1>3
  <1> HIDE DEF c, p
  <1>5. TypeOK'
    <2>1. /\ value' \in [Mutex -> 0 .. 1] /\ owner' \in [Mutex -> App \cup {None}]
          /\ orig' \in [Mutex -> Prio \cup {None}] /\ hold' \in [Mutex -> 0 .. MaxHold]
      BY <1>1, <1>3, MutexAssumption, SectionsAssumption
    <2>2. lowered' \in BOOLEAN
      BY <1>1
    <2> QED  BY <1>1, <1>2, <2>1, <2>2 DEF MutexInv, TypeOK
  <1>6. PreemptionPending'
    <2>1. CASE p > k.prio[c]
      BY <1>1, <2>1 DEF PreemptionPending, p
    <2>2. CASE lowered
      BY <1>1, <2>2 DEF PreemptionPending
    <2>3. CASE ~ (p > k.prio[c]) /\ ~ lowered
      <3>1. TopRuns(k)
        BY <2>3 DEF MutexInv, PreemptionPending, Me
      <3>2. ASSUME NEW t \in Thread, k'.stat[t] = "READY"
            PROVE  k'.prio[k'.cur] <= k'.prio[t]
        <4>1. k.stat[t] = "READY" /\ t # c
          BY <1>2, <1>3, <3>2
        <4>2. k.prio[c] <= k.prio[t]
          BY <3>1, <4>1 DEF TopRuns, c
        <4>3. k'.prio[k'.cur] = p /\ k'.prio[t] = k.prio[t]
          BY <1>2, <1>3, <4>1
        <4>4. p \in Int /\ k.prio[c] \in Int /\ k.prio[t] \in Int
          BY <1>2, <1>4 DEF Prio
        <4> QED  BY <2>3, <4>2, <4>3, <4>4
      <3> QED  BY <3>2 DEF PreemptionPending, TopRuns
    <2> QED  BY <2>1, <2>2, <2>3
  <1>7. KernelConsistent' /\ IdleRunnable' /\ RunsAwake'
    BY <1>2, <1>3 DEF KernelConsistent, IdleRunnable, RunsAwake
  <1>8. Parked' = Parked /\ Parked \subseteq Thread
    BY <1>1 DEF Parked
  <1>9. WaitersParked' /\ ParkedInTake'
    <2>1. WaitersParked'
      BY <1>1, <1>2, <1>8 DEF MutexInv, WaitersParked
    <2>2. ParkedInTake'
      BY <1>1, <1>2, <1>8 DEF MutexInv, ParkedInTake
    <2> QED  BY <2>1, <2>2
  <1>10. LockConsistent'
    <2>1. /\ None \notin ToSet(waiters'[m])
          /\ value'[m] = 1 /\ owner'[m] = None /\ orig'[m] = None /\ hold'[m] = 0
          /\ waiters'[m] = << >>
      BY <1>1, <1>3, EmptyList
    <2>2. \A n \in Mutex \ {m} : /\ value'[n] = value[n] /\ owner'[n] = owner[n]
                                 /\ orig'[n] = orig[n] /\ hold'[n] = hold[n]
                                 /\ waiters'[n] = waiters[n]
      BY <1>1
    <2> DEFINE OK(n) == /\ owner'[n] = None <=> value'[n] = 1
                        /\ owner'[n] = None <=> hold'[n] = 0
                        /\ owner'[n] = None <=> orig'[n] = None
                        /\ owner'[n] = None => waiters'[n] = << >>
                        /\ owner'[n] \notin ToSet(waiters'[n])
    <2>3. OK(m)
      BY <2>1
    <2>4. ASSUME NEW n \in Mutex \ {m} PROVE OK(n)
      BY <2>2 DEF MutexInv, LockConsistent
    <2> HIDE DEF OK
    <2>5. \A n \in Mutex : OK(n)
      BY <2>3, <2>4
    <2> QED  BY <2>5 DEF LockConsistent, OK
  <1>11. OutcomeTrue'
    <2> SUFFICES ASSUME NEW t \in Thread, pc'[t] \in {"blocked", "wait"},
                        k'.stat[t] # "SUSPEND", k'.err[t] = "EOK"
                 PROVE  \E n \in Mutex : owner'[n] = t
      BY DEF OutcomeTrue
    <2>1. t # c
      BY <1>1 DEF c
    <2>2. PICK n \in Mutex : owner[n] = t
      BY <1>1, <1>2 DEF MutexInv, OutcomeTrue
    <2> QED  BY <1>1, <1>3, <2>1, <2>2
  <1> QED  BY <1>5, <1>6, <1>7, <1>9, <1>10, <1>11 DEF MutexInv

-----------------------------------------------------------------------------
(* The timeout *)

\* The kernel after rt_thread_timeout of a waiter or a sleeper.
LEMMA TimeoutKernel ==
    ASSUME MutexInv, NEW t \in Thread, TickTimeout(t)
    PROVE  /\ t \in App /\ k.stat[t] = "SUSPEND"
           /\ k' \in KernelState /\ KernelConsistent' /\ IdleRunnable'
           /\ RunsAwake' /\ PreemptionPending' /\ lowered' \in BOOLEAN
           /\ k'.prio = k.prio /\ k'.tmr = k.tmr \ {t}
           /\ k'.err = [k.err EXCEPT ![t] = "ETIMEOUT"]
           /\ \A u \in Thread : k'.stat[u] = "SUSPEND" <=> k.stat[u] = "SUSPEND" /\ u # t
  <1> DEFINE m == Wake(k, t, "ETIMEOUT")
  <1>1. t \in k.tmr /\ Reschedule(m)
    BY DEF TickTimeout
  <1>2. k.stat[t] = "SUSPEND" /\ t # Idle /\ t \in App
    BY <1>1, Types DEF MutexInv, WaitersParked, App
  <1>3. /\ m \in KernelState /\ KernelOK(m)
        /\ m.cur = k.cur /\ m.prio = k.prio /\ m.lock = k.lock
        /\ m.stat = [k.stat EXCEPT ![t] = IF t = k.cur THEN "RUNNING" ELSE "READY"]
        /\ m.err = [k.err EXCEPT ![t] = "ETIMEOUT"]
        /\ m.tmr = k.tmr \ {t}
    <2>1. "ETIMEOUT" \in Err /\ k \in KernelState /\ KernelOK(k)
      BY Types DEF Err
    <2> QED  BY <1>2, <2>1, WakeEffect
  <1> HIDE DEF m
  <1>4. m.stat[Idle] \in {"READY", "RUNNING"}
    BY <1>2, <1>3, Types
  <1>5. /\ k' \in KernelState /\ KernelConsistent' /\ IdleRunnable'
        /\ RunsAwake' /\ PreemptionPending' /\ lowered' \in BOOLEAN
        /\ k'.prio = m.prio /\ k'.err = m.err /\ k'.tmr = m.tmr
        /\ \A u \in Thread : k'.stat[u] = "SUSPEND" <=> m.stat[u] = "SUSPEND"
    BY <1>1, <1>3, <1>4, Types, AfterSchedule
  <1>6. \A u \in Thread : k'.stat[u] = "SUSPEND" <=> k.stat[u] = "SUSPEND" /\ u # t
    BY <1>2, <1>3, <1>5, Types
  <1> QED  BY <1>2, <1>3, <1>5, <1>6

\* The thread that times out leaves the list it is on.
LEMMA TimeoutLists ==
    ASSUME MutexInv, NEW t \in Thread, TickTimeout(t)
    PROVE  /\ waiters' \in [Mutex -> Seq(App)]
           /\ \A m \in Mutex : /\ Distinct(waiters'[m])
                               /\ ToSet(waiters'[m]) = ToSet(waiters[m]) \ {t}
           /\ Parked' = Parked \ {t}
  <1>1. waiters' = [m \in Mutex |-> RemoveFirst(waiters[m], t)]
    BY DEF TickTimeout
  <1>2. ASSUME NEW m \in Mutex
        PROVE  /\ waiters'[m] \in Seq(App) /\ Distinct(waiters'[m])
               /\ ToSet(waiters'[m]) = ToSet(waiters[m]) \ {t}
    <2>1. waiters[m] \in Seq(App) /\ Distinct(waiters[m])
      BY Types DEF MutexInv, WaitersParked
    <2> QED  BY <1>1, <2>1, RemoveFirstList
  <1>3. waiters' \in [Mutex -> Seq(App)]
    BY <1>1, <1>2
  <1>4. Parked' = Parked \ {t}
    <2>1. ASSUME NEW u \in Thread PROVE u \in Parked' <=> u \in Parked /\ u # t
      BY <1>2 DEF Parked
    <2> QED  BY <2>1 DEF Parked
  <1> QED  BY <1>2, <1>3, <1>4

\* rt_thread_timeout keeps the invariant.
LEMMA TickTimeoutStep ==
    ASSUME MutexInv, NEW t \in Thread, TickTimeout(t)
    PROVE  MutexInv'
  <1>1. UNCHANGED <<value, owner, orig, hold, pc>>
    BY DEF TickTimeout
  <1>2. /\ t \in App /\ k.stat[t] = "SUSPEND"
        /\ k' \in KernelState /\ KernelConsistent' /\ IdleRunnable'
        /\ RunsAwake' /\ PreemptionPending' /\ lowered' \in BOOLEAN
        /\ k'.tmr = k.tmr \ {t} /\ k'.err = [k.err EXCEPT ![t] = "ETIMEOUT"]
        /\ \A u \in Thread : k'.stat[u] = "SUSPEND" <=> k.stat[u] = "SUSPEND" /\ u # t
    BY TimeoutKernel
  <1>3. /\ waiters' \in [Mutex -> Seq(App)]
        /\ \A m \in Mutex : /\ Distinct(waiters'[m])
                            /\ ToSet(waiters'[m]) = ToSet(waiters[m]) \ {t}
        /\ Parked' = Parked \ {t} /\ Parked \subseteq Thread
    BY TimeoutLists DEF Parked
  <1>4. TypeOK'
    BY <1>1, <1>2, <1>3 DEF MutexInv, TypeOK
  <1>5. WaitersParked'
    <2>1. ASSUME NEW m \in Mutex, NEW n \in Mutex, m # n
          PROVE  ToSet(waiters'[m]) \cap ToSet(waiters'[n]) = {}
      <3>1. ToSet(waiters[m]) \cap ToSet(waiters[n]) = {}
        BY <2>1 DEF MutexInv, WaitersParked
      <3>2. /\ ToSet(waiters'[m]) = ToSet(waiters[m]) \ {t}
            /\ ToSet(waiters'[n]) = ToSet(waiters[n]) \ {t}
        BY <1>3
      <3> QED  BY <3>1, <3>2
    <2>2. Parked' \cup k'.tmr = {u \in Thread : k'.stat[u] = "SUSPEND"}
      BY <1>2, <1>3 DEF MutexInv, WaitersParked
    <2> QED  BY <1>3, <2>1, <2>2 DEF WaitersParked
  <1>6. ParkedInTake'
    BY <1>1, <1>2, <1>3, Types DEF MutexInv, ParkedInTake
  <1>7. LockConsistent'
    <2>1. ASSUME NEW m \in Mutex, owner[m] = None PROVE waiters'[m] = << >>
      <3>1. waiters[m] = << >> /\ waiters'[m] \in Seq(App) /\ waiters[m] \in Seq(App)
        BY <1>3, <2>1, Types DEF MutexInv, LockConsistent
      <3> QED  BY <1>3, <3>1, EmptyList
    <2> QED  BY <1>1, <1>3, <2>1 DEF MutexInv, LockConsistent
  <1>8. OutcomeTrue'
    BY <1>1, <1>2, Types DEF MutexInv, OutcomeTrue
  <1> QED  BY <1>2, <1>4, <1>5, <1>6, <1>7, <1>8 DEF MutexInv

-----------------------------------------------------------------------------
(* The invariant *)

\* It holds before the first thread is started.
LEMMA MutexInvInit == Init => MutexInv
  <1> SUFFICES ASSUME Init PROVE MutexInv
    OBVIOUS
  <1>1. /\ k.cur = Idle /\ k.prio = BasePrio /\ k.grp = {} /\ k.tmr = {} /\ k.lock = 0
        /\ k.stat = [t \in Thread |-> IF t = Idle THEN "RUNNING" ELSE "INIT"]
        /\ k.err = [t \in Thread |-> "EOK"] /\ k.rq = [p \in Prio |-> << >>]
        /\ k \in KernelState
    BY KernelAssumption, MutexAssumption, SectionsAssumption DEF Init, SectionsInit, KernelState, Stat, Err
  <1>2. /\ value = [m \in Mutex |-> 1] /\ owner = [m \in Mutex |-> None]
        /\ orig = [m \in Mutex |-> None] /\ hold = [m \in Mutex |-> 0]
        /\ waiters = [m \in Mutex |-> << >>] /\ pc = [t \in Thread |-> "run"]
        /\ lowered = FALSE
    BY DEF Init, SectionsInit
  <1>3. << >> \in Seq(App) /\ << >> \in Seq(Thread)
        /\ ToSet(<< >>) = {} /\ Distinct(<< >>)
    BY EmptySeq DEF ToSet, Distinct
  <1>4. TypeOK
    <2>1. value \in [Mutex -> 0 .. 1] /\ hold \in [Mutex -> 0 .. MaxHold]
      <3>1. 1 \in 0 .. 1 /\ 0 \in 0 .. MaxHold
        BY MutexAssumption, SectionsAssumption
      <3> QED  BY <1>2, <3>1
    <2>3. waiters \in [Mutex -> Seq(App)] /\ lowered \in BOOLEAN
      BY <1>2, <1>3
    <2>2. /\ owner \in [Mutex -> App \cup {None}] /\ orig \in [Mutex -> Prio \cup {None}]
          /\ pc \in [Thread -> Pc]
      BY <1>2 DEF Pc
    <2> QED  BY <1>1, <2>1, <2>2, <2>3 DEF TypeOK
  <1>5. KernelOK(k)
    BY <1>1, <1>3, KernelAssumption
       DEF KernelOK, ReadyListed, ReadyDistinct, GroupExact, OneRunning
  <1>6. Parked = {}
    BY <1>2, <1>3 DEF Parked
  <1>7. WaitersParked /\ ParkedInTake
    <2>1. \A t \in Thread : k.stat[t] # "SUSPEND"
      BY <1>1
    <2> QED  BY <1>1, <1>2, <1>3, <1>6, <2>1 DEF WaitersParked, ParkedInTake
  <1>8. LockConsistent
    BY <1>2, <1>3 DEF LockConsistent
  <1>9. OutcomeTrue /\ PreemptionPending
    BY <1>1, <1>2 DEF OutcomeTrue, PreemptionPending, TopRuns
  <1>10. IdleRunnable /\ RunsAwake
    BY <1>1, KernelAssumption DEF IdleRunnable, RunsAwake
  <1> QED  BY <1>4, <1>5, <1>7, <1>8, <1>9, <1>10 DEF MutexInv, KernelConsistent

\* Every section of every call, and both interrupts, keep it.
LEMMA MutexInvNext == MutexInv /\ [Next]_vars => MutexInv'
  <1> SUFFICES ASSUME MutexInv, [Next]_vars PROVE MutexInv'
    OBVIOUS
  <1>1. ASSUME NEW t \in Thread, Startup(t) PROVE MutexInv'
    BY <1>1, StartupStep
  <1>2. ASSUME NEW t \in Thread, TickTimeout(t) PROVE MutexInv'
    BY <1>2, TickTimeoutStep
  <1>3. ASSUME NEW m \in Mutex, TakeAgain(m) PROVE MutexInv'
    BY <1>3, TakeAgainStep
  <1>4. ASSUME NEW m \in Mutex, TakeFree(m) PROVE MutexInv'
    BY <1>4, TakeFreeStep
  <1>5. ASSUME NEW m \in Mutex, Release(m) PROVE MutexInv'
    <2>1. CASE ReleaseInner(m)
      BY <2>1, ReleaseInnerStep
    <2>2. CASE ReleaseFinal(m)
      BY <2>2, HandOverStep, SetFreeStep DEF ReleaseFinal, Me, At
    <2> QED  BY <1>5, <2>1, <2>2 DEF Release
  <1>6. ASSUME NEW m \in Mutex, NEW time \in Wait, TakeSuspend(m, time) PROVE MutexInv'
    BY <1>6, TakeSuspendStep
  <1>7. CASE Sleep
    BY <1>7, SleepStep
  <1>8. CASE CallSchedule
    BY <1>8, CallScheduleStep
  <1>9. CASE TakeReturn
    BY <1>9, TakeReturnStep
  <1>10. CASE SleepReturn
    BY <1>10, SleepReturnStep
  <1>11. CASE TickYield
    BY <1>11, TickYieldStep
  <1>12. CASE UNCHANGED vars
    BY <1>12 DEF vars, MutexInv, TypeOK, KernelConsistent, IdleRunnable, WaitersParked,
                 ParkedInTake, RunsAwake, LockConsistent, OutcomeTrue,
                 PreemptionPending, Parked, Me
  <1> QED
    BY <1>1, <1>2, <1>3, <1>4, <1>5, <1>6, <1>7, <1>8, <1>9, <1>10, <1>11, <1>12 DEF Next

\* The invariant, for every value of the constants.
THEOREM MutexInvariant == Spec => []MutexInv
  BY MutexInvInit, MutexInvNext, PTL DEF Spec

\* Between any two sections of any of the calls the mutexes, their wait lists,
\* the thread states and the ready queues tell one story: a take that returns
\* RT_EOK has its mutex, exactly the waiters and the sleepers are suspended, and
\* a ready thread is passed over only where the code is about to reschedule or
\* gave up a boost.
THEOREM MutexConsistent == Spec => []Consistent
  <1>1. MutexInv => Consistent
    BY DEF MutexInv, Consistent
  <1> QED  BY <1>1, MutexInvariant, PTL

-----------------------------------------------------------------------------
(* Priorities *)

\* The steps that change no priority and no owner; only a timeout shortens a
\* wait list.
Quiet ==
    /\ k'.prio = k.prio
    /\ UNCHANGED <<owner, orig>>
    /\ UNCHANGED waiters \/ \E t \in Thread : TickTimeout(t)

\* What a step makes of priorities and owners.
LEMMA PriorityStep ==
    ASSUME MutexInv, [Next]_vars
    PROVE  \/ Quiet
           \/ \E m \in Mutex : \/ TakeFree(m)
                               \/ \E time \in Wait : TakeSuspend(m, time)
                               \/ /\ owner[m] = k.cur /\ pc[k.cur] = "run"
                                  /\ HandOver(m) \/ SetFree(m)
  <1>1. ASSUME NEW t \in Thread, Startup(t) PROVE Quiet
    BY <1>1, StartupKernel DEF Quiet, Startup, lockVars
  <1>2. ASSUME NEW t \in Thread, TickTimeout(t) PROVE Quiet
    BY <1>2, TimeoutKernel DEF Quiet, TickTimeout
  <1>3. ASSUME NEW m \in Mutex, TakeAgain(m) PROVE Quiet
    BY <1>3, Types DEF Quiet, TakeAgain, KernelState
  <1>4. ASSUME NEW m \in Mutex, ReleaseInner(m) PROVE Quiet
    BY <1>4 DEF Quiet, ReleaseInner
  <1>5. CASE Sleep
    BY <1>5, SleepKernel DEF Quiet, Sleep, lockVars
  <1>6. CASE CallSchedule
    BY <1>6, Types, AfterSchedule DEF Quiet, CallSchedule, lockVars
  <1>7. CASE TakeReturn
    BY <1>7 DEF Quiet, TakeReturn, lockVars
  <1>8. CASE SleepReturn
    BY <1>8, Types DEF Quiet, SleepReturn, lockVars, KernelState
  <1>9. CASE TickYield
    BY <1>9, Types, AfterSchedule DEF Quiet, TickYield, lockVars
  <1>10. CASE UNCHANGED vars
    BY <1>10 DEF Quiet, vars
  <1> QED
    BY <1>1, <1>2, <1>3, <1>4, <1>5, <1>6, <1>7, <1>8, <1>9, <1>10
       DEF Next, Release, ReleaseFinal, Me, At

\* The release that hands over and the one that sets free both give the caller
\* the priority it had when it took the mutex.
LEMMA ReleasePrio ==
    ASSUME MutexInv, NEW m \in Mutex, owner[m] = k.cur, pc[k.cur] = "run",
           HandOver(m) \/ SetFree(m)
    PROVE  k'.prio = [k.prio EXCEPT ![k.cur] = orig[m]] /\ orig[m] \in Prio
  <1>1. CASE HandOver(m)
    BY <1>1, HandOverKernel
  <1>2. CASE SetFree(m)
    BY <1>2, RestoredEffect DEF SetFree
  <1> QED  BY <1>1, <1>2

\* No mutex will give its owner a priority below its own.
Floors == \A m \in Mutex : owner[m] # None => orig[m] <= BasePrio[owner[m]]

\* Floors and priorities at the start.
LEMMA FloorsInit == Init => Floors /\ NeverDemoted
  <1> SUFFICES ASSUME Init PROVE Floors /\ NeverDemoted
    OBVIOUS
  <1>1. k.prio = BasePrio /\ \A m \in Mutex : owner[m] = None
    BY DEF Init, SectionsInit
  <1>2. \A t \in Thread : BasePrio[t] \in Int
    BY MutexAssumption, SectionsAssumption DEF Prio
  <1> QED  BY <1>1, <1>2 DEF Floors, NeverDemoted

\* They hold on: a recorded priority is one that its owner had.
LEMMA FloorsNext ==
    ASSUME MutexInv, Floors, NeverDemoted, [Next]_vars
    PROVE  Floors' /\ NeverDemoted'
  <1> USE Types
  <1>0. \A t \in Thread : k.prio[t] \in Int /\ BasePrio[t] \in Int /\ k.prio[t] <= BasePrio[t]
    BY MutexAssumption, SectionsAssumption DEF Prio, NeverDemoted
  <1>1. CASE Quiet
    BY <1>1 DEF Quiet, Floors, NeverDemoted
  <1>2. ASSUME NEW m \in Mutex, TakeFree(m) PROVE Floors' /\ NeverDemoted'
    <2>1. /\ owner' = [owner EXCEPT ![m] = k.cur]
          /\ orig' = [orig EXCEPT ![m] = k.prio[k.cur]]
          /\ k'.prio = k.prio
      BY <1>2 DEF TakeFree, Me, KernelState
    <2> QED  BY <1>0, <2>1 DEF Floors, NeverDemoted
  <1>3. ASSUME NEW m \in Mutex, NEW time \in Wait, TakeSuspend(m, time)
        PROVE  Floors' /\ NeverDemoted'
    <2> DEFINE p == IF k.prio[k.cur] < k.prio[owner[m]] THEN k.prio[k.cur]
                                                        ELSE k.prio[owner[m]]
    <2>1. /\ owner[m] \in App /\ UNCHANGED <<owner, orig>>
          /\ k'.prio = [k.prio EXCEPT ![owner[m]] = p]
          /\ p <= k.prio[owner[m]] /\ p \in Prio
      BY <1>3, TakeSuspendKernel
    <2> HIDE DEF p
    <2>2. p \in Int /\ p <= BasePrio[owner[m]]
      BY <1>0, <2>1 DEF Prio
    <2> QED  BY <1>0, <2>1, <2>2 DEF Floors, NeverDemoted
  <1>4. ASSUME NEW m \in Mutex, owner[m] = k.cur, pc[k.cur] = "run",
               HandOver(m) \/ SetFree(m)
        PROVE  Floors' /\ NeverDemoted'
    <2>1. k'.prio = [k.prio EXCEPT ![k.cur] = orig[m]] /\ orig[m] \in Prio
      BY <1>4, ReleasePrio
    <2>2. orig[m] <= BasePrio[k.cur]
      BY <1>4 DEF Floors
    <2>3. NeverDemoted'
      BY <1>0, <2>1, <2>2 DEF NeverDemoted
    <2>4. CASE HandOver(m)
      <3> DEFINE h == Head(waiters[m])
      <3>1. h \in Thread /\ owner' = [owner EXCEPT ![m] = h]
            /\ orig' = [orig EXCEPT ![m] = k.prio[h]]
        BY <2>4, FirstWaiter DEF HandOver
      <3> HIDE DEF h
      <3> QED  BY <1>0, <2>3, <3>1 DEF Floors
    <2>5. CASE SetFree(m)
      BY <2>3, <2>5 DEF SetFree, Floors
    <2> QED  BY <1>4, <2>4, <2>5
  <1> QED  BY <1>1, <1>2, <1>3, <1>4, PriorityStep

\* Whatever is nested in whatever: inheritance and its end never leave a thread
\* below the priority it was created with.
THEOREM MutexNeverDemotes == Spec => []NeverDemoted
  <1>1. MutexInv /\ Floors /\ NeverDemoted /\ [Next]_vars => Floors' /\ NeverDemoted'
    BY FloorsNext
  <1> QED  BY <1>1, FloorsInit, MutexInvariant, PTL DEF Spec

-----------------------------------------------------------------------------
(* Priority inheritance, one mutex at a time *)

\* A thread uses the mutexes it has and the one it waits for.
Uses(t, m) == owner[m] = t \/ t \in ToSet(waiters[m])

\* No thread takes a mutex while it has or waits for another.  The code does not
\* enforce it, and what follows is false without it: original_priority records
\* one priority per mutex, so that the release of one mutex gives back the
\* priority inherited through another.
NotNested == \A t \in App, m, n \in Mutex : Uses(t, m) /\ Uses(t, n) => m = n

\* What a mutex recorded is the priority its owner was created with.
OrigExact == \A m \in Mutex : owner[m] # None => orig[m] = BasePrio[owner[m]]

\* A thread that waits has its own priority: it has no mutex.
LEMMA WaiterUnboosted ==
    ASSUME MutexInv, NotNested, BoostEnds, NEW m \in Mutex, NEW t \in ToSet(waiters[m])
    PROVE  t \in App /\ k.prio[t] = BasePrio[t] /\ \A n \in Mutex : owner[n] # t
  <1>1. t \in App /\ t \in Thread
    <2>1. waiters[m] \in Seq(App)
      BY Types
    <2> QED  BY <2>1, LenProperties, ElementOfSeq DEF ToSet, App
  <1>2. \A n \in Mutex : owner[n] # t
    BY <1>1 DEF NotNested, Uses, MutexInv, LockConsistent
  <1> QED  BY <1>1, <1>2 DEF BoostEnds

\* The start: everybody at its own priority.
LEMMA BoostInit == Init => BoostEnds /\ OrigExact
  <1> SUFFICES ASSUME Init PROVE BoostEnds /\ OrigExact
    OBVIOUS
  <1>1. k.prio = BasePrio /\ \A m \in Mutex : owner[m] = None
    BY DEF Init, SectionsInit
  <1> QED  BY <1>1 DEF BoostEnds, OrigExact

\* A thread takes a mutex at its own priority, and gets that back when it
\* gives it up.
LEMMA BoostNext ==
    ASSUME MutexInv, NotNested, NotNested', BoostEnds, OrigExact, [Next]_vars
    PROVE  BoostEnds' /\ OrigExact'
  <1> USE Types
  <1>1. CASE Quiet
    BY <1>1 DEF Quiet, BoostEnds, OrigExact
  <1>2. ASSUME NEW m \in Mutex, TakeFree(m) PROVE BoostEnds' /\ OrigExact'
    <2> DEFINE c == k.cur
    <2>1. /\ c \in App /\ c \in Thread /\ owner' = [owner EXCEPT ![m] = c]
          /\ orig' = [orig EXCEPT ![m] = k.prio[c]]
          /\ k'.prio = k.prio /\ owner[m] # c
      BY <1>2 DEF TakeFree, Me, KernelState
    <2>2. \A n \in Mutex : owner[n] # c
      <3> SUFFICES ASSUME NEW n \in Mutex, owner[n] = c PROVE FALSE
        OBVIOUS
      <3>1. n # m
        BY <2>1
      <3>2. owner'[n] = c /\ owner'[m] = c
        BY <2>1, <3>1
      <3> QED  BY <2>1, <3>1, <3>2 DEF NotNested, Uses
    <2>3. k.prio[c] = BasePrio[c]
      BY <2>1, <2>2 DEF BoostEnds
    <2> HIDE DEF c
    <2>4. OrigExact'
      BY <2>1, <2>3 DEF OrigExact
    <2>5. BoostEnds'
      <3> SUFFICES ASSUME NEW t \in Thread, \A n \in Mutex : owner'[n] # t
                   PROVE  k'.prio[t] = BasePrio[t]
        BY DEF BoostEnds
      <3>1. t # c
        BY <2>1
      <3>2. \A n \in Mutex : owner[n] # t \/ n = m
        BY <2>1
      <3>3. owner[m] # t
        BY <1>2 DEF TakeFree, MutexInv, LockConsistent
      <3> QED  BY <2>1, <3>2, <3>3 DEF BoostEnds
    <2> QED  BY <2>4, <2>5
  <1>3. ASSUME NEW m \in Mutex, NEW time \in Wait, TakeSuspend(m, time)
        PROVE  BoostEnds' /\ OrigExact'
    <2> DEFINE p == IF k.prio[k.cur] < k.prio[owner[m]] THEN k.prio[k.cur]
                                                        ELSE k.prio[owner[m]]
    <2>1. UNCHANGED <<owner, orig>> /\ k'.prio = [k.prio EXCEPT ![owner[m]] = p]
      BY <1>3, TakeSuspendKernel
    <2> HIDE DEF p
    <2> QED  BY <2>1 DEF BoostEnds, OrigExact
  <1>4. ASSUME NEW m \in Mutex, owner[m] = k.cur, pc[k.cur] = "run",
               HandOver(m) \/ SetFree(m)
        PROVE  BoostEnds' /\ OrigExact'
    <2> DEFINE c == k.cur
    <2>1. k'.prio = [k.prio EXCEPT ![c] = orig[m]] /\ c \in Thread /\ c # None
      BY <1>4, ReleasePrio
    <2>2. orig[m] = BasePrio[c] /\ owner[m] = c
      BY <1>4, <2>1 DEF OrigExact
    <2>3. CASE HandOver(m)
      <3> DEFINE h == Head(waiters[m])
      <3>1. /\ h \in Thread /\ owner' = [owner EXCEPT ![m] = h] /\ h \in ToSet(waiters[m])
            /\ orig' = [orig EXCEPT ![m] = k.prio[h]]
        BY <2>3, FirstWaiter DEF HandOver
      <3> HIDE DEF h
      <3>2. k.prio[h] = BasePrio[h]
        BY <3>1, WaiterUnboosted
      <3> HIDE DEF c
      <3>3. OrigExact'
        BY <3>1, <3>2 DEF OrigExact
      <3>4. BoostEnds'
        <4> SUFFICES ASSUME NEW t \in Thread, \A n \in Mutex : owner'[n] # t
                     PROVE  k'.prio[t] = BasePrio[t]
          BY DEF BoostEnds
        <4>1. \A n \in Mutex : owner[n] # t \/ n = m
          BY <3>1
        <4>2. CASE t = c
          BY <2>1, <2>2, <4>2
        <4>3. CASE t # c
          BY <2>1, <2>2, <4>1, <4>3 DEF BoostEnds
        <4> QED  BY <4>2, <4>3
      <3> QED  BY <3>3, <3>4
    <2>4. CASE SetFree(m)
      <3>1. owner' = [owner EXCEPT ![m] = None] /\ orig' = [orig EXCEPT ![m] = None]
        BY <2>4 DEF SetFree
      <3> HIDE DEF c
      <3>2. OrigExact'
        BY <3>1 DEF OrigExact
      <3>3. BoostEnds'
        <4> SUFFICES ASSUME NEW t \in Thread, \A n \in Mutex : owner'[n] # t
                     PROVE  k'.prio[t] = BasePrio[t]
          BY DEF BoostEnds
        <4>1. \A n \in Mutex : owner[n] # t \/ n = m
          BY <3>1
        <4>2. CASE t = c
          BY <2>1, <2>2, <4>2
        <4>3. CASE t # c
          BY <2>1, <2>2, <4>1, <4>3 DEF BoostEnds
        <4> QED  BY <4>2, <4>3
      <3> QED  BY <3>2, <3>3
    <2> QED  BY <1>4, <2>3, <2>4
  <1> QED  BY <1>1, <1>2, <1>3, <1>4, PriorityStep

\* Used one at a time, mutexes leave nothing behind: a thread that has no mutex
\* runs at the priority it was created with.
THEOREM BoostEndsUnnested == Spec /\ []NotNested => []BoostEnds
  <1>1. /\ MutexInv /\ NotNested /\ NotNested' /\ BoostEnds /\ OrigExact /\ [Next]_vars
        => BoostEnds' /\ OrigExact'
    BY BoostNext
  <1> QED  BY <1>1, BoostInit, MutexInvariant, PTL DEF Spec

\* The wait lists with RT_IPC_FLAG_PRIO.
Ranked == \A m \in Mutex : ByUrgency(waiters[m], k.prio)

\* A list keeps its order when the priorities of its members do not change.
LEMMA SameRanks ==
    ASSUME NEW S, NEW q \in Seq(S), NEW a, NEW b,
           \A t \in ToSet(q) : b[t] = a[t], ByUrgency(q, a)
    PROVE  ByUrgency(q, b)
  <1>1. Len(q) \in Nat /\ \A i \in 1 .. Len(q) : q[i] \in ToSet(q)
    BY LenProperties DEF ToSet
  <1> QED  BY <1>1 DEF ByUrgency

\* The first of a list in priority order is as urgent as all the others.
LEMMA HeadFirst ==
    ASSUME NEW S, NEW q \in Seq(S), q # << >>, NEW prio,
           \A t \in S : prio[t] \in Int, ByUrgency(q, prio)
    PROVE  \A t \in ToSet(q) : prio[Head(q)] <= prio[t]
  <1>1. Len(q) \in Nat /\ Len(q) > 0 /\ DOMAIN q = 1 .. Len(q) /\ Head(q) = q[1]
    BY EmptySeq
  <1> SUFFICES ASSUME NEW i \in 1 .. Len(q) PROVE prio[q[1]] <= prio[q[i]]
    BY <1>1 DEF ToSet
  <1>2. q[1] \in S
    BY <1>1, ElementOfSeq
  <1>3. CASE i = 1
    BY <1>2, <1>3
  <1>4. CASE i > 1
    BY <1>1, <1>4 DEF ByUrgency
  <1> QED  BY <1>3, <1>4

\* The wait lists at the start.
LEMMA InheritInit == Init => OwnerInherits /\ Ranked
  <1> SUFFICES ASSUME Init PROVE OwnerInherits /\ Ranked
    OBVIOUS
  <1>1. \A m \in Mutex : waiters[m] = << >>
    BY DEF Init, SectionsInit
  <1>2. ToSet(<< >>) = {} /\ Len(<< >>) = 0
    BY DEF ToSet
  <1> QED  BY <1>1, <1>2 DEF OwnerInherits, Ranked, ByUrgency

\* A timeout takes a waiter off, which leaves the others in order.
LEMMA QuietInherit ==
    ASSUME MutexInv, OwnerInherits, Ranked, Quiet
    PROVE  OwnerInherits' /\ Ranked'
  <1>1. k'.prio = k.prio /\ UNCHANGED owner
    BY DEF Quiet
  <1>2. CASE UNCHANGED waiters
    BY <1>1, <1>2 DEF OwnerInherits, Ranked
  <1>3. ASSUME NEW t \in Thread, TickTimeout(t) PROVE OwnerInherits' /\ Ranked'
    <2>1. \A m \in Mutex : ToSet(waiters'[m]) \subseteq ToSet(waiters[m])
      BY <1>3, TimeoutLists
    <2>2. OwnerInherits'
      BY <1>1, <2>1 DEF OwnerInherits
    <2>3. ASSUME NEW m \in Mutex PROVE ByUrgency(waiters'[m], k'.prio)
      <3>1. waiters[m] \in Seq(App) /\ ByUrgency(waiters[m], k.prio)
        BY Types DEF Ranked
      <3>2. waiters'[m] = RemoveFirst(waiters[m], t)
        BY <1>3 DEF TickTimeout
      <3>3. ByUrgency(RemoveFirst(waiters[m], t), k.prio)
        BY <3>1, RemoveFirstInOrder
      <3> QED  BY <1>1, <3>2, <3>3
    <2> QED  BY <2>2, <2>3 DEF Ranked
  <1> QED  BY <1>2, <1>3 DEF Quiet

\* The take that waits: its caller hands its priority to the owner, and goes
\* where the list stays in order.
LEMMA TakeSuspendInherit ==
    ASSUME MutexInv, NotNested, NotNested', OwnerInherits, Ranked, Flag = "PRIO",
           NEW m \in Mutex, NEW time \in Wait, TakeSuspend(m, time)
    PROVE  OwnerInherits' /\ Ranked'
  <1> DEFINE c == k.cur
             o == owner[m]
             p == IF k.prio[c] < k.prio[o] THEN k.prio[c] ELSE k.prio[o]
             w == EnqueueWaiter(k, waiters[m], c, "PRIO")
  <1>1. /\ c \in App /\ o \in App /\ o # c /\ UNCHANGED owner
        /\ waiters' = [waiters EXCEPT ![m] = w]
        /\ w \in Seq(App) /\ ToSet(w) = ToSet(waiters[m]) \cup {c}
        /\ k'.prio = [k.prio EXCEPT ![o] = p]
        /\ p <= k.prio[o] /\ p <= k.prio[c] /\ p \in Prio
    BY TakeSuspendKernel
  <1>2. /\ waiters[m] \in Seq(App) /\ ByUrgency(waiters[m], k.prio)
        /\ k.prio \in [Thread -> Prio] /\ App \subseteq Thread
    BY Types DEF Ranked
  <1>3. ByUrgency(w, k.prio)
    <2> DEFINE q == waiters[m]
    <2>1. Ranks(k.prio, App)
      BY <1>2 DEF Ranks, Prio
    <2>2. q \in Seq(App) /\ c \in App /\ ByUrgency(q, k.prio)
      BY <1>1, <1>2
    <2> HIDE DEF q, c
    <2>3. ByUrgency(EnqueueWaiter(k, q, c, "PRIO"), k.prio)
      BY <2>1, <2>2, EnqueueInOrder
    <2> QED  BY <2>3 DEF q
  <1> HIDE DEF c, o, p, w
  <1>4. \A n \in Mutex : waiters'[n] = IF n = m THEN w ELSE waiters[n]
    BY <1>1, Types
  <1>5. \A n \in Mutex : o \notin ToSet(waiters'[n])
    <2> SUFFICES ASSUME NEW n \in Mutex, o \in ToSet(waiters'[n]) PROVE FALSE
      OBVIOUS
    <2>1. n = m
      BY <1>1 DEF NotNested, Uses, o
    <2> QED  BY <1>1, <1>4, <2>1 DEF MutexInv, LockConsistent, o
  <1>6. \A n \in Mutex : \A t \in ToSet(waiters'[n]) : t \in Thread /\ k'.prio[t] = k.prio[t]
    <2> SUFFICES ASSUME NEW n \in Mutex, NEW t \in ToSet(waiters'[n])
                 PROVE  t \in Thread /\ k'.prio[t] = k.prio[t]
      OBVIOUS
    <2>1. waiters'[n] \in Seq(App)
      BY <1>1, <1>2, <1>4, Types
    <2>2. t \in Thread /\ t # o
      BY <1>2, <1>5, <2>1, LenProperties, ElementOfSeq DEF ToSet
    <2> QED  BY <1>1, <1>2, <2>2
  <1>7. Ranked'
    <2> SUFFICES ASSUME NEW n \in Mutex PROVE ByUrgency(waiters'[n], k'.prio)
      BY DEF Ranked
    <2>1. waiters'[n] \in Seq(App) /\ ByUrgency(waiters'[n], k.prio)
      BY <1>1, <1>3, <1>4, Types DEF Ranked
    <2> DEFINE q == waiters'[n]
               a == k.prio
               b == k'.prio
    <2>2. q \in Seq(App) /\ ByUrgency(q, a) /\ \A t \in ToSet(q) : b[t] = a[t]
      BY <1>6, <2>1
    <2> HIDE DEF q, a, b
    <2>3. ByUrgency(q, b)
      BY <2>2, SameRanks
    <2> QED  BY <2>3 DEF q, b
  <1>8. OwnerInherits'
    <2> SUFFICES ASSUME NEW n \in Mutex, NEW t \in ToSet(waiters'[n])
                 PROVE  k'.prio[owner[n]] <= k'.prio[t]
      BY <1>1 DEF OwnerInherits
    <2>1. t \in Thread /\ k'.prio[t] = k.prio[t] /\ k.prio[t] \in Int
      BY <1>2, <1>6 DEF Prio
    <2>2. p \in Int /\ k.prio[o] \in Int /\ k.prio[c] \in Int /\ o \in Thread
      BY <1>1, <1>2 DEF Prio
    <2>3. CASE n = m
      <3>1. k'.prio[owner[n]] = p
        BY <1>1, <1>2, <2>2, <2>3 DEF o
      <3>2. t \in ToSet(waiters[m]) \/ t = c
        BY <1>1, <1>4, <2>3
      <3>3. t \in ToSet(waiters[m]) => k.prio[o] <= k.prio[t]
        BY DEF OwnerInherits, o
      <3> QED  BY <1>1, <2>1, <2>2, <3>1, <3>2, <3>3
    <2>4. CASE n # m
      <3>1. t \in ToSet(waiters[n])
        BY <1>4, <2>4
      <3>2. k.prio[owner[n]] <= k.prio[t] /\ owner[n] \in App
        BY <3>1, Types, EmptyList DEF OwnerInherits, MutexInv, LockConsistent
      <3>3. owner[n] # o
        BY <1>1, <2>4 DEF NotNested, Uses, o
      <3> QED  BY <1>1, <1>2, <2>1, <3>2, <3>3
    <2> QED  BY <2>3, <2>4
  <1> QED  BY <1>7, <1>8

\* The releases: the caller waits for nothing, so that no list sees its change of
\* priority, and the first waiter is as urgent as those it becomes the owner for.
LEMMA ReleaseInherit ==
    ASSUME MutexInv, NotNested, OwnerInherits, Ranked,
           NEW m \in Mutex, owner[m] = k.cur, pc[k.cur] = "run",
           HandOver(m) \/ SetFree(m)
    PROVE  OwnerInherits' /\ Ranked'
  <1> DEFINE c == k.cur
  <1>1. k'.prio = [k.prio EXCEPT ![c] = orig[m]] /\ orig[m] \in Prio
    BY ReleasePrio
  <1>2. c \in App /\ owner[m] = c /\ k.prio \in [Thread -> Prio]
    BY Types
  <1>3. c \notin Parked
    BY <1>2, Types DEF MutexInv, RunsAwake, WaitersParked
  <1>4. \A n \in Mutex : \A t \in ToSet(waiters[n]) : t \in Thread /\ t # c
    <2> SUFFICES ASSUME NEW n \in Mutex, NEW t \in ToSet(waiters[n])
                 PROVE  t \in Thread /\ t # c
      OBVIOUS
    <2>1. waiters[n] \in Seq(App) /\ App \subseteq Thread
      BY Types
    <2>2. t \in Thread
      BY <2>1, LenProperties, ElementOfSeq DEF ToSet
    <2> QED  BY <1>3, <2>2 DEF Parked
  <1> HIDE DEF c
  <1>5. \A n \in Mutex : \A t \in ToSet(waiters[n]) : k'.prio[t] = k.prio[t]
    BY <1>1, <1>2, <1>4
  <1>6. \A n \in Mutex : ByUrgency(waiters[n], k'.prio)
    <2> SUFFICES ASSUME NEW n \in Mutex PROVE ByUrgency(waiters[n], k'.prio)
      OBVIOUS
    <2> DEFINE q == waiters[n]
               a == k.prio
               b == k'.prio
    <2>1. q \in Seq(App) /\ ByUrgency(q, a) /\ \A t \in ToSet(q) : b[t] = a[t]
      BY <1>5, Types DEF Ranked
    <2> HIDE DEF q, a, b
    <2>2. ByUrgency(q, b)
      BY <2>1, SameRanks
    <2> QED  BY <2>2 DEF q, b
  <1>7. \A n \in Mutex \ {m} : owner[n] # c
    BY <1>2 DEF NotNested, Uses
  <1>8. CASE SetFree(m)
    <2>1. UNCHANGED waiters /\ waiters[m] = << >> /\ owner' = [owner EXCEPT ![m] = None]
      BY <1>8 DEF SetFree
    <2>2. Ranked'
      BY <1>6, <2>1 DEF Ranked
    <2> SUFFICES ASSUME NEW n \in Mutex, NEW t \in ToSet(waiters[n])
                 PROVE  k'.prio[owner'[n]] <= k'.prio[t]
      BY <2>1, <2>2 DEF OwnerInherits
    <2>3. n # m
      BY <2>1, EmptyList, Types
    <2>4. owner'[n] = owner[n] /\ owner[n] # c /\ owner[n] \in App
      BY <1>7, <2>1, <2>3, Types, EmptyList DEF MutexInv, LockConsistent
    <2>5. k.prio[owner[n]] <= k.prio[t]
      BY DEF OwnerInherits
    <2> QED  BY <1>1, <1>2, <1>5, <2>4, <2>5, Types
  <1>9. CASE HandOver(m)
    <2> DEFINE h == Head(waiters[m])
    <2>1. /\ waiters[m] # << >> /\ waiters' = [waiters EXCEPT ![m] = Tail(waiters[m])]
          /\ owner' = [owner EXCEPT ![m] = h]
      BY <1>9 DEF HandOver
    <2>2. /\ h \in App /\ h \in ToSet(waiters[m])
          /\ ToSet(Tail(waiters[m])) = ToSet(waiters[m]) \ {h}
          /\ Tail(waiters[m]) \in Seq(App)
      BY <2>1, FirstWaiter
    <2>3. \A t \in ToSet(waiters[m]) : k.prio[h] <= k.prio[t]
      <3>1. \A t \in App : k.prio[t] \in Int
        BY Types DEF Prio
      <3> QED  BY <2>1, <3>1, Types, HeadFirst DEF Ranked
    <2>4. ByUrgency(Tail(waiters[m]), k'.prio)
      <3> DEFINE q == waiters[m]
                 b == k'.prio
      <3>1. q \in Seq(App) /\ q # << >> /\ ByUrgency(q, b)
        BY <1>6, <2>1, Types
      <3> HIDE DEF q, b
      <3>2. ByUrgency(Tail(q), b)
        BY <3>1, TailInOrder
      <3> QED  BY <3>2 DEF q, b
    <2> HIDE DEF h
    <2>5. \A n \in Mutex : waiters'[n] = IF n = m THEN Tail(waiters[m]) ELSE waiters[n]
      BY <2>1, Types
    <2>6. Ranked'
      BY <1>6, <2>4, <2>5 DEF Ranked
    <2> SUFFICES ASSUME NEW n \in Mutex, NEW t \in ToSet(waiters'[n])
                 PROVE  k'.prio[owner'[n]] <= k'.prio[t]
      BY <2>6 DEF OwnerInherits
    <2>7. CASE n = m
      <3>1. owner'[n] = h /\ t \in ToSet(waiters[m])
        BY <2>1, <2>2, <2>5, <2>7, Types
      <3> QED  BY <1>5, <2>2, <2>3, <3>1
    <2>8. CASE n # m
      <3>1. t \in ToSet(waiters[n]) /\ owner'[n] = owner[n]
        BY <2>1, <2>5, <2>8, Types
      <3>2. owner[n] # c /\ owner[n] \in App
        BY <1>7, <2>8, <3>1, Types, EmptyList DEF MutexInv, LockConsistent
      <3>3. k.prio[owner[n]] <= k.prio[t]
        BY <3>1 DEF OwnerInherits
      <3> QED  BY <1>1, <1>2, <1>5, <3>1, <3>2, <3>3, Types
    <2> QED  BY <2>7, <2>8
  <1> QED  BY <1>8, <1>9

\* Inheritance keeps up with whoever comes, leaves or gives the mutex on.
LEMMA InheritNext ==
    ASSUME MutexInv, NotNested, NotNested', OwnerInherits, Ranked, Flag = "PRIO",
           [Next]_vars
    PROVE  OwnerInherits' /\ Ranked'
  <1>1. CASE Quiet
    BY <1>1, QuietInherit
  <1>2. ASSUME NEW m \in Mutex, TakeFree(m) PROVE OwnerInherits' /\ Ranked'
    <2>1. k'.prio = k.prio /\ UNCHANGED waiters /\ owner' = [owner EXCEPT ![m] = k.cur]
      BY <1>2, Types DEF TakeFree, Me, KernelState
    <2>2. ToSet(waiters[m]) = {}
      <3>1. value[m] = 1
        BY <1>2, Types DEF TakeFree
      <3> QED  BY <3>1, Types, EmptyList DEF MutexInv, LockConsistent
    <2>3. OwnerInherits'
      BY <2>1, <2>2, Types DEF OwnerInherits
    <2> QED  BY <2>1, <2>3 DEF Ranked
  <1>3. ASSUME NEW m \in Mutex, NEW time \in Wait, TakeSuspend(m, time)
        PROVE  OwnerInherits' /\ Ranked'
    BY <1>3, TakeSuspendInherit
  <1>4. ASSUME NEW m \in Mutex, owner[m] = k.cur, pc[k.cur] = "run",
               HandOver(m) \/ SetFree(m)
        PROVE  OwnerInherits' /\ Ranked'
    BY <1>4, ReleaseInherit
  <1> QED  BY <1>1, <1>2, <1>3, <1>4, PriorityStep

\* Used one at a time, with RT_IPC_FLAG_PRIO: the owner of a mutex is as urgent as
\* everybody who waits for it, also after timeouts and hand-overs.
THEOREM OwnerInheritsUnnested ==
    ASSUME Flag = "PRIO"
    PROVE  Spec /\ []NotNested => []OwnerInherits
  <1>1. /\ MutexInv /\ NotNested /\ NotNested' /\ OwnerInherits /\ Ranked /\ [Next]_vars
        => OwnerInherits' /\ Ranked'
    BY InheritNext
  <1> QED  BY <1>1, InheritInit, MutexInvariant, PTL DEF Spec

\* With a single mutex nothing can be nested.
LEMMA OneMutexUnnested ==
    ASSUME \A m, n \in Mutex : m = n
    PROVE  NotNested
  BY DEF NotNested

\* With a single mutex and RT_IPC_FLAG_PRIO, priority inheritance keeps its two
\* promises with no condition on the threads.
THEOREM OneMutexInherits ==
    ASSUME \A m, n \in Mutex : m = n, Flag = "PRIO"
    PROVE  Spec => [](OwnerInherits /\ BoostEnds)
  <1>1. NotNested
    BY OneMutexUnnested
  <1> QED  BY <1>1, OwnerInheritsUnnested, BoostEndsUnnested, PTL

-----------------------------------------------------------------------------
(* The refinement mapping *)

\* The idle thread calls nothing.
IdleOutside == pc[Idle] = "run"

\* The take of t was answered with m and has not returned yet.
GrantedOn(m, t) ==
    /\ owner[m] = t /\ pc[t] \in {"blocked", "wait"}
    /\ k.err[t] = "EOK" /\ k.stat[t] # "SUSPEND"

\* What the mapping makes of a thread in the states of the invariant.
CallOf(m, t) ==
    /\ t \in ToSet(waiters[m]) => CallOn(m)[t] = "waiting" /\ ~ GrantedOn(m, t)
    /\ GrantedOn(m, t) => CallOn(m)[t] = "granted"
    /\ t \notin ToSet(waiters[m]) /\ ~ GrantedOn(m, t) => CallOn(m)[t] = "none"

Mapping(m) ==
    /\ CallOn(m) = [t \in App |-> CallOn(m)[t]]
    /\ \A t \in App : CallOf(m, t)

\* The owner does not wait, so that the cases of CallOn exclude one another.
LEMMA CallCases == ASSUME NEW m \in Mutex PROVE MutexInv => Mapping(m)
  <1> SUFFICES ASSUME MutexInv PROVE Mapping(m)
    OBVIOUS
  <1>1. CallOn(m) = [t \in App |-> CallOn(m)[t]]
    BY DEF CallOn
  <1>2. ASSUME NEW t \in App PROVE CallOf(m, t)
    <2>1. CallOn(m)[t] = CASE t \in ToSet(waiters[m]) -> "waiting"
                           [] GrantedOn(m, t) -> "granted"
                           [] OTHER -> "none"
      BY DEF CallOn, GrantedOn
    <2>2. t \in ToSet(waiters[m]) => ~ GrantedOn(m, t)
      BY DEF MutexInv, LockConsistent, GrantedOn
    <2> QED  BY <2>1, <2>2 DEF CallOf
  <1> QED  BY <1>1, <1>2 DEF Mapping

\* The mapping before and after a step between states of the invariant.
LEMMA MappingStep ==
    ASSUME MutexInv, MutexInv', NEW m \in Mutex
    PROVE  Mapping(m) /\ Mapping(m)'
  <1>1. MutexInv' => Mapping(m)'
    BY CallCases, PTL
  <1> QED  BY <1>1, CallCases

\* Nothing that the mapping reads of t and m changes.
SameCall(m, t) ==
    /\ t \in ToSet(waiters'[m]) <=> t \in ToSet(waiters[m])
    /\ GrantedOn(m, t)' <=> GrantedOn(m, t)

\* A step that the lock m does not see.
Silent(m) == owner'[m] = owner[m] /\ hold'[m] = hold[m] /\ CallOn(m)' = CallOn(m)

\* The calls stay what they are when nothing changes for any thread.
LEMMA SameCalls ==
    ASSUME MutexInv, MutexInv', NEW m \in Mutex, \A t \in App : SameCall(m, t)
    PROVE  CallOn(m)' = CallOn(m)
  <1>1. Mapping(m) /\ Mapping(m)'
    BY MappingStep
  <1>2. ASSUME NEW t \in App PROVE CallOn(m)'[t] = CallOn(m)[t]
    BY <1>1 DEF Mapping, CallOf, SameCall
  <1> QED  BY <1>1, <1>2 DEF Mapping

\* They stay but for the one of c when nothing changes for any other thread.
LEMMA OneCall ==
    ASSUME MutexInv, MutexInv', NEW m \in Mutex, NEW c \in App,
           \A t \in App \ {c} : SameCall(m, t)
    PROVE  CallOn(m)' = [CallOn(m) EXCEPT ![c] = CallOn(m)'[c]]
  <1>1. Mapping(m) /\ Mapping(m)'
    BY MappingStep
  <1>2. ASSUME NEW t \in App \ {c} PROVE CallOn(m)'[t] = CallOn(m)[t]
    BY <1>1 DEF Mapping, CallOf, SameCall
  <1> QED  BY <1>1, <1>2 DEF Mapping

\* A thread in application code has no call on any mutex.
LEMMA RunningCallsNothing ==
    ASSUME MutexInv, NEW m \in Mutex, pc[k.cur] = "run", k.cur \in App
    PROVE  CallOn(m)[k.cur] = "none" /\ k.cur \notin ToSet(waiters[m])
  <1>1. k.cur \notin ToSet(waiters[m])
    BY Types DEF MutexInv, RunsAwake, WaitersParked, Parked
  <1>2. ~ GrantedOn(m, k.cur)
    BY DEF GrantedOn
  <1>3. Mapping(m)
    BY CallCases
  <1> QED  BY <1>1, <1>2, <1>3 DEF Mapping, CallOf

-----------------------------------------------------------------------------
(* Steps that no lock sees *)

\* A step that leaves lists, owners, error numbers and suspensions alone, and
\* nobody enters or leaves rt_mutex_take.
LEMMA IdleStep ==
    ASSUME MutexInv, MutexInv', NEW m \in Mutex, UNCHANGED lockVars, k'.err = k.err,
           \A t \in Thread : k'.stat[t] = "SUSPEND" <=> k.stat[t] = "SUSPEND",
           \A t \in Thread : pc'[t] \in {"blocked", "wait"} <=> pc[t] \in {"blocked", "wait"}
    PROVE  Silent(m)
  <1>1. UNCHANGED <<owner, hold, waiters>>
    BY DEF lockVars
  <1>2. \A t \in App : SameCall(m, t)
    BY <1>1, Types DEF SameCall, GrantedOn
  <1> QED  BY <1>1, <1>2, SameCalls DEF Silent

\* rt_thread_startup, the end of a time slice and the rt_schedule of a call.
LEMMA SchedulingMaps ==
    ASSUME MutexInv, MutexInv', NEW m \in Mutex,
           TickYield \/ CallSchedule \/ \E t \in Thread : Startup(t)
    PROVE  Silent(m)
  <1>1. ASSUME NEW t \in Thread, Startup(t) PROVE Silent(m)
    <2>1. UNCHANGED lockVars /\ UNCHANGED pc
      BY <1>1 DEF Startup
    <2> QED  BY <1>1, <2>1, StartupKernel, IdleStep
  <1>2. CASE TickYield
    <2>1. Reschedule(k) /\ UNCHANGED lockVars /\ UNCHANGED pc
      BY <1>2 DEF TickYield
    <2> QED  BY <2>1, Types, AfterSchedule, IdleStep
  <1>3. CASE CallSchedule
    <2>1. /\ Reschedule(k) /\ UNCHANGED lockVars
          /\ pc[k.cur] \in {"pend", "blocked", "sleep"}
          /\ pc' = [pc EXCEPT ![k.cur] = CASE pc[k.cur] = "pend" -> "run"
                                           [] pc[k.cur] = "blocked" -> "wait"
                                           [] OTHER -> "asleep"]
      BY <1>3 DEF CallSchedule, Me, At, Goto
    <2>2. \A t \in Thread : pc'[t] \in {"blocked", "wait"} <=> pc[t] \in {"blocked", "wait"}
      BY <2>1, Types
    <2> QED  BY <2>1, <2>2, Types, AfterSchedule, IdleStep
  <1> QED  BY <1>1, <1>2, <1>3

\* A step of a thread that is neither before nor after it inside rt_mutex_take,
\* and changes no error number, state or place of the others.
LEMMA OwnStep ==
    ASSUME MutexInv, MutexInv', NEW m \in Mutex,
           UNCHANGED waiters,
           pc[k.cur] \notin {"blocked", "wait"}, pc'[k.cur] \notin {"blocked", "wait"},
           \A t \in App \ {k.cur} :
               /\ owner'[m] = t <=> owner[m] = t
               /\ pc'[t] = pc[t] /\ k'.err[t] = k.err[t] /\ k'.stat[t] = k.stat[t]
    PROVE  CallOn(m)' = CallOn(m)
  <1>1. ASSUME NEW t \in App PROVE SameCall(m, t)
    <2>1. CASE t = k.cur
      BY <2>1 DEF SameCall, GrantedOn
    <2>2. CASE t # k.cur
      BY <2>2 DEF SameCall, GrantedOn
    <2> QED  BY <2>1, <2>2
  <1> QED  BY <1>1, SameCalls

\* rt_thread_sleep and its return.
LEMMA SleepMaps ==
    ASSUME MutexInv, MutexInv', NEW m \in Mutex, Sleep \/ SleepReturn
    PROVE  Silent(m)
  <1> USE Types
  <1> DEFINE c == k.cur
  <1>1. CASE Sleep
    <2>1. /\ pc[c] = "run" /\ pc' = [pc EXCEPT ![c] = "sleep"]
          /\ UNCHANGED <<owner, hold, waiters>>
      BY <1>1 DEF Sleep, Me, At, Goto, lockVars
    <2>2. k'.err = k.err /\ k'.stat = [k.stat EXCEPT ![c] = "SUSPEND"] /\ c \in Thread
      BY <1>1, SleepKernel
    <2>3. \A t \in App \ {c} : pc'[t] = pc[t] /\ k'.err[t] = k.err[t] /\ k'.stat[t] = k.stat[t]
      BY <2>1, <2>2 DEF App
    <2> QED  BY <2>1, <2>2, <2>3, OwnStep DEF Silent
  <1>2. CASE SleepReturn
    <2>1. /\ pc[c] = "asleep" /\ pc' = [pc EXCEPT ![c] = "run"]
          /\ UNCHANGED <<owner, hold, waiters>>
          /\ k' = k \/ k' = [k EXCEPT !.err[c] = "EOK"]
      BY <1>2 DEF SleepReturn, Me, At, Goto, lockVars
    <2>2. k'.stat = k.stat /\ \A t \in App \ {c} : k'.err[t] = k.err[t]
      BY <2>1 DEF App, KernelState
    <2>3. \A t \in App \ {c} : pc'[t] = pc[t] /\ k'.err[t] = k.err[t] /\ k'.stat[t] = k.stat[t]
      BY <2>1, <2>2 DEF App
    <2> QED  BY <2>1, <2>3, OwnStep DEF Silent
  <1> QED  BY <1>1, <1>2

-----------------------------------------------------------------------------
(* Takes *)

\* A recursive take, and the release of one.
LEMMA DepthMaps ==
    ASSUME MutexInv, MutexInv', NEW m \in Mutex, NEW n \in Mutex,
           TakeAgain(n) \/ ReleaseInner(n)
    PROVE  Silent(m) \/ \E c \in App : L(m)!Again(c) \/ L(m)!Unlock(c)
  <1> USE Types
  <1> DEFINE c == k.cur
  <1>1. /\ pc[c] = "run" /\ owner[n] = c /\ c \in App /\ c \in Thread
        /\ UNCHANGED <<owner, waiters, pc>>
    BY DEF TakeAgain, ReleaseInner, Me, At
  <1>2. k'.stat = k.stat /\ \A t \in App \ {c} : k'.err[t] = k.err[t]
    <2>1. CASE TakeAgain(n)
      BY <2>1 DEF TakeAgain, Me, App, KernelState
    <2>2. CASE ReleaseInner(n)
      BY <2>2 DEF ReleaseInner
    <2> QED  BY <2>1, <2>2
  <1>3. CallOn(m)' = CallOn(m)
    BY <1>1, <1>2, OwnStep
  <1>4. CASE n # m
    BY <1>1, <1>3, <1>4 DEF Silent, TakeAgain, ReleaseInner
  <1>5. CASE n = m
    <2>1. CallOn(m)[c] = "none"
      BY <1>1, RunningCallsNothing
    <2>2. CASE TakeAgain(n)
      <3>1. hold[m] < MaxHold /\ hold'[m] = (hold[m] + 1) % HoldMod
        BY <1>5, <2>2 DEF TakeAgain
      <3>2. hold[m] \in 0 .. MaxHold - 1
        BY <3>1, MutexAssumption, SectionsAssumption
      <3>3. hold'[m] = hold[m] + 1
        BY <3>1, <3>2, HoldCounts
      <3> QED  BY <1>1, <1>3, <1>5, <2>1, <3>1, <3>3 DEF L!Again
    <2>3. CASE ReleaseInner(n)
      <3>1. hold[m] > 1 /\ hold'[m] = hold[m] - 1
        BY <1>5, <2>3 DEF ReleaseInner
      <3> QED  BY <1>1, <1>3, <1>5, <2>1, <3>1 DEF L!Unlock
    <2> QED  BY <2>2, <2>3
  <1> QED  BY <1>4, <1>5

\* The take of a free mutex.
LEMMA TakeFreeMaps ==
    ASSUME MutexInv, MutexInv', NEW m \in Mutex, NEW n \in Mutex, TakeFree(n)
    PROVE  Silent(m) \/ \E c \in App : L(m)!Acquire(c)
  <1> USE Types
  <1> DEFINE c == k.cur
  <1>1. /\ c \in App /\ pc[c] = "run" /\ value[n] > 0
        /\ owner' = [owner EXCEPT ![n] = c]
        /\ hold' = [hold EXCEPT ![n] = (hold[n] + 1) % HoldMod]
        /\ UNCHANGED <<waiters, pc>>
    BY DEF TakeFree, Me, At
  <1>2. k'.stat = k.stat /\ \A t \in App \ {c} : k'.err[t] = k.err[t]
    BY DEF TakeFree, Me, App, KernelState
  <1>3. owner[n] = None /\ hold[n] = 0
    <2>1. value[n] = 1
      BY <1>1
    <2> QED  BY <2>1 DEF MutexInv, LockConsistent
  <1>4. \A t \in App \ {c} : owner'[m] = t <=> owner[m] = t
    BY <1>1, <1>3
  <1>5. CallOn(m)' = CallOn(m)
    BY <1>1, <1>2, <1>4, OwnStep
  <1>6. CASE n # m
    BY <1>1, <1>5, <1>6 DEF Silent
  <1>7. CASE n = m
    <2>1. CallOn(m)[c] = "none"
      BY <1>1, RunningCallsNothing
    <2>2. hold'[m] = 1
      <3>1. 0 \in 0 .. MaxHold - 1
        BY MutexAssumption, SectionsAssumption
      <3>2. (0 + 1) % HoldMod = 0 + 1
        BY <3>1, HoldCounts
      <3> QED  BY <1>1, <1>3, <1>7, <3>2
    <2> QED  BY <1>1, <1>3, <1>5, <1>7, <2>1, <2>2 DEF L!Acquire
  <1> QED  BY <1>6, <1>7

\* The take that suspends its caller.
LEMMA TakeSuspendMaps ==
    ASSUME MutexInv, MutexInv', NEW m \in Mutex, NEW n \in Mutex, NEW time \in Wait,
           TakeSuspend(n, time)
    PROVE  Silent(m) \/ \E c \in App : L(m)!WaitFor(c)
  <1> USE Types
  <1>0. PICK c \in App : c = k.cur
    BY TakeSuspendKernel
  <1> DEFINE w == EnqueueWaiter(k, waiters[n], c, Flag)
  <1>1. /\ c \in App /\ pc[c] = "run" /\ pc' = [pc EXCEPT ![c] = "blocked"]
        /\ owner[n] \in App /\ owner[n] # c /\ c \notin Parked
        /\ UNCHANGED <<owner, hold>>
        /\ waiters' = [waiters EXCEPT ![n] = w]
        /\ ToSet(w) = ToSet(waiters[n]) \cup {c}
        /\ k'.stat = [k.stat EXCEPT ![c] = "SUSPEND"]
        /\ k'.err = [k.err EXCEPT ![c] = "EOK"]
    BY <1>0, TakeSuspendKernel
  <1>2. CallOn(m)[c] = "none" /\ c \notin ToSet(waiters[m])
    BY <1>0, <1>1, RunningCallsNothing
  <1> HIDE DEF w
  <1>3. /\ waiters'[n] = w /\ \A o \in Mutex \ {n} : waiters'[o] = waiters[o]
        /\ \A t \in App \ {c} : pc'[t] = pc[t] /\ k'.err[t] = k.err[t] /\ k'.stat[t] = k.stat[t]
    BY <1>1 DEF App
  <1>4. ASSUME NEW t \in App \ {c} PROVE SameCall(m, t)
    <2>1. t \in ToSet(waiters'[m]) <=> t \in ToSet(waiters[m])
      BY <1>1, <1>3
    <2> QED  BY <1>1, <1>3, <2>1 DEF SameCall, GrantedOn
  <1>5. ~ GrantedOn(m, c) /\ ~ GrantedOn(m, c)'
    <2>1. c \in Thread /\ k.stat \in [Thread -> Stat] /\ pc \in [Thread -> Pc]
      BY <1>1
    <2>2. pc[c] = "run" /\ k'.stat[c] = "SUSPEND"
      BY <1>1, <2>1
    <2> QED  BY <2>2 DEF GrantedOn
  <1>6. CASE n # m
    <2>1. SameCall(m, c)
      BY <1>3, <1>5, <1>6 DEF SameCall
    <2>2. \A t \in App : SameCall(m, t)
      BY <1>4, <2>1
    <2> QED  BY <1>1, <2>2, SameCalls DEF Silent
  <1>7. CASE n = m
    <2>1. CallOn(m)'[c] = "waiting"
      BY <1>1, <1>3, <1>7, MappingStep DEF Mapping, CallOf
    <2>2. CallOn(m)' = [CallOn(m) EXCEPT ![c] = "waiting"]
      BY <1>1, <1>4, <2>1, OneCall
    <2>3. owner[m] \notin {None, c} /\ owner'[m] = owner[m] /\ hold'[m] = hold[m]
      BY <1>1, <1>7
    <2> QED  BY <1>1, <1>2, <2>2, <2>3 DEF L!WaitFor
  <1> QED  BY <1>6, <1>7

\* The return of a take that was suspended.
LEMMA TakeReturnMaps ==
    ASSUME MutexInv, MutexInv', NEW m \in Mutex, IdleOutside, TakeReturn
    PROVE  Silent(m) \/ \E c \in App : L(m)!Return(c)
  <1> USE Types
  <1>0. PICK c \in Thread : c = k.cur
    OBVIOUS
  <1>1. /\ pc[c] = "wait" /\ pc' = [pc EXCEPT ![c] = "run"]
        /\ UNCHANGED <<k, owner, hold, waiters>>
    BY <1>0 DEF TakeReturn, Me, At, Goto, lockVars
  <1>2. c \in App
    <2>1. c # Idle
      BY <1>1 DEF IdleOutside
    <2> QED  BY <2>1 DEF App
  <1>3. c \notin ToSet(waiters[m])
    BY <1>0, <1>1, <1>2 DEF MutexInv, RunsAwake, WaitersParked, Parked
  <1>4. ~ GrantedOn(m, c)'
    <2>1. pc'[c] = "run"
      BY <1>1, <1>2
    <2> QED  BY <2>1 DEF GrantedOn
  <1>5. \A t \in App \ {c} : SameCall(m, t)
    BY <1>1, <1>2 DEF SameCall, GrantedOn, App
  <1>6. CASE GrantedOn(m, c)
    <2>1. CallOn(m)[c] = "granted" /\ CallOn(m)'[c] = "none"
      <3>1. CallOf(m, c) /\ CallOf(m, c)'
        BY <1>2, MappingStep DEF Mapping
      <3>2. c \notin ToSet(waiters'[m])
        BY <1>1, <1>3
      <3> QED  BY <1>3, <1>4, <1>6, <3>1, <3>2 DEF CallOf
    <2>2. CallOn(m)' = [CallOn(m) EXCEPT ![c] = "none"]
      BY <1>2, <1>5, <2>1, OneCall
    <2> QED  BY <1>1, <1>2, <2>1, <2>2 DEF L!Return
  <1>7. CASE ~ GrantedOn(m, c)
    <2>1. SameCall(m, c)
      BY <1>1, <1>4, <1>7 DEF SameCall
    <2>2. \A t \in App : SameCall(m, t)
      BY <1>5, <2>1
    <2> QED  BY <1>1, <2>2, SameCalls DEF Silent
  <1> QED  BY <1>6, <1>7

-----------------------------------------------------------------------------
(* The release that ends an ownership *)

\* The hand-over is one step of the lock: it is never free in between.
LEMMA HandOverMaps ==
    ASSUME MutexInv, MutexInv', NotNested, NEW m \in Mutex, NEW n \in Mutex,
           owner[n] = k.cur, pc[k.cur] = "run", hold[n] = 1, HandOver(n)
    PROVE  Silent(m) \/ \E c \in App : L(m)!Unlock(c)
  <1> USE Types
  <1>0. PICK c \in App : c = k.cur
    OBVIOUS
  <1>1. PICK h \in App : h = Head(waiters[n])
    BY FirstWaiter DEF HandOver
  <1>2. /\ h \in Thread /\ h \in ToSet(waiters[n])
        /\ k.stat[h] = "SUSPEND" /\ k.err[h] = "EOK"
        /\ pc[h] \in {"blocked", "wait"} /\ owner[n] # h
        /\ \A o \in Mutex \ {n} : h \notin ToSet(waiters[o])
        /\ ToSet(Tail(waiters[n])) = ToSet(waiters[n]) \ {h}
    BY <1>1, FirstWaiter DEF HandOver
  <1>3. /\ owner' = [owner EXCEPT ![n] = h] /\ hold' = [hold EXCEPT ![n] = 1]
        /\ waiters' = [waiters EXCEPT ![n] = Tail(waiters[n])]
        /\ pc' = [pc EXCEPT ![c] = "pend"]
    BY <1>0, <1>1 DEF HandOver, Me, Goto
  <1>4. k'.stat = [k.stat EXCEPT ![h] = "READY"] /\ k'.err = k.err
    BY <1>1, HandOverKernel
  <1>5. /\ waiters'[n] = Tail(waiters[n])
        /\ \A o \in Mutex \ {n} : waiters'[o] = waiters[o] /\ owner'[o] = owner[o]
        /\ pc[c] = "run" /\ pc'[c] = "pend" /\ owner[n] = c
        /\ \A t \in App \ {c} : pc'[t] = pc[t]
        /\ \A t \in App \ {h} : k'.stat[t] = k.stat[t]
    BY <1>0, <1>3, <1>4 DEF App
  <1>6. ~ GrantedOn(m, c) /\ ~ GrantedOn(m, c)'
    BY <1>5 DEF GrantedOn
  <1>7. CASE n # m
    <2>1. owner[m] # h /\ owner'[m] = owner[m]
      BY <1>2, <1>5, <1>7 DEF NotNested, Uses
    <2>2. \A t \in App \ {c} : GrantedOn(m, t)' <=> GrantedOn(m, t)
      BY <1>4, <1>5, <1>7, <2>1 DEF GrantedOn
    <2>3. \A t \in App : SameCall(m, t)
      BY <1>5, <1>6, <1>7, <2>2 DEF SameCall
    <2> QED  BY <1>3, <1>7, <2>1, <2>3, SameCalls DEF Silent
  <1>8. CASE n = m
    <2>1. \A t \in App \ {h} : ~ GrantedOn(m, t) /\ ~ GrantedOn(m, t)'
      BY <1>3, <1>5, <1>6, <1>8 DEF GrantedOn
    <2>2. \A t \in App \ {h} : SameCall(m, t)
      BY <1>2, <1>5, <1>8, <2>1 DEF SameCall
    <2>3. GrantedOn(m, h)'
      <3>1. /\ owner'[m] = h /\ k'.stat[h] = "READY" /\ k'.err[h] = "EOK"
            /\ pc'[h] \in {"blocked", "wait"}
        BY <1>2, <1>3, <1>4, <1>5, <1>8
      <3> QED  BY <3>1 DEF GrantedOn
    <2>4. CallOn(m)[h] = "waiting" /\ CallOn(m)'[h] = "granted"
      <3>1. CallOf(m, h) /\ CallOf(m, h)'
        BY MappingStep DEF Mapping
      <3> QED  BY <1>2, <1>8, <2>3, <3>1 DEF CallOf
    <2>5. CallOn(m)' = [CallOn(m) EXCEPT ![h] = "granted"]
      BY <2>2, <2>4, OneCall
    <2>6. CallOn(m)[c] = "none"
      BY <1>0, <1>5, RunningCallsNothing
    <2>7. owner[m] = c /\ owner'[m] = h /\ hold[m] = 1 /\ hold'[m] = hold[m]
      BY <1>3, <1>5, <1>8
    <2> QED  BY <2>4, <2>5, <2>6, <2>7 DEF L!Unlock
  <1> QED  BY <1>7, <1>8

\* The release with nobody waiting.
LEMMA SetFreeMaps ==
    ASSUME MutexInv, MutexInv', NEW m \in Mutex, NEW n \in Mutex,
           owner[n] = k.cur, pc[k.cur] = "run", hold[n] = 1, SetFree(n)
    PROVE  Silent(m) \/ \E c \in App : L(m)!Unlock(c)
  <1> USE Types
  <1>0. PICK c \in App : c = k.cur
    OBVIOUS
  <1>1. /\ waiters[n] = << >> /\ UNCHANGED <<waiters, pc>>
        /\ owner' = [owner EXCEPT ![n] = None] /\ hold' = [hold EXCEPT ![n] = 0]
        /\ owner[n] = c /\ pc[c] = "run"
    BY <1>0 DEF SetFree
  <1>2. k'.stat = k.stat /\ k'.err = k.err
    BY RestoredEffect DEF SetFree
  <1>3. \A t \in App \ {c} : owner'[m] = t <=> owner[m] = t
    BY <1>1
  <1>4. CallOn(m)' = CallOn(m)
    BY <1>0, <1>1, <1>2, <1>3, OwnStep
  <1>5. CASE n # m
    BY <1>1, <1>4, <1>5 DEF Silent
  <1>6. CASE n = m
    <2>1. CallOn(m)[c] = "none"
      BY <1>0, <1>1, RunningCallsNothing
    <2>2. ASSUME NEW t \in App PROVE CallOn(m)[t] # "waiting"
      <3>1. t \notin ToSet(waiters[m])
        BY <1>1, <1>6, EmptyList
      <3>2. CallOf(m, t)
        BY CallCases DEF Mapping
      <3> QED  BY <3>1, <3>2 DEF CallOf
    <2>3. owner[m] = c /\ owner'[m] = None /\ hold[m] = 1 /\ hold'[m] = 0
      BY <1>1, <1>6
    <2> QED  BY <1>4, <2>1, <2>2, <2>3 DEF L!Unlock
  <1> QED  BY <1>5, <1>6

-----------------------------------------------------------------------------
(* The timeout *)

\* rt_thread_timeout.
LEMMA TickTimeoutMaps ==
    ASSUME MutexInv, MutexInv', NEW m \in Mutex, NEW t \in Thread, TickTimeout(t)
    PROVE  Silent(m) \/ \E c \in App : L(m)!GiveUp(c)
  <1>1. UNCHANGED <<owner, hold, pc>>
    BY DEF TickTimeout
  <1>2. /\ t \in App /\ k.stat[t] = "SUSPEND" /\ k'.err = [k.err EXCEPT ![t] = "ETIMEOUT"]
        /\ \A u \in Thread : k'.stat[u] = "SUSPEND" <=> k.stat[u] = "SUSPEND" /\ u # t
    BY TimeoutKernel
  <1>3. ToSet(waiters'[m]) = ToSet(waiters[m]) \ {t}
    BY TimeoutLists
  <1>4. k'.err[t] = "ETIMEOUT" /\ \A u \in App \ {t} : k'.err[u] = k.err[u]
    BY <1>2, Types DEF App
  <1>5. ~ GrantedOn(m, t) /\ ~ GrantedOn(m, t)'
    BY <1>2, <1>4 DEF GrantedOn
  <1>6. ASSUME NEW u \in App \ {t} PROVE SameCall(m, u)
    <2>1. k'.stat[u] = "SUSPEND" <=> k.stat[u] = "SUSPEND"
      BY <1>2 DEF App
    <2> QED  BY <1>1, <1>3, <1>4, <2>1 DEF SameCall, GrantedOn
  <1>7. CASE t \in ToSet(waiters[m])
    <2>1. CallOn(m)[t] = "waiting" /\ CallOn(m)'[t] = "none"
      <3>1. CallOf(m, t) /\ CallOf(m, t)'
        BY <1>2, MappingStep DEF Mapping
      <3> QED  BY <1>3, <1>5, <1>7, <3>1 DEF CallOf
    <2>2. CallOn(m)' = [CallOn(m) EXCEPT ![t] = "none"]
      BY <1>2, <1>6, <2>1, OneCall
    <2> QED  BY <1>1, <1>2, <2>1, <2>2 DEF L!GiveUp
  <1>8. CASE t \notin ToSet(waiters[m])
    <2>1. SameCall(m, t)
      BY <1>3, <1>5, <1>8 DEF SameCall
    <2>2. \A u \in App : SameCall(m, u)
      BY <1>6, <2>1
    <2> QED  BY <1>1, <2>2, SameCalls DEF Silent
  <1> QED  BY <1>7, <1>8

-----------------------------------------------------------------------------
(* The theorem *)

\* No step is the idle thread's call.
LEMMA IdleOutsideNext == MutexInv /\ IdleOutside /\ [Next]_vars => IdleOutside'
  <1> SUFFICES ASSUME MutexInv, IdleOutside, [Next]_vars PROVE IdleOutside'
    OBVIOUS
  <1> USE Types
  <1>1. CASE UNCHANGED pc
    BY <1>1 DEF IdleOutside
  <1>2. CASE pc[k.cur] # "run" /\ \E l \in Pc : pc' = [pc EXCEPT ![k.cur] = l]
    BY <1>2 DEF IdleOutside
  <1>3. CASE k.cur \in App /\ \E l \in Pc : pc' = [pc EXCEPT ![k.cur] = l]
    BY <1>3 DEF IdleOutside, App
  <1>4. ASSUME NEW t \in Thread, Startup(t) \/ TickTimeout(t) PROVE UNCHANGED pc
    BY <1>4 DEF Startup, TickTimeout
  <1>5. ASSUME NEW m \in Mutex, TakeAgain(m) \/ TakeFree(m) \/ ReleaseInner(m)
        PROVE  UNCHANGED pc
    BY <1>5 DEF TakeAgain, TakeFree, ReleaseInner
  <1>6. ASSUME NEW m \in Mutex, ReleaseFinal(m) PROVE IdleOutside'
    <2>1. k.cur \in App
      BY <1>6 DEF ReleaseFinal, Me
    <2>2. UNCHANGED pc \/ pc' = [pc EXCEPT ![k.cur] = "pend"]
      BY <1>6 DEF ReleaseFinal, HandOver, SetFree, Goto, Me
    <2> QED  BY <1>1, <1>3, <2>1, <2>2 DEF Pc
  <1>7. ASSUME NEW m \in Mutex, NEW time \in Wait, TakeSuspend(m, time) PROVE IdleOutside'
    BY <1>3, <1>7 DEF TakeSuspend, Goto, Me, Pc
  <1>8. CASE Sleep
    BY <1>3, <1>8 DEF Sleep, Goto, Me, Pc
  <1>9. CASE CallSchedule
    BY <1>2, <1>9 DEF CallSchedule, At, Goto, Me, Pc
  <1>10. CASE TakeReturn \/ SleepReturn
    BY <1>2, <1>10 DEF TakeReturn, SleepReturn, At, Goto, Me, Pc
  <1>11. CASE TickYield \/ UNCHANGED vars
    BY <1>1, <1>11 DEF TickYield, vars
  <1> QED
    BY <1>1, <1>4, <1>5, <1>6, <1>7, <1>8, <1>9, <1>10, <1>11 DEF Next, Release

\* Every step of the code is, for each mutex, a step of its lock or one that the
\* lock does not see.
LEMMA StepMaps ==
    ASSUME MutexInv, MutexInv', NotNested, IdleOutside, [Next]_vars, NEW m \in Mutex
    PROVE  [L(m)!LockNext]_(L(m)!lockSpecVars)
  <1> DEFINE Seen == Silent(m) \/ L(m)!LockNext
  <1>1. ASSUME NEW n \in Mutex, TakeAgain(n) \/ ReleaseInner(n) PROVE Seen
    BY <1>1, DepthMaps DEF L!LockNext
  <1>2. ASSUME NEW n \in Mutex, TakeFree(n) PROVE Seen
    BY <1>2, TakeFreeMaps DEF L!LockNext
  <1>3. ASSUME NEW n \in Mutex, ReleaseFinal(n) PROVE Seen
    <2>1. owner[n] = k.cur /\ pc[k.cur] = "run" /\ hold[n] = 1 /\ (HandOver(n) \/ SetFree(n))
      BY <1>3 DEF ReleaseFinal, At, Me
    <2>2. CASE HandOver(n)
      BY <2>1, <2>2, HandOverMaps DEF L!LockNext
    <2>3. CASE SetFree(n)
      BY <2>1, <2>3, SetFreeMaps DEF L!LockNext
    <2> QED  BY <2>1, <2>2, <2>3
  <1>4. ASSUME NEW n \in Mutex, NEW time \in Wait, TakeSuspend(n, time) PROVE Seen
    BY <1>4, TakeSuspendMaps DEF L!LockNext
  <1>5. ASSUME NEW t \in Thread, TickTimeout(t) PROVE Seen
    BY <1>5, TickTimeoutMaps DEF L!LockNext
  <1>6. ASSUME NEW t \in Thread, Startup(t) PROVE Seen
    BY <1>6, SchedulingMaps
  <1>7. ASSUME TickYield \/ CallSchedule PROVE Seen
    BY <1>7, SchedulingMaps
  <1>8. ASSUME Sleep \/ SleepReturn PROVE Seen
    BY <1>8, SleepMaps
  <1>9. ASSUME TakeReturn PROVE Seen
    BY <1>9, TakeReturnMaps DEF L!LockNext
  <1>10. ASSUME UNCHANGED vars PROVE Seen
    BY <1>10 DEF vars, Silent, CallOn
  <1>11. Seen
    BY <1>1, <1>2, <1>3, <1>4, <1>5, <1>6, <1>7, <1>8, <1>9, <1>10 DEF Next, Release
  <1> QED  BY <1>11 DEF Silent, L!lockSpecVars

\* At the start every lock is free and nobody calls.
LEMMA InitMaps == Init => IdleOutside /\ \A m \in Mutex : L(m)!LockInit
  <1> SUFFICES ASSUME Init PROVE IdleOutside /\ \A m \in Mutex : L(m)!LockInit
    OBVIOUS
  <1>1. /\ \A t \in Thread : pc[t] = "run"
        /\ \A m \in Mutex : owner[m] = None /\ hold[m] = 0 /\ waiters[m] = << >>
    BY DEF Init, SectionsInit
  <1>2. ASSUME NEW m \in Mutex PROVE L(m)!LockInit
    <2>1. Mapping(m)
      BY MutexInvInit, CallCases
    <2>2. ToSet(waiters[m]) = {}
      BY <1>1 DEF ToSet
    <2>3. \A t \in App : CallOn(m)[t] = "none"
      BY <1>1, <2>1, <2>2 DEF Mapping, CallOf, GrantedOn, App
    <2> QED  BY <1>1, <2>1, <2>3 DEF Mapping, L!LockInit
  <1> QED  BY <1>1, <1>2, KernelAssumption DEF IdleOutside

\* Whatever takes, releases, timeouts and the scheduler do: one holder at a time,
\* handed from owner to waiter without a gap, and released by nobody else.
THEOREM MutexImplementsLock == Spec /\ []NotNested => ImplementsLock
  <1>1. Spec => []IdleOutside
    BY InitMaps, IdleOutsideNext, MutexInvariant, PTL DEF Spec
  <1>2. MutexInv /\ MutexInv' /\ NotNested /\ IdleOutside /\ [Next]_vars
        => [\A m \in Mutex : [L(m)!LockNext]_(L(m)!lockSpecVars)]_vars
    BY StepMaps
  <1>3. Spec => \A m \in Mutex : L(m)!LockInit
    BY InitMaps DEF Spec
  <1> QED
    BY <1>1, <1>2, <1>3, MutexInvariant, PTL DEF Spec, ImplementsLock
=============================================================================
