---------------------------- MODULE ThreadProofs ----------------------------
(***************************************************************************)
(* The safety of two modules about what threads do outside of the objects. *)
(*                                                                         *)
(* The life of threads, for any number of them, made by rt_thread_init or  *)
(* rt_thread_create, with cleanup functions or without, as long as no      *)
(* thread is deleted while its timer runs.  Between the first and the      *)
(* third part of rt_thread_delete a thread that is READY is on no ready    *)
(* list, so the lemmas of module KernelProofs do not apply to the kernel   *)
(* state itself.  They apply to it as Seen by the scheduler, in which such *)
(* a thread is CLOSE already.                                              *)
(*                                                                         *)
(* The soft timers, for any number of timers and threads and any width of  *)
(* the tick, when the timers belong to one thread below the timer thread.  *)
(***************************************************************************)
EXTENDS ThreadLife, SoftTimer, KernelProofs, FiniteSetTheorems

-----------------------------------------------------------------------------
(* Kernel states that differ in threads the scheduler does not know *)

\* The kernel state m with the states in s for the threads of D.
Patch(m, s, D) ==
    [m EXCEPT !.stat = [t \in Thread |-> IF t \in D THEN s[t] ELSE m.stat[t]]]

\* The parts of a patched state.
LEMMA PatchFields ==
    ASSUME NEW m \in KernelState, NEW s \in [Thread -> Stat], NEW D \in SUBSET Thread
    PROVE  LET n == Patch(m, s, D)
           IN  /\ n \in KernelState
               /\ n.cur = m.cur /\ n.prio = m.prio /\ n.err = m.err /\ n.rq = m.rq
               /\ n.grp = m.grp /\ n.tmr = m.tmr /\ n.lock = m.lock
               /\ n.stat = [t \in Thread |-> IF t \in D THEN s[t] ELSE m.stat[t]]
  <1> DEFINE a == [t \in Thread |-> IF t \in D THEN s[t] ELSE m.stat[t]]
  <1>1. a \in [Thread -> Stat]
    BY DEF KernelState
  <1>2. Patch(m, s, D) = [m EXCEPT !.stat = a]
    BY DEF Patch
  <1> HIDE DEF a
  <1>3. LET n == [m EXCEPT !.stat = a]
        IN  /\ n \in KernelState
            /\ n.cur = m.cur /\ n.prio = m.prio /\ n.err = m.err /\ n.rq = m.rq
            /\ n.grp = m.grp /\ n.tmr = m.tmr /\ n.lock = m.lock /\ n.stat = a
    BY <1>1 DEF KernelState
  <1> QED  BY <1>2, <1>3 DEF a

\* rt_schedule_insert_thread of a thread that the scheduler knows.
LEMMA PatchInsert ==
    ASSUME NEW m \in KernelState, NEW s \in [Thread -> Stat], NEW D \in SUBSET Thread,
           NEW t \in Thread \ D
    PROVE  InsertThread(Patch(m, s, D), t) = Patch(InsertThread(m, t), s, D)
  <1> DEFINE n == Patch(m, s, D)
             f == [u \in Thread |-> IF u \in D THEN s[u] ELSE m.stat[u]]
  <1>1. /\ n.cur = m.cur /\ n.prio = m.prio /\ n.rq = m.rq /\ n.grp = m.grp
        /\ n.stat = f
    BY PatchFields
  <1>2. n = [m EXCEPT !.stat = f]
    BY DEF Patch
  <1>3. m.stat \in [Thread -> Stat]
    BY DEF KernelState
  <1>4. CASE t = m.cur
    <2> DEFINE a == [m.stat EXCEPT ![t] = "RUNNING"]
               b == [f EXCEPT ![t] = "RUNNING"]
               c == [u \in Thread |-> IF u \in D THEN s[u] ELSE a[u]]
    <2>1. b = c
      BY <1>3
    <2>2. InsertThread(n, t) = [n EXCEPT !.stat = b]
      BY <1>1, <1>4 DEF InsertThread
    <2>3. InsertThread(m, t) = [m EXCEPT !.stat = a]
      BY <1>4 DEF InsertThread
    <2>4. Patch([m EXCEPT !.stat = a], s, D) = [m EXCEPT !.stat = c]
      <3> HIDE DEF a
      <3>1. [m EXCEPT !.stat = a].stat = a
        BY DEF KernelState
      <3> QED  BY <3>1 DEF Patch, KernelState
    <2> HIDE DEF a, b, c, f, n
    <2>5. [n EXCEPT !.stat = b] = [m EXCEPT !.stat = b]
      BY <1>2 DEF KernelState
    <2> QED  BY <2>1, <2>2, <2>3, <2>4, <2>5 DEF n
  <1>5. CASE t # m.cur
    <2> DEFINE a == [m.stat EXCEPT ![t] = "READY"]
               b == [f EXCEPT ![t] = "READY"]
               c == [u \in Thread |-> IF u \in D THEN s[u] ELSE a[u]]
               q == [m.rq EXCEPT ![m.prio[t]] = Append(@, t)]
               g == m.grp \cup {m.prio[t]}
    <2>1. b = c
      BY <1>3
    <2>2. InsertThread(n, t) = [n EXCEPT !.stat = b, !.rq = q, !.grp = g]
      BY <1>1, <1>5 DEF InsertThread
    <2>3. InsertThread(m, t) = [m EXCEPT !.stat = a, !.rq = q, !.grp = g]
      BY <1>5 DEF InsertThread
    <2>4. Patch([m EXCEPT !.stat = a, !.rq = q, !.grp = g], s, D) =
              [m EXCEPT !.stat = c, !.rq = q, !.grp = g]
      <3> HIDE DEF a, q, g
      <3>1. [m EXCEPT !.stat = a, !.rq = q, !.grp = g].stat = a
        BY DEF KernelState
      <3> QED  BY <3>1 DEF Patch, KernelState
    <2> HIDE DEF a, b, c, f, n, q, g
    <2>5. [n EXCEPT !.stat = b, !.rq = q, !.grp = g] = [m EXCEPT !.stat = b, !.rq = q, !.grp = g]
      BY <1>2 DEF KernelState
    <2> QED  BY <2>1, <2>2, <2>3, <2>4, <2>5 DEF n
  <1> QED  BY <1>4, <1>5

\* rt_schedule_remove_thread of such a thread, and its new state.
LEMMA PatchTakeOff ==
    ASSUME NEW m \in KernelState, NEW s \in [Thread -> Stat], NEW D \in SUBSET Thread,
           NEW t \in Thread \ D, NEW x \in Stat
    PROVE  TakeOff(Patch(m, s, D), t, x) = Patch(TakeOff(m, t, x), s, D)
  <1> DEFINE n == Patch(m, s, D)
             f == [u \in Thread |-> IF u \in D THEN s[u] ELSE m.stat[u]]
             r == RemoveFirst(m.rq[m.prio[t]], t)
             q == [m.rq EXCEPT ![m.prio[t]] = r]
             g == IF r = << >> THEN m.grp \ {m.prio[t]} ELSE m.grp
             a == [m.stat EXCEPT ![t] = x]
             b == [f EXCEPT ![t] = x]
             c == [u \in Thread |-> IF u \in D THEN s[u] ELSE a[u]]
  <1>1. /\ n.cur = m.cur /\ n.prio = m.prio /\ n.rq = m.rq /\ n.grp = m.grp
        /\ n.stat = f
    BY PatchFields
  <1>2. n = [m EXCEPT !.stat = f]
    BY DEF Patch
  <1>3. b = c
    BY DEF KernelState
  <1> HIDE DEF n
  <1>4. TakeOff(n, t, x) = [m EXCEPT !.stat = b, !.rq = q, !.grp = g]
    BY <1>1, <1>2 DEF TakeOff, RemoveThread, KernelState
  <1>5. TakeOff(m, t, x) = [m EXCEPT !.stat = a, !.rq = q, !.grp = g]
    BY DEF TakeOff, RemoveThread, KernelState
  <1>6. Patch([m EXCEPT !.stat = a, !.rq = q, !.grp = g], s, D) =
            [m EXCEPT !.stat = c, !.rq = q, !.grp = g]
    <2> HIDE DEF a, q, g
    <2>1. [m EXCEPT !.stat = a, !.rq = q, !.grp = g].stat = a
      BY DEF KernelState
    <2> QED  BY <2>1 DEF Patch, KernelState
  <1> QED  BY <1>3, <1>4, <1>5, <1>6 DEF n

\* The threads of D are hidden from the scheduler: it takes them for closed.
Hidden(m, D) == m.cur \notin D /\ \A t \in D : m.stat[t] = "CLOSE"

\* rt_schedule does not care about the state of a hidden thread.
LEMMA PatchSchedule ==
    ASSUME NEW m \in KernelState, NEW s \in [Thread -> Stat], NEW D \in SUBSET Thread,
           KernelOK(m), Hidden(m, D)
    PROVE  Schedule(Patch(m, s, D)) = Patch(Schedule(m), s, D)
  <1> DEFINE n  == Patch(m, s, D)
             p  == HighestPrio(m)
             hd == Head(m.rq[p])
  <1>1. /\ n.cur = m.cur /\ n.prio = m.prio /\ n.rq = m.rq /\ n.grp = m.grp
        /\ n.lock = m.lock /\ n.stat[m.cur] = m.stat[m.cur]
    <2>1. m.cur \in Thread \ D
      BY DEF Hidden, KernelState
    <2>2. /\ n.cur = m.cur /\ n.prio = m.prio /\ n.rq = m.rq /\ n.grp = m.grp
          /\ n.lock = m.lock
          /\ n.stat = [t \in Thread |-> IF t \in D THEN s[t] ELSE m.stat[t]]
      BY PatchFields
    <2> HIDE DEF n
    <2> QED  BY <2>1, <2>2
  <1>2. HighestPrio(n) = p
    BY <1>1 DEF HighestPrio
  <1>3. CASE m.lock > 0 \/ m.grp = {}
    <2>1. Schedule(m) = m
      BY <1>3 DEF Schedule
    <2>2. Schedule(n) = n
      BY <1>1, <1>3 DEF Schedule
    <2> QED  BY <2>1, <2>2
  <1>4. CASE ~ (m.lock > 0 \/ m.grp = {})
    <2>1. m.cur \in Thread \ D /\ hd \in Thread \ D /\ hd # m.cur
      <3>1. hd \in Thread /\ m.stat[hd] = "READY"
        BY <1>4, HighestReady DEF KernelOK, QueuesOK
      <3> HIDE DEF hd
      <3>2. m.cur \in Thread /\ m.stat[m.cur] # "READY"
        BY DEF KernelState, KernelOK, OneRunning
      <3> QED  BY <3>1, <3>2 DEF Hidden
    <2>2. CASE m.stat[m.cur] = "RUNNING" /\ m.prio[m.cur] < p
      <3>1. Schedule(m) = Dispatch(m, m.cur)
        BY <1>4, <2>2 DEF Schedule
      <3>2. Schedule(n) = Dispatch(n, m.cur)
        BY <1>1, <1>2, <1>4, <2>2 DEF Schedule
      <3>3. Dispatch(n, m.cur) = Patch(Dispatch(m, m.cur), s, D)
        BY <2>1, PatchTakeOff DEF Dispatch, Stat
      <3> QED  BY <3>1, <3>2, <3>3
    <2>3. CASE ~ (m.stat[m.cur] = "RUNNING" /\ m.prio[m.cur] < p)
      <3> DEFINE mc == [m EXCEPT !.cur = hd]
                 nc == [n EXCEPT !.cur = hd]
                 mq == IF m.stat[m.cur] = "RUNNING" THEN InsertThread(mc, m.cur) ELSE mc
                 nq == IF m.stat[m.cur] = "RUNNING" THEN InsertThread(nc, m.cur) ELSE nc
      <3>1. Schedule(m) = Dispatch(mq, hd)
        BY <1>4, <2>1, <2>3 DEF Schedule
      <3>2. Schedule(n) = Dispatch(nq, hd)
        BY <1>1, <1>2, <1>4, <2>1, <2>3 DEF Schedule
      <3>3. mc \in KernelState /\ mc.stat = m.stat /\ mc.cur = hd /\ mc.rq = m.rq
            /\ mc.prio = m.prio /\ mc.grp = m.grp
        BY <2>1 DEF KernelState
      <3>4. nc = Patch(mc, s, D)
        <4> HIDE DEF hd
        <4> QED  BY <2>1 DEF Patch, KernelState
      <3>5. nq = Patch(mq, s, D)
        <4>1. InsertThread(Patch(mc, s, D), m.cur) = Patch(InsertThread(mc, m.cur), s, D)
          BY <2>1, <3>3, PatchInsert
        <4> QED  BY <3>4, <4>1
      <3>6. mq \in KernelState
        <4>1. QueuesOK(mc)
          BY <3>3 DEF KernelOK, QueuesOK, ReadyListed, ReadyDistinct, GroupExact
        <4>2. m.cur \in Thread /\ mc.stat[m.cur] # "READY"
          BY <3>3 DEF KernelState, KernelOK, OneRunning
        <4> HIDE DEF mc
        <4>3. InsertThread(mc, m.cur) \in KernelState
          BY <3>3, <4>1, <4>2, InsertThreadQueues
        <4> QED  BY <3>3, <4>3
      <3> HIDE DEF mq, nq, hd
      <3>7. Dispatch(Patch(mq, s, D), hd) = Patch(Dispatch(mq, hd), s, D)
        BY <2>1, <3>6, PatchTakeOff DEF Dispatch, Stat
      <3> QED  BY <3>1, <3>2, <3>5, <3>7
    <2> QED  BY <2>2, <2>3
  <1> QED  BY <1>3, <1>4

\* A wake-up of a thread that the scheduler knows.
LEMMA PatchWake ==
    ASSUME NEW m \in KernelState, NEW s \in [Thread -> Stat], NEW D \in SUBSET Thread,
           NEW t \in Thread \ D, NEW e \in Err
    PROVE  Wake(Patch(m, s, D), t, e) = Patch(Wake(m, t, e), s, D)
  <1> DEFINE w == [m EXCEPT !.err[t] = e, !.tmr = @ \ {t}]
             n == Patch(m, s, D)
  <1>1. w \in KernelState
    BY DEF KernelState
  <1>2. InsertThread(Patch(w, s, D), t) = Patch(InsertThread(w, t), s, D)
    <2> HIDE DEF w
    <2> QED  BY <1>1, PatchInsert
  <1>3. [n EXCEPT !.err[t] = e, !.tmr = @ \ {t}] = Patch(w, s, D)
    BY DEF Patch, KernelState
  <1> QED  BY <1>2, <1>3 DEF Wake

-----------------------------------------------------------------------------
(* The kernel as the scheduler sees it *)

Closed == [t \in Thread |-> "CLOSE"]

Seen(m, D) == Patch(m, Closed, D)

\* The kernel is consistent for the scheduler, which does not know D.
SeenOK(m, D) == KernelOK(Seen(m, D)) /\ m.cur \notin D

Active == {"READY", "RUNNING"}

\* Threads that are not in D are switched, and nothing else happens.
Switched(m, n, D) ==
    \A t \in Thread : \/ n.stat[t] = m.stat[t]
                      \/ t \notin D /\ {n.stat[t], m.stat[t]} \subseteq Active

\* The kernel state and the view of it differ in the states of D only.
LEMMA SeenFields ==
    ASSUME NEW m \in KernelState, NEW D \in SUBSET Thread
    PROVE  LET v == Seen(m, D)
           IN  /\ v \in KernelState
               /\ v.cur = m.cur /\ v.prio = m.prio /\ v.err = m.err /\ v.rq = m.rq
               /\ v.grp = m.grp /\ v.tmr = m.tmr /\ v.lock = m.lock
               /\ v.stat = [t \in Thread |-> IF t \in D THEN "CLOSE" ELSE m.stat[t]]
               /\ Patch(v, m.stat, D) = m
  <1> DEFINE v == Seen(m, D)
             a == [t \in Thread |-> IF t \in D THEN "CLOSE" ELSE m.stat[t]]
             b == [t \in Thread |-> IF t \in D THEN m.stat[t] ELSE a[t]]
  <1>1. Closed \in [Thread -> Stat]
    BY DEF Closed, Stat
  <1>2. /\ v \in KernelState
        /\ v.cur = m.cur /\ v.prio = m.prio /\ v.err = m.err /\ v.rq = m.rq
        /\ v.grp = m.grp /\ v.tmr = m.tmr /\ v.lock = m.lock
        /\ v.stat = [t \in Thread |-> IF t \in D THEN Closed[t] ELSE m.stat[t]]
    BY <1>1, PatchFields DEF Seen
  <1>3. v.stat = a
    BY <1>2 DEF Closed
  <1>4. b = m.stat
    BY DEF KernelState
  <1>5. Patch(v, m.stat, D) = m
    <2>1. v = [m EXCEPT !.stat = [t \in Thread |-> IF t \in D THEN Closed[t] ELSE m.stat[t]]]
      BY DEF Seen, Patch
    <2>2. Patch(v, m.stat, D) = [v EXCEPT !.stat = b]
      BY <1>3 DEF Patch
    <2> HIDE DEF v, a, b
    <2> QED  BY <1>4, <2>1, <2>2 DEF KernelState
  <1> QED  BY <1>2, <1>3, <1>5

\* Conversely, a state whose hidden threads got the states in s is seen without
\* them.
LEMMA SeenPatch ==
    ASSUME NEW w \in KernelState, NEW s \in [Thread -> Stat], NEW D \in SUBSET Thread,
           Hidden(w, D)
    PROVE  Seen(Patch(w, s, D), D) = w
  <1> DEFINE a == [t \in Thread |-> IF t \in D THEN s[t] ELSE w.stat[t]]
             b == [t \in Thread |-> IF t \in D THEN Closed[t] ELSE a[t]]
             n == Patch(w, s, D)
  <1>1. b = w.stat
    BY DEF Hidden, Closed, KernelState
  <1>2. n = [w EXCEPT !.stat = a] /\ n.stat = a
    BY DEF Patch, KernelState
  <1>3. Seen(n, D) = [n EXCEPT !.stat = b]
    BY <1>2 DEF Seen, Patch
  <1> HIDE DEF a, b, n
  <1> QED  BY <1>1, <1>2, <1>3 DEF KernelState, n

\* What a routine makes of a state it makes of the view.
LEMMA FromSeen ==
    ASSUME NEW m \in KernelState, NEW D \in SUBSET Thread, NEW w \in KernelState,
           KernelOK(w), Hidden(w, D)
    PROVE  LET n == Patch(w, m.stat, D)
           IN  /\ n \in KernelState
               /\ SeenOK(n, D) /\ Seen(n, D) = w
               /\ n.cur = w.cur /\ n.prio = w.prio /\ n.err = w.err
               /\ n.tmr = w.tmr /\ n.lock = w.lock
               /\ \A t \in Thread : n.stat[t] = IF t \in D THEN m.stat[t] ELSE w.stat[t]
  <1> DEFINE n == Patch(w, m.stat, D)
  <1>0. m.stat \in [Thread -> Stat]
    BY DEF KernelState
  <1>1. Seen(n, D) = w
    BY <1>0, SeenPatch
  <1>2. /\ n \in KernelState
        /\ n.cur = w.cur /\ n.prio = w.prio /\ n.err = w.err /\ n.rq = w.rq
        /\ n.grp = w.grp /\ n.tmr = w.tmr /\ n.lock = w.lock
        /\ n.stat = [t \in Thread |-> IF t \in D THEN m.stat[t] ELSE w.stat[t]]
    BY <1>0, PatchFields
  <1> HIDE DEF n
  <1>3. SeenOK(n, D)
    BY <1>1, <1>2 DEF SeenOK, Hidden
  <1> QED  BY <1>1, <1>2, <1>3 DEF n

\* The view hides the threads of D.
LEMMA SeenHidden ==
    ASSUME NEW m \in KernelState, NEW D \in SUBSET Thread, SeenOK(m, D)
    PROVE  /\ Seen(m, D) \in KernelState /\ KernelOK(Seen(m, D)) /\ Hidden(Seen(m, D), D)
           /\ Patch(Seen(m, D), m.stat, D) = m
           /\ m.stat \in [Thread -> Stat]
  <1> DEFINE v == Seen(m, D)
  <1>1. /\ v \in KernelState /\ v.cur = m.cur
        /\ v.stat = [t \in Thread |-> IF t \in D THEN "CLOSE" ELSE m.stat[t]]
        /\ Patch(v, m.stat, D) = m
    BY SeenFields
  <1> HIDE DEF v
  <1>2. Hidden(v, D)
    BY <1>1 DEF SeenOK, Hidden
  <1> QED  BY <1>1, <1>2 DEF v, SeenOK, KernelState

-----------------------------------------------------------------------------
(* The routines of the kernel, beside hidden threads *)

\* rt_schedule.
LEMMA ScheduleSeen ==
    ASSUME NEW m \in KernelState, NEW D \in SUBSET Thread, SeenOK(m, D),
           m.lock = 0, Idle \notin D, m.stat[Idle] \in Active
    PROVE  LET n == Schedule(m)
           IN  /\ n \in KernelState
               /\ SeenOK(n, D)
               /\ \A t \in Thread \ D : n.stat[t] = "READY" => n.prio[n.cur] <= n.prio[t]
               /\ n.prio = m.prio /\ n.err = m.err /\ n.tmr = m.tmr /\ n.lock = 0
               /\ n.stat[n.cur] = "RUNNING" /\ n.stat[Idle] \in Active
               /\ Switched(m, n, D)
  <1> DEFINE v == Seen(m, D)
             w == Schedule(v)
             n == Schedule(m)
  <1>1. /\ v \in KernelState /\ KernelOK(v) /\ Hidden(v, D) /\ Patch(v, m.stat, D) = m
        /\ m.stat \in [Thread -> Stat]
    BY SeenHidden
  <1>2. /\ v.prio = m.prio /\ v.err = m.err /\ v.tmr = m.tmr /\ v.lock = 0
        /\ v.stat = [t \in Thread |-> IF t \in D THEN "CLOSE" ELSE m.stat[t]]
    BY SeenFields
  <1> HIDE DEF v
  <1>3. v.stat[Idle] \in {"READY", "RUNNING"}
    BY <1>2, KernelAssumption DEF Active
  <1>4. /\ w \in KernelState /\ KernelOK(w)
        /\ w.prio = v.prio /\ w.err = v.err /\ w.tmr = v.tmr /\ w.lock = 0
        /\ w.stat[Idle] \in Active
        /\ w.stat[w.cur] = "RUNNING" /\ TopRuns(w)
    BY <1>1, <1>2, <1>3, ScheduleWithIdle DEF Active
  <1>5. Inactive(w) = Inactive(v) /\ \A t \in Inactive(v) : w.stat[t] = v.stat[t]
    BY <1>1, ScheduleEffect
  <1> HIDE DEF w
  <1>6. \A t \in Thread : w.stat[t] = v.stat[t] \/ {w.stat[t], v.stat[t]} \subseteq Active
    BY <1>5 DEF Inactive, Active
  <1>7. Hidden(w, D)
    <2>1. \A t \in D : w.stat[t] = "CLOSE"
      BY <1>1, <1>2, <1>6 DEF Hidden, Active
    <2> QED  BY <1>4, <2>1 DEF Hidden
  <1>8. n = Patch(w, m.stat, D)
    BY <1>1, PatchSchedule DEF w
  <1>9. /\ n \in KernelState /\ SeenOK(n, D) /\ Seen(n, D) = w
        /\ n.cur = w.cur /\ n.prio = w.prio /\ n.err = w.err
        /\ n.tmr = w.tmr /\ n.lock = w.lock
        /\ \A t \in Thread : n.stat[t] = IF t \in D THEN m.stat[t] ELSE w.stat[t]
    BY <1>4, <1>7, <1>8, FromSeen
  <1> HIDE DEF n
  <1>10. Switched(m, n, D)
    BY <1>2, <1>6, <1>9 DEF Switched
  <1>11. n.stat[n.cur] = "RUNNING" /\ n.stat[Idle] \in Active
    <2>1. w.cur \in Thread /\ w.cur \notin D
      BY <1>4, <1>7 DEF Hidden, KernelState
    <2> QED  BY <1>4, <1>9, <2>1, KernelAssumption
  <1>12. \A t \in Thread \ D : n.stat[t] = "READY" => n.prio[n.cur] <= n.prio[t]
    BY <1>4, <1>9 DEF TopRuns
  <1> QED  BY <1>2, <1>4, <1>9, <1>10, <1>11, <1>12 DEF n

\* A wake-up.
LEMMA WakeSeen ==
    ASSUME NEW m \in KernelState, NEW D \in SUBSET Thread, SeenOK(m, D),
           NEW t \in Thread \ D, NEW e \in Err, m.stat[t] = "SUSPEND"
    PROVE  LET n == Wake(m, t, e)
           IN  /\ n \in KernelState
               /\ SeenOK(n, D)
               /\ n.cur = m.cur /\ n.prio = m.prio /\ n.lock = m.lock
               /\ n.tmr = m.tmr \ {t}
               /\ n.stat[t] \in Active
               /\ \A u \in Thread \ {t} : n.stat[u] = m.stat[u]
  <1> DEFINE v == Seen(m, D)
             w == Wake(v, t, e)
             n == Wake(m, t, e)
  <1>1. /\ v \in KernelState /\ KernelOK(v) /\ Hidden(v, D) /\ Patch(v, m.stat, D) = m
        /\ m.stat \in [Thread -> Stat]
    BY SeenHidden
  <1>2. /\ v.cur = m.cur /\ v.prio = m.prio /\ v.tmr = m.tmr /\ v.lock = m.lock
        /\ v.stat = [u \in Thread |-> IF u \in D THEN "CLOSE" ELSE m.stat[u]]
    BY SeenFields
  <1> HIDE DEF v
  <1>3. /\ w \in KernelState /\ KernelOK(w)
        /\ w.cur = v.cur /\ w.prio = v.prio /\ w.lock = v.lock
        /\ w.stat = [v.stat EXCEPT ![t] = IF t = v.cur THEN "RUNNING" ELSE "READY"]
        /\ w.tmr = v.tmr \ {t}
    <2>1. v.stat[t] = "SUSPEND"
      BY <1>2
    <2>2. /\ w \in KernelState /\ KernelOK(w)
          /\ w.cur = v.cur /\ w.prio = v.prio /\ w.lock = v.lock
          /\ w.stat = [v.stat EXCEPT ![t] = IF t = v.cur THEN "RUNNING" ELSE "READY"]
          /\ w.err = [v.err EXCEPT ![t] = e]
          /\ w.tmr = v.tmr \ {t}
      BY <1>1, <2>1, WakeEffect
    <2> QED  BY <2>2
  <1>4. n = Patch(w, m.stat, D)
    BY <1>1, PatchWake
  <1> HIDE DEF n
  <1> HIDE DEF w
  <1>5. Hidden(w, D)
    BY <1>1, <1>2, <1>3 DEF Hidden
  <1>6. /\ n \in KernelState /\ SeenOK(n, D)
        /\ n.cur = w.cur /\ n.prio = w.prio /\ n.tmr = w.tmr /\ n.lock = w.lock
        /\ \A u \in Thread : n.stat[u] = IF u \in D THEN m.stat[u] ELSE w.stat[u]
    <2>0. w \in KernelState /\ KernelOK(w)
      BY <1>3
    <2>1. LET x == Patch(w, m.stat, D)
          IN  /\ x \in KernelState
              /\ SeenOK(x, D) /\ Seen(x, D) = w
              /\ x.cur = w.cur /\ x.prio = w.prio /\ x.err = w.err
              /\ x.tmr = w.tmr /\ x.lock = w.lock
              /\ \A u \in Thread : x.stat[u] = IF u \in D THEN m.stat[u] ELSE w.stat[u]
      BY <1>5, <2>0, FromSeen
    <2> QED  BY <1>4, <2>1
  <1> HIDE DEF n
  <1> QED  BY <1>2, <1>3, <1>6 DEF n, Active

\* rt_schedule_insert_thread of a thread that is on no ready list.
LEMMA InsertSeen ==
    ASSUME NEW m \in KernelState, NEW D \in SUBSET Thread, SeenOK(m, D),
           NEW t \in Thread \ D, m.stat[t] = "SUSPEND", t # m.cur
    PROVE  LET n == InsertThread(m, t)
           IN  /\ n \in KernelState
               /\ SeenOK(n, D)
               /\ n.cur = m.cur /\ n.prio = m.prio /\ n.lock = m.lock /\ n.tmr = m.tmr
               /\ n.stat[t] = "READY"
               /\ \A u \in Thread \ {t} : n.stat[u] = m.stat[u]
  <1> DEFINE v == Seen(m, D)
             w == InsertThread(v, t)
             n == InsertThread(m, t)
  <1>1. /\ v \in KernelState /\ KernelOK(v) /\ Hidden(v, D) /\ Patch(v, m.stat, D) = m
        /\ m.stat \in [Thread -> Stat]
    BY SeenHidden
  <1>2. /\ v.cur = m.cur /\ v.prio = m.prio /\ v.tmr = m.tmr /\ v.lock = m.lock
        /\ v.stat = [u \in Thread |-> IF u \in D THEN "CLOSE" ELSE m.stat[u]]
    BY SeenFields
  <1> HIDE DEF v
  <1>3. /\ w \in KernelState /\ QueuesOK(w)
        /\ w.cur = v.cur /\ w.prio = v.prio /\ w.lock = v.lock /\ w.tmr = v.tmr
        /\ w.stat = [v.stat EXCEPT ![t] = IF t = v.cur THEN "RUNNING" ELSE "READY"]
    <2>1. QueuesOK(v) /\ v.stat[t] # "READY"
      BY <1>1, <1>2 DEF KernelOK, QueuesOK
    <2> QED  BY <1>1, <2>1, InsertThreadQueues
  <1>4. n = Patch(w, m.stat, D)
    BY <1>1, PatchInsert
  <1> HIDE DEF n, w
  <1>5. Hidden(w, D)
    BY <1>1, <1>2, <1>3 DEF Hidden
  <1>6. KernelOK(w) /\ w \in KernelState
    <2>1. OneRunning(w)
      BY <1>1, <1>2, <1>3 DEF KernelOK, OneRunning
    <2> QED  BY <1>3, <2>1 DEF KernelOK, QueuesOK
  <1>7. /\ n \in KernelState /\ SeenOK(n, D)
        /\ n.cur = w.cur /\ n.prio = w.prio /\ n.tmr = w.tmr /\ n.lock = w.lock
        /\ \A u \in Thread : n.stat[u] = IF u \in D THEN m.stat[u] ELSE w.stat[u]
    <2>1. LET x == Patch(w, m.stat, D)
          IN  /\ x \in KernelState
              /\ SeenOK(x, D) /\ Seen(x, D) = w
              /\ x.cur = w.cur /\ x.prio = w.prio /\ x.err = w.err
              /\ x.tmr = w.tmr /\ x.lock = w.lock
              /\ \A u \in Thread : x.stat[u] = IF u \in D THEN m.stat[u] ELSE w.stat[u]
      BY <1>5, <1>6, FromSeen
    <2> QED  BY <1>4, <2>1
  <1> QED  BY <1>2, <1>3, <1>7 DEF n

\* A thread that is taken off its ready list and gets another state.
LEMMA TakeOffSeen ==
    ASSUME NEW m \in KernelState, NEW D \in SUBSET Thread, SeenOK(m, D),
           NEW t \in Thread \ D, NEW x \in {"SUSPEND", "CLOSE"}
    PROVE  LET n == TakeOff(m, t, x)
           IN  /\ n \in KernelState
               /\ SeenOK(n, D)
               /\ n.cur = m.cur /\ n.prio = m.prio /\ n.lock = m.lock
               /\ n.err = m.err /\ n.tmr = m.tmr
               /\ n.stat[t] = x
               /\ \A u \in Thread \ {t} : n.stat[u] = m.stat[u]
  <1> DEFINE v == Seen(m, D)
             w == TakeOff(v, t, x)
             n == TakeOff(m, t, x)
  <1>1. /\ v \in KernelState /\ KernelOK(v) /\ Hidden(v, D) /\ Patch(v, m.stat, D) = m
        /\ m.stat \in [Thread -> Stat]
    BY SeenHidden
  <1>2. /\ v.cur = m.cur /\ v.prio = m.prio /\ v.tmr = m.tmr /\ v.lock = m.lock
        /\ v.err = m.err
        /\ v.stat = [u \in Thread |-> IF u \in D THEN "CLOSE" ELSE m.stat[u]]
    BY SeenFields
  <1>x. x \in Stat \ {"READY"} /\ x \in Stat
    BY DEF Stat
  <1> HIDE DEF v
  <1>3. /\ w \in KernelState /\ QueuesOK(w)
        /\ w.cur = v.cur /\ w.prio = v.prio /\ w.err = v.err
        /\ w.tmr = v.tmr /\ w.lock = v.lock
        /\ w.stat = [v.stat EXCEPT ![t] = x]
    <2>1. QueuesOK(v)
      BY <1>1 DEF KernelOK, QueuesOK
    <2> QED  BY <1>1, <1>x, <2>1, TakeOffQueues
  <1>4. n = Patch(w, m.stat, D)
    BY <1>1, <1>x, PatchTakeOff
  <1> HIDE DEF n, w
  <1>5. Hidden(w, D)
    BY <1>1, <1>2, <1>3 DEF Hidden
  <1>6. KernelOK(w) /\ w \in KernelState
    <2>1. OneRunning(w)
      BY <1>1, <1>2, <1>3 DEF KernelOK, OneRunning
    <2> QED  BY <1>3, <2>1 DEF KernelOK, QueuesOK
  <1>7. /\ n \in KernelState /\ SeenOK(n, D)
        /\ n.cur = w.cur /\ n.prio = w.prio /\ n.err = w.err
        /\ n.tmr = w.tmr /\ n.lock = w.lock
        /\ \A u \in Thread : n.stat[u] = IF u \in D THEN m.stat[u] ELSE w.stat[u]
    <2>1. LET y == Patch(w, m.stat, D)
          IN  /\ y \in KernelState
              /\ SeenOK(y, D) /\ Seen(y, D) = w
              /\ y.cur = w.cur /\ y.prio = w.prio /\ y.err = w.err
              /\ y.tmr = w.tmr /\ y.lock = w.lock
              /\ \A u \in Thread : y.stat[u] = IF u \in D THEN m.stat[u] ELSE w.stat[u]
      BY <1>5, <1>6, FromSeen
    <2> QED  BY <1>4, <2>1
  <1> QED  BY <1>2, <1>3, <1>7 DEF n

\* A thread may be hidden, shown or changed freely as long as it is not seen
\* READY or RUNNING before or afterwards.
LEMMA SameSeen ==
    ASSUME NEW m \in KernelState, NEW D \in SUBSET Thread, SeenOK(m, D),
           NEW n \in KernelState, NEW E \in SUBSET Thread,
           n.cur = m.cur, n.cur \notin E, n.rq = m.rq, n.grp = m.grp,
           \A t \in Thread :
              \/ t \notin D /\ t \notin E /\ n.stat[t] = m.stat[t] /\ n.prio[t] = m.prio[t]
              \/ /\ t \in D \/ m.stat[t] \notin Active
                 /\ t \in E \/ n.stat[t] \notin Active
    PROVE  SeenOK(n, E)
  <1> DEFINE v == Seen(m, D)
             w == Seen(n, E)
  <1>1. /\ v \in KernelState /\ v.cur = m.cur /\ v.prio = m.prio /\ v.rq = m.rq
        /\ v.grp = m.grp
        /\ v.stat = [t \in Thread |-> IF t \in D THEN "CLOSE" ELSE m.stat[t]]
    BY SeenFields
  <1>2. /\ w \in KernelState /\ w.cur = n.cur /\ w.prio = n.prio /\ w.rq = n.rq
        /\ w.grp = n.grp
        /\ w.stat = [t \in Thread |-> IF t \in E THEN "CLOSE" ELSE n.stat[t]]
    BY SeenFields
  <1>3. KernelOK(v)
    BY DEF SeenOK
  <1> HIDE DEF v, w
  <1>4. \A t \in Thread : \/ v.stat[t] = w.stat[t] /\ v.prio[t] = w.prio[t]
                          \/ v.stat[t] \notin Active /\ w.stat[t] \notin Active
    BY <1>1, <1>2 DEF Active
  <1>5. ReadyListed(w)
    BY <1>1, <1>2, <1>3, <1>4 DEF KernelOK, ReadyListed, Active
  <1>6. OneRunning(w)
    BY <1>1, <1>2, <1>3, <1>4 DEF KernelOK, OneRunning, Active, KernelState
  <1> QED  BY <1>1, <1>2, <1>3, <1>5, <1>6 DEF SeenOK, KernelOK, ReadyDistinct, GroupExact, w

\* rt_thread_delete takes a thread off its ready list, or off none, and leaves
\* its state as it was.
LEMMA RemoveSeen ==
    ASSUME NEW m \in KernelState, NEW D \in SUBSET Thread, SeenOK(m, D),
           NEW t \in Thread \ D, t # m.cur
    PROVE  LET n == RemoveThread(m, t)
           IN  /\ n \in KernelState
               /\ SeenOK(n, D \cup {t})
               /\ n.cur = m.cur /\ n.prio = m.prio /\ n.lock = m.lock
               /\ n.tmr = m.tmr /\ n.stat = m.stat
  <1> DEFINE o == TakeOff(m, t, "CLOSE")
             n == RemoveThread(m, t)
  <1>1. /\ o \in KernelState /\ SeenOK(o, D)
        /\ o.cur = m.cur /\ o.prio = m.prio /\ o.lock = m.lock
        /\ o.err = m.err /\ o.tmr = m.tmr
        /\ o.stat[t] = "CLOSE"
        /\ \A u \in Thread \ {t} : o.stat[u] = m.stat[u]
    BY TakeOffSeen
  <1>2. n = [o EXCEPT !.stat = m.stat]
    BY DEF TakeOff, RemoveThread, KernelState
  <1> HIDE DEF o, n
  <1>3. /\ n \in KernelState /\ n.cur = o.cur /\ n.prio = o.prio /\ n.lock = o.lock
        /\ n.tmr = o.tmr /\ n.stat = m.stat /\ n.rq = o.rq /\ n.grp = o.grp
    BY <1>1, <1>2 DEF KernelState
  <1>4. \A u \in Thread :
           \/ /\ u \notin D /\ u \notin D \cup {t}
              /\ n.stat[u] = o.stat[u] /\ n.prio[u] = o.prio[u]
           \/ /\ u \in D \/ o.stat[u] \notin Active
              /\ u \in D \cup {t} \/ n.stat[u] \notin Active
    BY <1>1, <1>3 DEF Active
  <1>5. SeenOK(n, D \cup {t})
    <2>1. n.cur \notin D \cup {t} /\ D \cup {t} \in SUBSET Thread
      BY <1>1, <1>3 DEF SeenOK
    <2> DEFINE E == D \cup {t}
    <2> HIDE DEF E
    <2>2. \A u \in Thread :
             \/ u \notin D /\ u \notin E /\ n.stat[u] = o.stat[u] /\ n.prio[u] = o.prio[u]
             \/ /\ u \in D \/ o.stat[u] \notin Active
                /\ u \in E \/ n.stat[u] \notin Active
      BY <1>4 DEF E
    <2> QED  BY <1>1, <1>3, <2>1, <2>2, SameSeen DEF E
  <1> QED  BY <1>1, <1>3, <1>5 DEF n

\* A thread that is on no ready list stays on none when rt_thread_resume takes
\* it off the list it is on.
LEMMA ResumeOffSeen ==
    ASSUME NEW m \in KernelState, NEW D \in SUBSET Thread, SeenOK(m, D),
           NEW t \in Thread \ D, m.stat[t] # "READY"
    PROVE  LET n == ResumeOff(m, t)
           IN  /\ n \in KernelState
               /\ SeenOK(n, D)
               /\ n.cur = m.cur /\ n.prio = m.prio /\ n.lock = m.lock
               /\ n.stat = m.stat /\ n.rq = m.rq /\ n.grp = m.grp /\ n.tmr = m.tmr \ {t}
  <1> DEFINE n == ResumeOff(m, t)
             v == Seen(m, D)
  <1>1. /\ v \in KernelState /\ KernelOK(v) /\ v.rq = m.rq
        /\ v.stat = [u \in Thread |-> IF u \in D THEN "CLOSE" ELSE m.stat[u]]
    BY SeenFields DEF SeenOK
  <1> HIDE DEF v
  <1>2. \A p \in Prio : t \notin ToSet(m.rq[p])
    BY <1>1 DEF KernelOK, ReadyListed
  <1>3. \A p \in Prio : RemoveFirst(m.rq[p], t) = m.rq[p]
    <2> TAKE p \in Prio
    <2>1. m.rq[p] \in Seq(Thread)
      BY DEF KernelState
    <2>2. ~ \E i \in 1 .. Len(m.rq[p]) : m.rq[p][i] = t
      BY <1>2, <2>1, LenProperties DEF ToSet
    <2> QED  BY <2>2 DEF RemoveFirst
  <1>4. [p \in Prio |-> RemoveFirst(m.rq[p], t)] = m.rq
    BY <1>3 DEF KernelState
  <1>5. n = [m EXCEPT !.rq = m.rq, !.tmr = m.tmr \ {t}]
    BY <1>4 DEF ResumeOff
  <1> HIDE DEF n
  <1>6. /\ n \in KernelState
        /\ n.cur = m.cur /\ n.prio = m.prio /\ n.lock = m.lock
        /\ n.stat = m.stat /\ n.rq = m.rq /\ n.grp = m.grp /\ n.tmr = m.tmr \ {t}
    BY <1>5 DEF KernelState
  <1>7. n.cur \notin D
    BY <1>6 DEF SeenOK
  <1>8. SeenOK(n, D)
    BY <1>6, <1>7, SameSeen
  <1> QED  BY <1>6, <1>8 DEF n

-----------------------------------------------------------------------------
(* The inductive invariant *)

\* What the scheduler sees is consistent, and the idle thread can always run.
LifeScheduler ==
    /\ SeenOK(k, Doomed)
    /\ k.lock = 0 /\ k.stat[Idle] \in Active

\* Only between its suspension or its exit and the rt_schedule that follows does
\* a thread run that is not RUNNING.
HasProcessor ==
    \/ k.stat[Me] = "RUNNING"
    \/ At("pend") /\ k.stat[Me] = "SUSPEND"
    \/ At("exit") /\ k.stat[Me] = "CLOSE"

\* The thread a call is about can neither run nor be woken, is inside no call
\* about another thread, and is not on the list of the dead.
InHand(t) ==
    /\ t \in App \ {Me} /\ about[t] = None
    /\ t \notin k.tmr /\ t \notin ToSet(defunct)

\* How far the life of that thread is at each step of the call.
Stage(u, t) ==
    /\ pc[u] = "unlinked" => memory[t] = "live" /\ k.stat[t] = "SUSPEND"
    /\ pc[u] \in {"removed", "untimed"} =>
          memory[t] = "live" /\ k.stat[t] \notin {"RUNNING", "CLOSE"}
    /\ pc[u] = "closed" => memory[t] = "live" /\ k.stat[t] = "CLOSE"
    /\ pc[u] = "stack" => u = Idle /\ memory[t] = "live" /\ k.stat[t] = "CLOSE"
    /\ pc[u] = "object" => u = Idle /\ memory[t] = "stackless" /\ k.stat[t] = "CLOSE"

\* Who is inside a call is alive, and the only one in a call about that thread.
Calling(u) ==
    /\ k.stat[u] \in Active
    /\ InHand(about[u])
    /\ \A v \in Thread : about[v] = about[u] => v = u
    /\ Stage(u, about[u])

InCall == {"unlinked", "removed", "untimed", "closed", "stack", "object"}

CallOf(u) ==
    /\ about[u] # None <=> pc[u] \in InCall
    /\ about[u] # None => Calling(u)
    /\ pc[u] = "reap" => u = Idle /\ defunct # << >>
    /\ pc[u] = "exit" => u # Idle /\ k.stat[u] = "CLOSE"

Calls == \A u \in Thread : CallOf(u)

\* A thread timer runs for a suspended thread only.
Timers == \A t \in k.tmr : k.stat[t] = "SUSPEND"

Held(t) == \E u \in Thread : about[u] = t

\* Every control block that is in use and closed is on the list of the dead or
\* in somebody's hands.
DeadOf(t) ==
    /\ t \in ToSet(defunct) => k.stat[t] = "CLOSE" /\ memory[t] = "live"
    /\ memory[t] = "none" => k.stat[t] = "CLOSE"
    /\ memory[t] = "stackless" => k.stat[t] = "CLOSE" /\ Held(t)
    /\ memory[t] = "live" /\ k.stat[t] = "CLOSE" => t \in ToSet(defunct) \/ Held(t)

Dead == Distinct(defunct) /\ \A t \in Thread : DeadOf(t)

LifeInv ==
    /\ LifeTypeOK /\ LifeScheduler /\ HasProcessor /\ Calls /\ Timers /\ Dead
    /\ PreemptionPending

-----------------------------------------------------------------------------
(* Facts the actions share *)

\* The parts of the state.
LEMMA LifeTypes ==
    ASSUME LifeInv
    PROVE  /\ k \in KernelState /\ SeenOK(k, Doomed) /\ k.lock = 0
           /\ k.cur \in Thread \ Doomed /\ k.stat \in [Thread -> Stat]
           /\ k.tmr \in SUBSET Thread /\ k.prio \in [Thread -> Prio]
           /\ k.err \in [Thread -> Err]
           /\ k.stat[Idle] \in Active /\ Idle \in Thread \ Doomed
           /\ memory \in [Thread -> Memory] /\ defunct \in Seq(App)
           /\ pc \in [Thread -> LifePc] /\ about \in [Thread -> Thread \cup {None}]
           /\ Doomed \in SUBSET App
           /\ App \subseteq Thread /\ Idle \notin App /\ None \notin Thread
  <1>1. /\ k \in KernelState /\ k.cur \in Thread /\ k.stat \in [Thread -> Stat]
        /\ k.err \in [Thread -> Err] /\ k.tmr \in SUBSET Thread
        /\ k.prio \in [Thread -> Prio]
    BY DEF LifeInv, LifeTypeOK, KernelState
  <1>2. SeenOK(k, Doomed) /\ k.cur \notin Doomed
    BY DEF LifeInv, LifeScheduler, SeenOK
  <1>3. k.lock = 0 /\ k.stat[Idle] \in Active
    BY DEF LifeInv, LifeScheduler
  <1>4. /\ memory \in [Thread -> Memory] /\ defunct \in Seq(App)
        /\ pc \in [Thread -> LifePc] /\ about \in [Thread -> Thread \cup {None}]
    BY DEF LifeInv, LifeTypeOK
  <1>5. Doomed \in SUBSET App
    BY DEF LifeInv, Calls, CallOf, Calling, InHand, Doomed, InCall
  <1> QED
    BY <1>1, <1>2, <1>3, <1>4, <1>5, KernelAssumption, ThreadLifeAssumption DEF App

\* At the beginning only the idle thread exists, and runs.
LEMMA LifeInvInit == LifeInit => LifeInv
  <1> SUFFICES ASSUME LifeInit PROVE LifeInv
    OBVIOUS
  <1> USE KernelAssumption, ThreadLifeAssumption
  <1>1. /\ k.cur = Idle /\ k.prio = BasePrio
        /\ k.stat = [t \in Thread |-> IF t = Idle THEN "RUNNING" ELSE "CLOSE"]
        /\ k.err = [t \in Thread |-> "EOK"] /\ k.rq = [p \in Prio |-> << >>]
        /\ k.grp = {} /\ k.tmr = {} /\ k.lock = 0
        /\ memory = [t \in Thread |-> IF t = Idle THEN "live" ELSE "none"]
        /\ defunct = << >>
        /\ pc = [t \in Thread |-> "run"] /\ about = [t \in Thread |-> None]
    BY DEF LifeInit
  <1>2. k \in KernelState
    <2>1. [t \in Thread |-> IF t = Idle THEN "RUNNING" ELSE "CLOSE"] \in [Thread -> Stat]
      BY DEF Stat
    <2> DEFINE s == [t \in Thread |-> IF t = Idle THEN "RUNNING" ELSE "CLOSE"]
    <2>2. [t \in Thread |-> "EOK"] \in [Thread -> Err]
      BY DEF Err
    <2>3. [p \in Prio |-> << >>] \in [Prio -> Seq(Thread)]
      OBVIOUS
    <2>4. k = [cur |-> Idle, prio |-> BasePrio, stat |-> s,
               err |-> [t \in Thread |-> "EOK"], rq |-> [p \in Prio |-> << >>],
               grp |-> {}, tmr |-> {}, lock |-> 0]
      BY DEF LifeInit
    <2> HIDE DEF s
    <2> QED  BY <2>1, <2>2, <2>3, <2>4 DEF KernelState, s
  <1>3. Doomed = {}
    BY <1>1 DEF Doomed
  <1>4. LifeTypeOK
    BY <1>1, <1>2 DEF LifeTypeOK, Memory, LifePc
  <1>5. LifeScheduler
    <2> DEFINE v == Seen(k, {})
    <2>1. /\ v.cur = k.cur /\ v.prio = k.prio /\ v.rq = k.rq /\ v.grp = k.grp
          /\ v.stat = [t \in Thread |-> IF t \in {} THEN "CLOSE" ELSE k.stat[t]]
      BY <1>2, SeenFields
    <2> HIDE DEF v
    <2>2. ToSet(<< >>) = {}
      BY DEF ToSet
    <2>3. ReadyListed(v)
      BY <1>1, <2>1, <2>2 DEF ReadyListed
    <2>4. ReadyDistinct(v) /\ GroupExact(v)
      BY <1>1, <2>1 DEF ReadyDistinct, GroupExact, Distinct
    <2>5. OneRunning(v)
      BY <1>1, <2>1 DEF OneRunning
    <2> QED
      BY <1>1, <1>3, <2>3, <2>4, <2>5 DEF LifeScheduler, SeenOK, KernelOK, Active, v
  <1>6. HasProcessor /\ Timers /\ PreemptionPending
    BY <1>1 DEF HasProcessor, Timers, PreemptionPending, Me, At
  <1>7. Calls
    BY <1>1 DEF Calls, CallOf, InCall
  <1>8. Dead
    <2>1. Distinct(defunct) /\ ToSet(defunct) = {}
      BY <1>1 DEF Distinct, ToSet
    <2> QED  BY <1>1, <2>1 DEF Dead, DeadOf
  <1> QED  BY <1>4, <1>5, <1>6, <1>7, <1>8 DEF LifeInv

-----------------------------------------------------------------------------
(* Steps that end with a rt_schedule *)

\* Threads are switched, and threads that no call is about have been woken.
Rescheduled ==
    /\ k' \in KernelState /\ SeenOK(k', Doomed) /\ k'.lock = 0
    /\ k'.stat[Idle] \in Active /\ k'.stat[k'.cur] = "RUNNING"
    /\ \A t \in Thread \ Doomed :
          k'.stat[t] = "READY" => k'.prio[k'.cur] <= k'.prio[t]
    /\ k'.tmr \subseteq k.tmr
    /\ \A t \in Thread :
          \/ k'.stat[t] = k.stat[t]
          \/ t \notin Doomed /\ {k.stat[t], k'.stat[t]} \subseteq Active
          \/ /\ k.stat[t] = "SUSPEND" /\ k'.stat[t] \in Active
             /\ ~ Held(t) /\ t \notin k'.tmr

\* A rt_schedule alone.
LEMMA ScheduleStep ==
    ASSUME LifeInv, k' = Schedule(k)
    PROVE  Rescheduled
  <1> DEFINE n == Schedule(k)
  <1>1. /\ n \in KernelState
        /\ SeenOK(n, Doomed)
        /\ \A t \in Thread \ Doomed : n.stat[t] = "READY" => n.prio[n.cur] <= n.prio[t]
        /\ n.prio = k.prio /\ n.err = k.err /\ n.tmr = k.tmr /\ n.lock = 0
        /\ n.stat[n.cur] = "RUNNING" /\ n.stat[Idle] \in Active
        /\ Switched(k, n, Doomed)
    BY LifeTypes, ScheduleSeen
  <1> HIDE DEF n
  <1>2. k' = n
    BY DEF n
  <1> QED  BY <1>1, <1>2 DEF Rescheduled, Switched

\* A wake-up and a rt_schedule: the tick, a handler or a cleanup function wakes
\* a suspended thread that no call is about.
LEMMA WakeStep ==
    ASSUME LifeInv, NEW t \in Thread \ Doomed, NEW e \in Err,
           k.stat[t] = "SUSPEND", ~ Held(t), k' = Schedule(Wake(k, t, e))
    PROVE  Rescheduled
  <1> DEFINE m == Wake(k, t, e)
             n == Schedule(m)
  <1>1. /\ m \in KernelState
        /\ SeenOK(m, Doomed)
        /\ m.cur = k.cur /\ m.prio = k.prio /\ m.lock = k.lock
        /\ m.tmr = k.tmr \ {t}
        /\ m.stat[t] \in Active
        /\ \A u \in Thread \ {t} : m.stat[u] = k.stat[u]
    BY LifeTypes, WakeSeen
  <1>2. Doomed \in SUBSET Thread /\ Idle \notin Doomed /\ m.lock = 0 /\ m.stat[Idle] \in Active
    BY <1>1, LifeTypes
  <1> HIDE DEF m
  <1>3. /\ n \in KernelState
        /\ SeenOK(n, Doomed)
        /\ \A u \in Thread \ Doomed : n.stat[u] = "READY" => n.prio[n.cur] <= n.prio[u]
        /\ n.prio = m.prio /\ n.err = m.err /\ n.tmr = m.tmr /\ n.lock = 0
        /\ n.stat[n.cur] = "RUNNING" /\ n.stat[Idle] \in Active
        /\ Switched(m, n, Doomed)
    BY <1>1, <1>2, ScheduleSeen
  <1> HIDE DEF n
  <1>4. k' = n
    BY DEF n, m
  <1>5. \A u \in Thread :
          \/ n.stat[u] = k.stat[u]
          \/ u \notin Doomed /\ {k.stat[u], n.stat[u]} \subseteq Active
          \/ /\ k.stat[u] = "SUSPEND" /\ n.stat[u] \in Active
             /\ ~ Held(u) /\ u \notin n.tmr
    BY <1>1, <1>3 DEF Switched
  <1> QED  BY <1>1, <1>3, <1>4, <1>5 DEF Rescheduled

\* A thread that was due to call rt_schedule may have done so.
PcSwitched ==
    \/ pc' = pc
    \/ At("pend") /\ pc' = [pc EXCEPT ![Me] = "run"]

\* A call about x goes on as before when threads have been switched.
LEMMA SwitchedCall ==
    ASSUME LifeInv, Rescheduled, NEW u \in Thread, NEW x \in Thread, x = about[u],
           pc'[u] = pc[u], about'[u] = x, memory'[x] = memory[x], x \notin ToSet(defunct'),
           about'[x] = None, \A v \in Thread : about'[v] = x => v = u
    PROVE  Calling(u)'
  <1> USE LifeTypes
  <1>1. Calling(u) /\ pc[u] \in InCall /\ Held(x)
    BY DEF LifeInv, Calls, CallOf, Held
  <1>2. \/ k'.stat[x] = k.stat[x]
        \/ x \notin Doomed /\ {k.stat[x], k'.stat[x]} \subseteq Active
    BY <1>1 DEF Rescheduled
  <1>3. pc[u] \in {"removed", "untimed"} => x \in Doomed
    BY DEF Doomed
  <1>4. Stage(u, x)'
    <2>1. Stage(u, x)
      BY <1>1 DEF Calling
    <2> QED  BY <1>2, <1>3, <2>1 DEF Stage, Active
  <1>5. x # k'.cur
    <2>1. k'.stat[k'.cur] = "RUNNING" /\ k'.cur \notin Doomed
      BY DEF Rescheduled, SeenOK
    <2> QED  BY <1>1, <1>3, <1>4, <2>1 DEF Stage, InCall
  <1>6. InHand(x)'
    BY <1>1, <1>5 DEF Calling, InHand, Me, Rescheduled
  <1>7. k'.stat[u] \in Active
    BY <1>1 DEF Calling, Rescheduled, Active
  <1> QED  BY <1>4, <1>6, <1>7 DEF Calling

\* The calls go on as before when threads have been switched.
LEMMA SwitchStep ==
    ASSUME LifeInv, Rescheduled, UNCHANGED <<memory, defunct, about>>, PcSwitched
    PROVE  LifeInv'
  <1> USE LifeTypes
  <1>1. \A t \in Thread : \/ pc'[t] = pc[t]
                          \/ pc[t] = "pend" /\ pc'[t] = "run"
    BY DEF PcSwitched, At, Me
  <1>2. pc' \in [Thread -> LifePc]
    BY DEF PcSwitched, LifePc
  <1>3. Doomed' = Doomed
    BY <1>1 DEF Doomed
  <1>4. LifeTypeOK'
    BY <1>2 DEF LifeTypeOK, Rescheduled
  <1>5. LifeScheduler' /\ HasProcessor' /\ PreemptionPending'
    BY <1>3 DEF LifeScheduler, HasProcessor, PreemptionPending, Rescheduled, Me
  <1>6. k'.cur \in Thread
    BY DEF Rescheduled, KernelState
  <1>7. Timers'
    BY DEF LifeInv, Timers, Rescheduled, Active
  <1>8. Dead'
    <2>1. \A t \in Thread : k'.stat[t] = "CLOSE" <=> k.stat[t] = "CLOSE"
      BY DEF Rescheduled, Active
    <2>2. ToSet(defunct) \subseteq Thread /\ \A t \in Thread : Held(t)' <=> Held(t)
      BY ElementOfSeq DEF ToSet, Held
    <2>3. Dead
      BY DEF LifeInv
    <2> QED  BY <2>1, <2>2, <2>3 DEF Dead, DeadOf
  <1>9. Calls'
    <2> SUFFICES ASSUME NEW u \in Thread
                 PROVE  /\ about'[u] # None <=> pc'[u] \in InCall
                        /\ about'[u] # None => Calling(u)'
                        /\ pc'[u] = "reap" => u = Idle /\ defunct' # << >>
                        /\ pc'[u] = "exit" => u # Idle /\ k'.stat[u] = "CLOSE"
      BY DEF Calls, CallOf
    <2>1. /\ about[u] # None <=> pc[u] \in InCall
          /\ about[u] # None => Calling(u)
          /\ pc[u] = "reap" => u = Idle /\ defunct # << >>
          /\ pc[u] = "exit" => u # Idle /\ k.stat[u] = "CLOSE"
      BY DEF LifeInv, Calls, CallOf
    <2>2. about'[u] # None <=> pc'[u] \in InCall
      BY <1>1, <2>1 DEF InCall
    <2>3. pc'[u] = "reap" => u = Idle /\ defunct' # << >>
      BY <1>1, <2>1
    <2>4. pc'[u] = "exit" => u # Idle /\ k'.stat[u] = "CLOSE"
      BY <1>1, <2>1 DEF Rescheduled, Active
    <2>5. ASSUME about[u] # None PROVE Calling(u)'
      <3>1. PICK x \in Thread : x = about[u]
        BY <2>5
      <3>2. pc[u] \in InCall /\ Calling(u)
        BY <2>1, <2>5
      <3>3. pc'[u] = pc[u] /\ about'[u] = x
        BY <1>1, <3>1, <3>2 DEF InCall
      <3>4. x \notin ToSet(defunct') /\ about'[x] = None /\ memory'[x] = memory[x]
        BY <3>1, <3>2 DEF Calling, InHand
      <3>5. \A v \in Thread : about'[v] = x => v = u
        BY <3>1, <3>2 DEF Calling
      <3> QED  BY <3>1, <3>3, <3>4, <3>5, SwitchedCall
    <2> QED  BY <2>2, <2>3, <2>4, <2>5
  <1> QED  BY <1>4, <1>5, <1>7, <1>8, <1>9 DEF LifeInv

\* Only threads that a call is about are doomed.
LEMMA DoomedHeld == \A t \in Doomed : Held(t)
  BY DEF Doomed, Held

\* rt_thread_timeout finds a suspended thread that no call is about.
LEMMA TimeoutKernel ==
    ASSUME LifeInv, NEW t \in Thread, TickTimeout(t)
    PROVE  Rescheduled
  <1> USE LifeTypes
  <1>1. t \in k.tmr /\ k' = Schedule(Wake(k, t, "ETIMEOUT"))
    BY DEF TickTimeout, Timeout
  <1>2. k.stat[t] = "SUSPEND"
    BY <1>1 DEF LifeInv, Timers
  <1>3. ~ Held(t)
    BY <1>1 DEF LifeInv, Calls, CallOf, Calling, InHand, Held
  <1>4. t \in Thread \ Doomed
    BY <1>3, DoomedHeld
  <1>5. "ETIMEOUT" \in Err
    BY DEF Err
  <1> QED  BY <1>1, <1>2, <1>3, <1>4, <1>5, WakeStep

\* A thread that may be resumed is suspended and no call is about it.
LEMMA ResumableFree ==
    ASSUME LifeInv, NEW t \in Resumable
    PROVE  /\ t \in App \ {Me} /\ t \in Thread \ Doomed /\ k.stat[t] = "SUSPEND"
           /\ memory[t] = "live" /\ about[t] = None /\ t \notin k.tmr
           /\ ~ Held(t)
           /\ Resume(k, t) = Wake(k, t, k.err[t]) /\ k.err[t] \in Err
  <1>1. ~ Held(t)
    BY DEF Resumable, Settled, Held
  <1>2. t \notin Doomed
    BY <1>1, DoomedHeld
  <1> QED  BY <1>1, <1>2, LifeTypes DEF Resumable, Settled, Resume, App

\* An interrupt.
LEMMA InterruptStep ==
    ASSUME LifeInv, NEW t \in Thread,
           TickYield \/ TickTimeout(t) \/ IsrResume(t)
    PROVE  LifeInv'
  <1>1. UNCHANGED <<memory, defunct, about>> /\ PcSwitched
    BY DEF TickYield, TickTimeout, IsrResume, PcSwitched
  <1>2. CASE TickYield
    <2>1. Rescheduled
      BY <1>2, ScheduleStep DEF TickYield
    <2> QED  BY <1>1, <2>1, SwitchStep
  <1>3. CASE TickTimeout(t)
    BY <1>1, <1>3, TimeoutKernel, SwitchStep
  <1>4. CASE IsrResume(t)
    <2>1. t \in Resumable /\ k' = Schedule(Resume(k, t))
      BY <1>4 DEF IsrResume
    <2>2. Rescheduled
      BY <2>1, ResumableFree, WakeStep
    <2> QED  BY <1>1, <2>2, SwitchStep
  <1> QED  BY <1>2, <1>3, <1>4

\* A thread that called rt_schedule.
LEMMA ScheduleCallStep ==
    ASSUME LifeInv, CallSchedule \/ LastSchedule
    PROVE  LifeInv'
  <1>1. k' = Schedule(k) /\ UNCHANGED <<memory, defunct>>
    BY DEF CallSchedule, LastSchedule
  <1>2. Rescheduled
    BY <1>1, ScheduleStep
  <1>3. CASE LastSchedule
    <2>1. UNCHANGED <<memory, defunct, about>> /\ PcSwitched
      BY <1>3 DEF LastSchedule, PcSwitched
    <2> QED  BY <1>2, <2>1, SwitchStep
  <1>4. CASE CallSchedule
    <2>1. At("pend") /\ pc' = [pc EXCEPT ![Me] = "run"] /\ about' = [about EXCEPT ![Me] = None]
      BY <1>4 DEF CallSchedule, GoOn
    <2>2. about[Me] = None
      BY <2>1, LifeTypes DEF LifeInv, Calls, CallOf, InCall, At, Me
    <2>3. about' = about
      BY <2>1, <2>2, LifeTypes DEF Me
    <2>4. UNCHANGED <<memory, defunct, about>> /\ PcSwitched
      BY <1>1, <2>1, <2>3 DEF PcSwitched
    <2> QED  BY <1>2, <2>4, SwitchStep
  <1> QED  BY <1>3, <1>4

-----------------------------------------------------------------------------
(* Steps of the current thread in a call about a thread z *)

\* Nobody else is in a call about z, and z is in none.
Mine(z) == about[z] = None /\ \A v \in Thread \ {Me} : about[v] # z

\* The step changes nothing of the other threads.
OthersKept(z) ==
    /\ k'.cur = k.cur
    /\ \A x \in Thread \ {Me, z} : k'.stat[x] = k.stat[x] /\ memory'[x] = memory[x]
    /\ k'.tmr \subseteq k.tmr \cup {Me, z}
    /\ \A x \in Thread \ {Me, z} : x \in ToSet(defunct') <=> x \in ToSet(defunct)

\* Who is in whose hands after the step.
LEMMA HandsAfter ==
    ASSUME LifeInv, NEW l \in LifePc, NEW z \in Thread, NEW t \in {None, z}, GoOn(l, t),
           Mine(z), about[Me] \in {None, z}
    PROVE  /\ \A x \in Thread \ {z} : Held(x)' <=> Held(x)
           /\ Held(z)' <=> t = z
           /\ about'[Me] = t /\ pc'[Me] = l
           /\ \A u \in Thread \ {Me} : about'[u] = about[u] /\ pc'[u] = pc[u]
           /\ pc' \in [Thread -> LifePc] /\ about' \in [Thread -> Thread \cup {None}]
  <1> USE LifeTypes
  <1>1. /\ about'[Me] = t /\ pc'[Me] = l
        /\ \A u \in Thread \ {Me} : about'[u] = about[u] /\ pc'[u] = pc[u]
        /\ pc' \in [Thread -> LifePc] /\ about' \in [Thread -> Thread \cup {None}]
    BY DEF GoOn, Me
  <1>2. Me \in Thread
    BY DEF Me
  <1>3. \A x \in Thread \ {z} : Held(x)' <=> Held(x)
    BY <1>1, <1>2 DEF Held
  <1>4. Held(z)' <=> t = z
    BY <1>1, <1>2 DEF Held, Mine
  <1> QED  BY <1>1, <1>3, <1>4

\* The other threads go on with their calls, and the dead stay accounted for.
LEMMA OthersGoOn ==
    ASSUME LifeInv, NEW l \in LifePc, NEW z \in Thread, NEW t \in {None, z}, GoOn(l, t),
           Mine(z), about[Me] \in {None, z}, OthersKept(z),
           z # Me /\ pc[z] = "exit" => k'.stat[z] = "CLOSE",
           Me = Idle \/ (defunct # << >> => defunct' # << >>)
    PROVE  /\ \A u \in Thread \ {Me} : CallOf(u)'
           /\ \A x \in Thread \ {Me, z} : DeadOf(x)'
  <1> USE LifeTypes
  <1>1. /\ \A x \in Thread \ {z} : Held(x)' <=> Held(x)
        /\ about'[Me] = t /\ pc'[Me] = l
        /\ \A u \in Thread \ {Me} : about'[u] = about[u] /\ pc'[u] = pc[u]
    BY HandsAfter
  <1>2. Me \in Thread /\ Me' = Me
    BY DEF Me, OthersKept
  <1>3. ASSUME NEW u \in Thread \ {Me} PROVE CallOf(u)'
    <2>1. CallOf(u)
      BY DEF LifeInv, Calls
    <2>2. ASSUME about[u] # None PROVE Calling(u)'
      <3> DEFINE x == about[u]
      <3>1. /\ x \in Thread \ {Me, z} /\ u # z /\ k.stat[u] \in Active
            /\ InHand(x) /\ Stage(u, x) /\ \A v \in Thread : about[v] = about[u] => v = u
        BY <2>1, <2>2 DEF CallOf, Calling, InHand, Mine
      <3>2. /\ k'.stat[x] = k.stat[x] /\ memory'[x] = memory[x] /\ k'.stat[u] = k.stat[u]
            /\ x \notin k'.tmr /\ x \notin ToSet(defunct')
        BY <3>1 DEF OthersKept, InHand
      <3>3. Stage(u, x)'
        BY <1>1, <3>1, <3>2 DEF Stage
      <3>4. InHand(x)'
        BY <1>1, <1>2, <3>1, <3>2 DEF InHand
      <3>5. \A v \in Thread : about'[v] = about[u] => v = u
        BY <1>1, <3>1
      <3> QED  BY <1>1, <3>1, <3>2, <3>3, <3>4, <3>5 DEF Calling
    <2>3. pc[u] = "reap" => u = Idle /\ defunct' # << >>
      BY <2>1 DEF CallOf
    <2>4. pc[u] = "exit" => u # Idle /\ k'.stat[u] = "CLOSE"
      BY <2>1 DEF CallOf, OthersKept
    <2> QED  BY <1>1, <2>1, <2>2, <2>3, <2>4 DEF CallOf
  <1>4. ASSUME NEW x \in Thread \ {Me, z} PROVE DeadOf(x)'
    <2>1. DeadOf(x)
      BY DEF LifeInv, Dead
    <2> QED  BY <1>1, <2>1 DEF DeadOf, OthersKept
  <1> QED  BY <1>3, <1>4

\* The doomed threads after the step.
LEMMA DoomedAfter ==
    ASSUME LifeInv, NEW l \in LifePc, NEW z \in Thread, NEW t \in {None, z}, GoOn(l, t),
           Mine(z), about[Me] \in {None, z}, t = None => l \notin InCall
    PROVE  Doomed' = IF l \in {"removed", "untimed", "closed"}
                     THEN Doomed \cup {z} ELSE Doomed \ {z}
  <1>1. /\ about'[Me] = t /\ pc'[Me] = l
        /\ \A u \in Thread \ {Me} : about'[u] = about[u] /\ pc'[u] = pc[u]
    BY HandsAfter
  <1>2. Me \in Thread
    BY LifeTypes DEF Me
  <1>3. pc[Me] \in {"removed", "untimed", "closed"} => about[Me] = z
    BY <1>2 DEF LifeInv, Calls, CallOf, InCall
  <1>a. \A x : x \in Doomed <=>
              \E u \in Thread : pc[u] \in {"removed", "untimed", "closed"} /\ about[u] = x
    BY DEF Doomed
  <1>b. \A x : x \in Doomed' <=>
              \E u \in Thread : pc'[u] \in {"removed", "untimed", "closed"} /\ about'[u] = x
    BY DEF Doomed
  <1>4. ASSUME NEW x, x # z PROVE x \in Doomed' <=> x \in Doomed
    <2>1. ASSUME NEW u \in Thread, pc'[u] \in {"removed", "untimed", "closed"}, about'[u] = x
          PROVE  x \in Doomed
      <3>1. u # Me
        BY <1>1, <1>2, <1>4, <2>1 DEF InCall
      <3> QED  BY <1>1, <1>a, <2>1, <3>1
    <2>2. ASSUME NEW u \in Thread, pc[u] \in {"removed", "untimed", "closed"}, about[u] = x
          PROVE  x \in Doomed'
      <3>1. u # Me
        BY <1>3, <1>4, <2>2
      <3> QED  BY <1>1, <1>b, <2>2, <3>1
    <2> QED  BY <1>a, <1>b, <2>1, <2>2
  <1>5. z \in Doomed' <=> l \in {"removed", "untimed", "closed"}
    BY <1>1, <1>2, <1>b DEF Mine, InCall
  <1> QED  BY <1>4, <1>5

\* The current thread is doomed by nobody and in nobody's hands; and in
\* application code it is RUNNING, calls nobody, and no thread that may run
\* outranks it.
LEMMA Current ==
    ASSUME LifeInv
    PROVE  /\ Me \in Thread \ Doomed /\ k.cur = Me
           /\ \A v \in Thread : about[v] # Me
           /\ CallOf(Me) /\ DeadOf(Me)
           /\ At("run") => /\ k.stat[Me] = "RUNNING" /\ about[Me] = None /\ Mine(Me)
                           /\ memory[Me] = "live" /\ Me \notin ToSet(defunct)
           /\ ~ At("pend") /\ ~ At("exit") =>
                 /\ k.stat[Me] = "RUNNING"
                 /\ \A u \in Thread \ Doomed :
                       k.stat[u] = "READY" => k.prio[Me] <= k.prio[u]
  <1> USE LifeTypes
  <1>1. Me \in Thread \ Doomed /\ k.cur = Me
    BY DEF Me
  <1>2. CallOf(Me) /\ DeadOf(Me)
    BY <1>1 DEF LifeInv, Calls, Dead
  <1>3. \A v \in Thread : about[v] # Me
    BY <1>1 DEF LifeInv, Calls, CallOf, Calling, InHand
  <1>4. ~ At("pend") /\ ~ At("exit") =>
           /\ k.stat[Me] = "RUNNING"
           /\ \A u \in Thread \ Doomed : k.stat[u] = "READY" => k.prio[Me] <= k.prio[u]
    BY <1>1 DEF LifeInv, HasProcessor, PreemptionPending
  <1>5. At("run") => /\ k.stat[Me] = "RUNNING" /\ about[Me] = None /\ Mine(Me)
                     /\ memory[Me] = "live" /\ Me \notin ToSet(defunct)
    <2> SUFFICES ASSUME At("run")
                 PROVE  /\ k.stat[Me] = "RUNNING" /\ about[Me] = None /\ Mine(Me)
                        /\ memory[Me] = "live" /\ Me \notin ToSet(defunct)
      OBVIOUS
    <2>1. pc[Me] = "run" /\ k.stat[Me] = "RUNNING"
      BY <1>4 DEF At
    <2>2. about[Me] = None
      BY <1>2, <2>1 DEF CallOf, InCall
    <2>3. memory[Me] \in {"none", "live", "stackless"}
      BY <1>1 DEF Memory
    <2> QED  BY <1>2, <1>3, <2>1, <2>2, <2>3 DEF Mine, DeadOf
  <1> QED  BY <1>1, <1>2, <1>3, <1>4, <1>5

\* rt_thread_resume, alone or at the end of rt_thread_startup, takes hold of a
\* thread that is not on a ready list.
LEMMA UnlinkStep ==
    ASSUME LifeInv, NEW t \in App \ {Me}, NEW m \in KernelState,
           At("run"), memory[t] = "live", Settled(t), t \notin k.tmr,
           k.stat[t] \in {"INIT", "SUSPEND"},
           m.cur = k.cur, m.lock = k.lock, m.rq = k.rq, m.grp = k.grp,
           m.prio = k.prio, m.tmr = k.tmr, m.stat[t] = "SUSPEND",
           \A u \in Thread \ {t} : m.stat[u] = k.stat[u],
           k' = ResumeOff(m, t), GoOn("unlinked", t), UNCHANGED <<memory, defunct>>
    PROVE  LifeInv'
  <1> USE LifeTypes
  <1>1. Mine(t) /\ ~ Held(t) /\ t \in Thread /\ t \notin Doomed
    BY DoomedHeld DEF Settled, Mine, Held
  <1>2. /\ Me \in Thread \ Doomed /\ k.cur = Me /\ about[Me] = None
        /\ k.stat[Me] = "RUNNING" /\ CallOf(Me) /\ DeadOf(Me)
        /\ \A v \in Thread : about[v] # Me
        /\ \A u \in Thread \ Doomed : k.stat[u] = "READY" => k.prio[Me] <= k.prio[u]
    BY Current DEF At
  <1>3. SeenOK(m, Doomed)
    <2>1. \A u \in Thread :
             \/ /\ u \notin Doomed /\ u \notin Doomed
                /\ m.stat[u] = k.stat[u] /\ m.prio[u] = k.prio[u]
             \/ /\ u \in Doomed \/ k.stat[u] \notin Active
                /\ u \in Doomed \/ m.stat[u] \notin Active
      BY DEF Active
    <2>2. m.cur \notin Doomed /\ Doomed \in SUBSET Thread
      BY <1>2
    <2> QED  BY <2>1, <2>2, SameSeen
  <1>4. /\ k' \in KernelState
        /\ SeenOK(k', Doomed)
        /\ k'.cur = m.cur /\ k'.prio = m.prio /\ k'.lock = m.lock
        /\ k'.stat = m.stat /\ k'.tmr = m.tmr \ {t}
    <2>1. LET n == ResumeOff(m, t)
          IN  /\ n \in KernelState
              /\ SeenOK(n, Doomed)
              /\ n.cur = m.cur /\ n.prio = m.prio /\ n.lock = m.lock
              /\ n.stat = m.stat /\ n.rq = m.rq /\ n.grp = m.grp /\ n.tmr = m.tmr \ {t}
      BY <1>1, <1>3, ResumeOffSeen
    <2> QED  BY <2>1
  <1>5. "unlinked" \in LifePc /\ "unlinked" \in InCall
    BY DEF LifePc, InCall
  <1>6. /\ Held(t)' /\ about'[Me] = t /\ pc'[Me] = "unlinked"
        /\ \A u \in Thread \ {Me} : about'[u] = about[u] /\ pc'[u] = pc[u]
        /\ pc' \in [Thread -> LifePc] /\ about' \in [Thread -> Thread \cup {None}]
    BY <1>1, <1>2, <1>5, HandsAfter
  <1>7. Doomed' = Doomed
    <2>1. Doomed' = Doomed \ {t}
      BY <1>1, <1>2, <1>5, DoomedAfter
    <2> QED  BY <1>1, <2>1
  <1>8. LifeTypeOK'
    BY <1>4, <1>6 DEF LifeTypeOK
  <1>9. LifeScheduler' /\ HasProcessor' /\ PreemptionPending'
    BY <1>2, <1>4, <1>7 DEF LifeScheduler, HasProcessor, PreemptionPending, Me, App
  <1>10. t \notin ToSet(defunct) /\ pc[t] # "exit"
    BY <1>1 DEF LifeInv, Dead, DeadOf, Calls, CallOf
  <1>11. /\ \A u \in Thread \ {Me} : CallOf(u)'
         /\ \A x \in Thread \ {Me, t} : DeadOf(x)'
    <2>1. OthersKept(t)
      BY <1>4 DEF OthersKept
    <2> QED  BY <1>1, <1>2, <1>5, <1>10, <2>1, OthersGoOn
  <1>12. CallOf(Me)'
    <2>1. Me' = Me
      BY <1>2, <1>4 DEF Me
    <2>2. InHand(t)'
      BY <1>1, <1>4, <1>6, <1>10, <2>1 DEF InHand, Settled
    <2>3. \A v \in Thread : about'[v] = t => v = Me
      BY <1>1, <1>6 DEF Mine
    <2>4. Stage(Me, t)'
      BY <1>4, <1>6, <2>1 DEF Stage
    <2>5. k'.stat[Me] \in Active
      BY <1>2, <1>4 DEF Active
    <2>6. about'[Me] # None => Calling(Me)'
      BY <1>6, <2>1, <2>2, <2>3, <2>4, <2>5 DEF Calling
    <2> QED  BY <1>1, <1>5, <1>6, <2>1, <2>6 DEF CallOf
  <1>13. DeadOf(t)' /\ DeadOf(Me)'
    <2>1. Me' = Me
      BY <1>2, <1>4 DEF Me
    <2>2. DeadOf(t)'
      BY <1>1, <1>4, <1>10 DEF DeadOf
    <2>3. Me \notin ToSet(defunct) /\ memory[Me] = "live"
      BY Current
    <2>4. k'.stat[Me] = "RUNNING"
      BY <1>2, <1>4
    <2> QED  BY <2>1, <2>2, <2>3, <2>4 DEF DeadOf
  <1>14. Calls'
    BY <1>2, <1>4, <1>11, <1>12 DEF Calls, Me
  <1>15. Dead'
    <2>1. Me' = Me
      BY <1>2, <1>4 DEF Me
    <2> QED  BY <1>11, <1>13, <2>1 DEF LifeInv, Dead
  <1>16. Timers'
    BY <1>4 DEF LifeInv, Timers
  <1> QED  BY <1>8, <1>9, <1>14, <1>15, <1>16 DEF LifeInv

\* What is left to show of such a step.
LEMMA LifeCallStep ==
    ASSUME LifeInv, NEW l \in LifePc, NEW z \in Thread, NEW t \in {None, z}, GoOn(l, t),
           Mine(z), about[Me] \in {None, z}, OthersKept(z),
           z # Me /\ pc[z] = "exit" => k'.stat[z] = "CLOSE",
           Me = Idle \/ (defunct # << >> => defunct' # << >>),
           k' \in KernelState, SeenOK(k', Doomed'), k'.lock = 0, k'.stat[Idle] \in Active,
           memory' \in [Thread -> Memory], defunct' \in Seq(App), Distinct(defunct'),
           HasProcessor', PreemptionPending', Timers',
           CallOf(Me)', DeadOf(Me)', DeadOf(z)'
    PROVE  LifeInv'
  <1>1. pc' \in [Thread -> LifePc] /\ about' \in [Thread -> Thread \cup {None}]
    BY HandsAfter
  <1>2. /\ \A u \in Thread \ {Me} : CallOf(u)'
        /\ \A x \in Thread \ {Me, z} : DeadOf(x)'
    BY OthersGoOn
  <1>3. Me' = Me
    BY DEF Me, OthersKept
  <1>4. LifeTypeOK' /\ LifeScheduler'
    BY <1>1 DEF LifeTypeOK, LifeScheduler
  <1>5. Calls'
    BY <1>2, <1>3 DEF Calls
  <1>6. Dead'
    BY <1>2, <1>3 DEF Dead
  <1> QED  BY <1>4, <1>5, <1>6 DEF LifeInv

\* The current thread and the one its call is about.
LEMMA InCallOf ==
    ASSUME LifeInv, pc[Me] \in InCall, NEW z \in Thread \cup {None}, z = about[Me]
    PROVE  /\ z \in App \ {Me} /\ z \in Thread /\ Mine(z)
           /\ z \notin k.tmr /\ z \notin ToSet(defunct)
           /\ Stage(Me, z) /\ DeadOf(z)
           /\ pc[z] = "exit" => k.stat[z] = "CLOSE"
  <1>1. Me \in Thread /\ CallOf(Me)
    BY Current
  <1>2. z # None /\ Calling(Me)
    BY <1>1 DEF CallOf
  <1>3. z \in App \ {Me} /\ z \in Thread /\ z \notin k.tmr /\ z \notin ToSet(defunct)
    BY <1>2, LifeTypes DEF Calling, InHand
  <1>4. Mine(z)
    BY <1>2 DEF Calling, InHand, Mine
  <1>5. DeadOf(z) /\ CallOf(z)
    BY <1>3 DEF LifeInv, Dead, Calls
  <1> QED  BY <1>2, <1>3, <1>4, <1>5 DEF Calling, CallOf

\* The insertion.
LEMMA InsertStep ==
    ASSUME LifeInv, ResumeInsertion
    PROVE  LifeInv'
  <1>0. pc[Me] = "unlinked"
    BY DEF ResumeInsertion, At
  <1>a. PICK z \in Thread \cup {None} : z = about[Me]
    BY LifeTypes DEF Me
  <1>b. /\ z \in App \ {Me} /\ z \in Thread /\ Mine(z)
        /\ z \notin k.tmr /\ z \notin ToSet(defunct)
        /\ Stage(Me, z) /\ DeadOf(z)
        /\ pc[z] = "exit" => k.stat[z] = "CLOSE"
    BY <1>0, <1>a, InCallOf DEF InCall
  <1> DEFINE n == InsertThread(k, z)
  <1>1. /\ pc[Me] = "unlinked" /\ k' = n /\ GoOn("pend", None)
        /\ UNCHANGED <<memory, defunct>>
    BY <1>0, <1>a DEF ResumeInsertion
  <1>2. /\ z \in App \ {Me} /\ z \in Thread /\ Mine(z) /\ about[Me] = z
        /\ z \notin k.tmr /\ z \notin ToSet(defunct)
        /\ k.stat[z] = "SUSPEND" /\ memory[z] = "live"
        /\ pc[z] # "exit"
    BY <1>0, <1>a, <1>b DEF Stage
  <1>3. /\ Me \in Thread \ Doomed /\ k.cur = Me /\ k.stat[Me] = "RUNNING"
        /\ CallOf(Me) /\ DeadOf(Me)
    BY <1>1, Current DEF At
  <1>4. "pend" \in LifePc /\ "pend" \notin InCall
        /\ "pend" \notin {"removed", "untimed", "closed"}
    BY DEF LifePc, InCall
  <1>5. Doomed' = Doomed \ {z}
    BY <1>1, <1>2, <1>4, DoomedAfter
  <1>6. z \notin Doomed
    BY <1>1, <1>2 DEF Doomed, Mine
  <1>7. /\ n \in KernelState /\ SeenOK(n, Doomed)
        /\ n.cur = k.cur /\ n.prio = k.prio /\ n.lock = k.lock /\ n.tmr = k.tmr
        /\ n.stat[z] = "READY"
        /\ \A u \in Thread \ {z} : n.stat[u] = k.stat[u]
    BY <1>2, <1>3, <1>6, LifeTypes, InsertSeen
  <1> HIDE DEF n
  <1>8. OthersKept(z)
    BY <1>1, <1>7 DEF OthersKept
  <1>9. SeenOK(k', Doomed') /\ k'.stat[Idle] \in Active /\ k'.lock = 0
    <2>1. Doomed' = Doomed
      BY <1>5, <1>6
    <2> QED  BY <1>1, <1>2, <1>7, <2>1, LifeTypes DEF App
  <1>10. /\ about'[Me] = None /\ pc'[Me] = "pend"
    BY <1>1, <1>3, LifeTypes DEF GoOn
  <1>11. Me' = Me /\ k'.stat[Me] = "RUNNING"
    BY <1>1, <1>2, <1>3, <1>7 DEF Me
  <1>12. HasProcessor' /\ PreemptionPending'
    BY <1>10, <1>11 DEF HasProcessor, PreemptionPending, At
  <1>13. Timers'
    BY <1>1, <1>2, <1>7, LifeTypes DEF LifeInv, Timers
  <1>14. CallOf(Me)'
    BY <1>4, <1>10, <1>11 DEF CallOf
  <1>15. DeadOf(z)' /\ DeadOf(Me)'
    <2>1. DeadOf(z)'
      BY <1>1, <1>2, <1>7 DEF DeadOf
    <2>2. Me \notin ToSet(defunct) /\ memory[Me] = "live"
      BY <1>3, LifeTypes DEF DeadOf, Memory
    <2> QED  BY <1>1, <1>11, <2>1, <2>2 DEF DeadOf
  <1>16. memory' \in [Thread -> Memory] /\ defunct' \in Seq(App) /\ Distinct(defunct')
    BY <1>1, LifeTypes DEF LifeInv, Dead
  <1>17. about[Me] \in {None, z} /\ (defunct # << >> => defunct' # << >>) /\ None \in {None, z}
    BY <1>1, <1>2
  <1> QED
    BY <1>1, <1>2, <1>4, <1>7, <1>8, <1>9, <1>12, <1>13, <1>14, <1>15, <1>16, <1>17, LifeCallStep

-----------------------------------------------------------------------------
(* Deletion *)

Deletion == {"removed", "untimed", "closed"}

LEMMA DeletionPc == Deletion \subseteq LifePc /\ Deletion \subseteq InCall
  BY DEF Deletion, LifePc, InCall

\* The kernel after the first part of rt_thread_delete: the thread is hidden
\* from the scheduler.
LEMMA RemoveKernel ==
    ASSUME LifeInv, NEW t \in App \ {Me}, t \notin Doomed,
           k.stat[t] \notin {"RUNNING", "CLOSE"},
           k' = IF k.stat[t] = "INIT" THEN k ELSE RemoveThread(k, t)
    PROVE  /\ k' \in KernelState /\ SeenOK(k', Doomed \cup {t})
           /\ k'.cur = k.cur /\ k'.prio = k.prio /\ k'.lock = k.lock
           /\ k'.tmr = k.tmr /\ k'.stat = k.stat
  <1> USE LifeTypes
  <1>1. t \in Thread \ Doomed /\ t # k.cur
    BY DEF Me
  <1>2. CASE k.stat[t] = "INIT"
    <2> DEFINE E == Doomed \cup {t}
    <2>1. E \in SUBSET Thread /\ k.cur \notin E
      BY <1>1
    <2>2. \A u \in Thread :
             \/ u \notin Doomed /\ u \notin E /\ k.stat[u] = k.stat[u] /\ k.prio[u] = k.prio[u]
             \/ /\ u \in Doomed \/ k.stat[u] \notin Active
                /\ u \in E \/ k.stat[u] \notin Active
      BY <1>2 DEF Active
    <2> HIDE DEF E
    <2>3. SeenOK(k, E)
      BY <2>1, <2>2, SameSeen
    <2> QED  BY <1>2, <2>3 DEF E
  <1>3. CASE k.stat[t] # "INIT"
    <2>1. LET n == RemoveThread(k, t)
          IN  /\ n \in KernelState
              /\ SeenOK(n, Doomed \cup {t})
              /\ n.cur = k.cur /\ n.prio = k.prio /\ n.lock = k.lock
              /\ n.tmr = k.tmr /\ n.stat = k.stat
      BY <1>1, RemoveSeen
    <2> QED  BY <1>3, <2>1
  <1> QED  BY <1>2, <1>3

\* The first part of rt_thread_delete.
LEMMA RemoveStep ==
    ASSUME LifeInv, DeleteAsleep = FALSE, NEW t \in Thread, DeleteRemove(t)
    PROVE  LifeInv'
  <1>1. /\ pc[Me] = "run" /\ GoOn("removed", t) /\ UNCHANGED <<memory, defunct>>
        /\ t \in App \ {Me} /\ memory[t] = "live" /\ Settled(t)
        /\ k.stat[t] # "CLOSE" /\ t \notin k.tmr
        /\ k' = IF k.stat[t] = "INIT" THEN k ELSE RemoveThread(k, t)
    BY DEF DeleteRemove, Deletable, At
  <1>2. Mine(t) /\ ~ Held(t) /\ t \notin Doomed
    BY <1>1, DoomedHeld DEF Settled, Mine, Held
  <1>3. /\ Me \in Thread \ Doomed /\ k.cur = Me /\ about[Me] = None
        /\ k.stat[Me] = "RUNNING" /\ memory[Me] = "live" /\ Me \notin ToSet(defunct)
        /\ \A u \in Thread \ Doomed : k.stat[u] = "READY" => k.prio[Me] <= k.prio[u]
    BY <1>1, Current DEF At
  <1>4. k.stat[t] # "RUNNING"
    <2> DEFINE v == Seen(k, Doomed)
    <2>1. v.stat = [u \in Thread |-> IF u \in Doomed THEN "CLOSE" ELSE k.stat[u]]
          /\ v.cur = k.cur
      BY LifeTypes, SeenFields
    <2>2. OneRunning(v)
      BY LifeTypes DEF SeenOK, KernelOK
    <2> HIDE DEF v
    <2> QED  BY <1>1, <1>2, <2>1, <2>2, LifeTypes DEF OneRunning, Me
  <1>5. /\ k' \in KernelState /\ SeenOK(k', Doomed \cup {t})
        /\ k'.cur = k.cur /\ k'.prio = k.prio /\ k'.lock = k.lock
        /\ k'.tmr = k.tmr /\ k'.stat = k.stat
    BY <1>1, <1>2, <1>4, RemoveKernel
  <1>6. "removed" \in LifePc /\ "removed" \in InCall
    BY DeletionPc DEF Deletion
  <1>7. Doomed' = Doomed \cup {t}
    BY <1>1, <1>2, <1>3, <1>6, LifeTypes, DoomedAfter
  <1>8. OthersKept(t)
    BY <1>1, <1>5 DEF OthersKept
  <1>9. SeenOK(k', Doomed') /\ k'.stat[Idle] \in Active /\ k'.lock = 0
    BY <1>5, <1>7, LifeTypes
  <1>10. about'[Me] = t /\ pc'[Me] = "removed" /\ Me' = Me
    BY <1>1, <1>3, <1>5, LifeTypes DEF GoOn, Me
  <1>11. HasProcessor' /\ PreemptionPending' /\ Timers'
    BY <1>3, <1>5, <1>7, <1>10, LifeTypes DEF LifeInv, HasProcessor, PreemptionPending, Timers
  <1>12. /\ \A u \in Thread \ {Me} : about'[u] = about[u]
         /\ t \notin ToSet(defunct) /\ pc[t] # "exit"
    <2>1. DeadOf(t) /\ CallOf(t)
      BY <1>1, LifeTypes DEF LifeInv, Dead, Calls
    <2> QED  BY <1>1, <2>1, LifeTypes DEF GoOn, DeadOf, CallOf
  <1>13. CallOf(Me)'
    <2>1. InHand(t)'
      BY <1>1, <1>5, <1>10, <1>12 DEF InHand, Settled
    <2>2. \A v \in Thread : about'[v] = t => v = Me
      BY <1>2, <1>12 DEF Mine
    <2>3. Stage(Me, t)'
      BY <1>1, <1>4, <1>5, <1>10 DEF Stage
    <2>4. about'[Me] # None => Calling(Me)'
      BY <1>3, <1>5, <1>10, <2>1, <2>2, <2>3 DEF Calling, Active
    <2> QED  BY <1>1, <1>6, <1>10, <2>4, LifeTypes DEF CallOf
  <1>14. DeadOf(t)' /\ DeadOf(Me)'
    <2>1. DeadOf(t)'
      BY <1>1, <1>5, <1>12 DEF DeadOf
    <2> QED  BY <1>1, <1>3, <1>5, <1>10, <2>1 DEF DeadOf
  <1>15. memory' \in [Thread -> Memory] /\ defunct' \in Seq(App) /\ Distinct(defunct')
    BY <1>1, LifeTypes DEF LifeInv, Dead
  <1>16. about[Me] \in {None, t} /\ (defunct # << >> => defunct' # << >>) /\ t \in {None, t}
    BY <1>1, <1>3
  <1> QED
    BY <1>1, <1>2, <1>5, <1>6, <1>8, <1>9, <1>11, <1>12, <1>13, <1>14, <1>15, <1>16, LifeCallStep

\* A step of the deletion of z that hides z as before.
LEMMA DeletionStep ==
    ASSUME LifeInv, NEW l \in Deletion, NEW z \in Thread,
           pc[Me] \in {"removed", "untimed"}, z = about[Me],
           GoOn(l, z), UNCHANGED <<memory, defunct>>,
           k' \in KernelState, k'.cur = k.cur, k'.prio = k.prio, k'.lock = k.lock,
           k'.tmr = k.tmr, k'.rq = k.rq, k'.grp = k.grp,
           \A u \in Thread \ {z} : k'.stat[u] = k.stat[u],
           l # "closed" => k'.stat[z] \notin {"RUNNING", "CLOSE"},
           l = "closed" => k'.stat[z] = "CLOSE",
           memory[z] = "live"
    PROVE  LifeInv'
  <1>1. pc[Me] \in InCall /\ l \in LifePc /\ l \in InCall /\ l # "pend" /\ l # "exit"
        /\ pc[Me] # "pend" /\ pc[Me] # "exit"
    BY DeletionPc DEF Deletion
  <1>2. /\ z \in App \ {Me} /\ Mine(z)
        /\ z \notin k.tmr /\ z \notin ToSet(defunct)
        /\ Stage(Me, z) /\ DeadOf(z)
        /\ pc[z] = "exit" => k.stat[z] = "CLOSE"
    BY <1>1, InCallOf
  <1>3. /\ Me \in Thread \ Doomed /\ k.cur = Me
        /\ k.stat[Me] = "RUNNING" /\ DeadOf(Me)
        /\ \A u \in Thread \ Doomed : k.stat[u] = "READY" => k.prio[Me] <= k.prio[u]
    BY <1>1, Current DEF At
  <1>4. z \in Doomed
    BY <1>3 DEF Doomed, Deletion
  <1>5. Doomed' = Doomed
    <2>1. l \in {"removed", "untimed", "closed"} /\ z \in {None, z} /\ about[Me] \in {None, z}
      BY DEF Deletion
    <2>2. z # None
      BY LifeTypes
    <2>3. Doomed' = Doomed \cup {z}
      BY <1>1, <1>2, <2>1, <2>2, DoomedAfter
    <2> QED  BY <1>4, <2>3
  <1>6. SeenOK(k', Doomed')
    <2>1. \A u \in Thread :
             \/ /\ u \notin Doomed /\ u \notin Doomed
                /\ k'.stat[u] = k.stat[u] /\ k'.prio[u] = k.prio[u]
             \/ /\ u \in Doomed \/ k.stat[u] \notin Active
                /\ u \in Doomed \/ k'.stat[u] \notin Active
      BY <1>4
    <2>2. k'.cur \notin Doomed /\ Doomed \in SUBSET Thread
      BY LifeTypes
    <2>3. SeenOK(k', Doomed)
      BY <2>1, <2>2, LifeTypes, SameSeen
    <2> QED  BY <1>5, <2>3
  <1>7. OthersKept(z)
    BY DEF OthersKept
  <1>8. k'.stat[Idle] \in Active /\ k'.lock = 0
    BY <1>4, LifeTypes
  <1>9. /\ about'[Me] = z /\ pc'[Me] = l /\ Me' = Me
        /\ \A u \in Thread \ {Me} : about'[u] = about[u]
    BY <1>3, LifeTypes DEF GoOn, Me
  <1>10. k'.stat[Me] = "RUNNING"
    BY <1>2, <1>3
  <1>11. HasProcessor' /\ PreemptionPending'
    BY <1>3, <1>4, <1>5, <1>9, <1>10, LifeTypes DEF HasProcessor, PreemptionPending
  <1>12. Timers'
    BY <1>2, LifeTypes DEF LifeInv, Timers
  <1>13. CallOf(Me)'
    <2>0. about[z] = None
      BY <1>2 DEF Mine
    <2>1. InHand(z)'
      BY <1>2, <1>9, <2>0 DEF InHand
    <2>2. \A v \in Thread : about'[v] = z => v = Me
      BY <1>2, <1>9 DEF Mine
    <2>3. Stage(Me, z)'
      BY <1>9 DEF Stage, Deletion
    <2>4. about'[Me] # None => Calling(Me)'
      BY <1>9, <1>10, <2>1, <2>2, <2>3 DEF Calling, Active
    <2> QED  BY <1>1, <1>9, <2>4, LifeTypes DEF CallOf, Deletion
  <1>14. DeadOf(z)' /\ DeadOf(Me)'
    <2>1. Held(z)'
      BY <1>3, <1>9 DEF Held
    <2>2. DeadOf(z)'
      BY <1>2, <2>1 DEF DeadOf
    <2>3. Me \notin ToSet(defunct) /\ memory[Me] = "live"
      BY <1>3, LifeTypes DEF DeadOf, Memory
    <2> QED  BY <1>9, <1>10, <2>2, <2>3 DEF DeadOf
  <1>15. memory' \in [Thread -> Memory] /\ defunct' \in Seq(App) /\ Distinct(defunct')
    BY LifeTypes DEF LifeInv, Dead
  <1>16. /\ about[Me] \in {None, z} /\ (defunct # << >> => defunct' # << >>) /\ z \in {None, z}
         /\ z # Me /\ pc[z] = "exit" => k'.stat[z] = "CLOSE"
    <2>1. pc[z] # "exit"
      BY <1>2 DEF Stage
    <2> QED  BY <2>1
  <1> QED
    BY <1>1, <1>2, <1>6, <1>7, <1>8, <1>11, <1>12, <1>13, <1>14, <1>15, <1>16, LifeCallStep

\* Its timer is detached, and it is closed.
LEMMA DeletionSteps ==
    ASSUME LifeInv, DeleteTimer \/ DeleteClose
    PROVE  LifeInv'
  <1>1. CASE DeleteTimer
    <2>1. /\ pc[Me] = "removed" /\ UNCHANGED <<memory, defunct>>
          /\ GoOn("untimed", about[Me]) /\ k' = [k EXCEPT !.tmr = @ \ {about[Me]}]
      BY <1>1 DEF DeleteTimer, At
    <2>2. PICK z \in Thread \cup {None} : z = about[Me]
      BY LifeTypes DEF Me
    <2>3. /\ z \in App \ {Me} /\ z \in Thread /\ z \notin k.tmr /\ Stage(Me, z)
      BY <2>1, <2>2, InCallOf DEF InCall
    <2>4. /\ k' \in KernelState /\ k'.cur = k.cur /\ k'.prio = k.prio /\ k'.lock = k.lock
          /\ k'.tmr = k.tmr /\ k'.rq = k.rq /\ k'.grp = k.grp /\ k'.stat = k.stat
      <3>1. k.tmr \ {about[Me]} = k.tmr
        BY <2>2, <2>3
      <3>2. k' = [k EXCEPT !.tmr = k.tmr]
        BY <2>1, <3>1
      <3> QED  BY <3>2, LifeTypes DEF KernelState
    <2>5. k'.stat[z] \notin {"RUNNING", "CLOSE"} /\ memory[z] = "live"
      BY <2>1, <2>3, <2>4 DEF Stage
    <2>6. "untimed" \in Deletion /\ GoOn("untimed", z)
      BY <2>1, <2>2 DEF Deletion
    <2> QED  BY <2>1, <2>2, <2>3, <2>4, <2>5, <2>6, DeletionStep
  <1>2. CASE DeleteClose
    <2>1. /\ pc[Me] = "untimed" /\ UNCHANGED <<memory, defunct>>
          /\ GoOn("closed", about[Me]) /\ k' = [k EXCEPT !.stat[about[Me]] = "CLOSE"]
      BY <1>2 DEF DeleteClose, At
    <2>2. PICK z \in Thread \cup {None} : z = about[Me]
      BY LifeTypes DEF Me
    <2>3. /\ z \in App \ {Me} /\ z \in Thread /\ z \notin k.tmr /\ Stage(Me, z)
      BY <2>1, <2>2, InCallOf DEF InCall
    <2>4. /\ k' \in KernelState /\ k'.cur = k.cur /\ k'.prio = k.prio /\ k'.lock = k.lock
          /\ k'.tmr = k.tmr /\ k'.rq = k.rq /\ k'.grp = k.grp
          /\ k'.stat = [k.stat EXCEPT ![z] = "CLOSE"]
      BY <2>1, <2>2, <2>3, LifeTypes DEF KernelState, Stat
    <2>5. k'.stat[z] = "CLOSE" /\ \A u \in Thread \ {z} : k'.stat[u] = k.stat[u]
      BY <2>3, <2>4, LifeTypes
    <2>6. memory[z] = "live" /\ "closed" \in Deletion /\ GoOn("closed", z)
      BY <2>1, <2>2, <2>3 DEF Stage, Deletion
    <2> QED  BY <2>1, <2>2, <2>3, <2>4, <2>5, <2>6, DeletionStep
  <1> QED  BY <1>1, <1>2

\* A list with a new first element.
LEMMA PushList ==
    ASSUME NEW S, NEW s \in Seq(S), NEW e \in S
    PROVE  /\ <<e>> \o s \in Seq(S)
           /\ <<e>> \o s # << >>
           /\ ToSet(<<e>> \o s) = ToSet(s) \cup {e}
           /\ Distinct(s) /\ e \notin ToSet(s) => Distinct(<<e>> \o s)
  <1> DEFINE w == <<e>> \o s
  <1>1. Len(s) \in Nat /\ DOMAIN s = 1 .. Len(s)
    BY LenProperties
  <1>2. <<e>> \in Seq(S) /\ Len(<<e>>) = 1 /\ <<e>>[1] = e
    OBVIOUS
  <1>3. /\ w \in Seq(S) /\ Len(w) = Len(s) + 1
        /\ \A j \in 1 .. Len(s) + 1 : w[j] = IF j = 1 THEN e ELSE s[j - 1]
    <2>1. /\ w \in Seq(S) /\ Len(w) = Len(<<e>>) + Len(s)
          /\ \A j \in 1 .. Len(<<e>>) + Len(s) :
                w[j] = IF j <= Len(<<e>>) THEN <<e>>[j] ELSE s[j - Len(<<e>>)]
      BY <1>2, ConcatProperties
    <2> QED  BY <1>1, <1>2, <2>1
  <1>4. DOMAIN w = 1 .. Len(s) + 1
    BY <1>3, LenProperties
  <1> HIDE DEF w
  <1>5. w[1] = e /\ \A i \in 1 .. Len(s) : w[i + 1] = s[i]
    BY <1>1, <1>3
  <1>6. ToSet(w) = ToSet(s) \cup {e}
    <2>1. ASSUME NEW y \in ToSet(w) PROVE y \in ToSet(s) \cup {e}
      <3>1. PICK j \in 1 .. Len(s) + 1 : w[j] = y
        BY <1>4 DEF ToSet
      <3>2. CASE j = 1
        BY <1>5, <3>1, <3>2
      <3>3. CASE j # 1
        <4>1. j - 1 \in 1 .. Len(s) /\ s[j - 1] = y
          BY <1>1, <1>3, <3>1, <3>3
        <4> QED  BY <1>1, <4>1 DEF ToSet
      <3> QED  BY <3>2, <3>3
    <2>2. e \in ToSet(w)
      BY <1>1, <1>4, <1>5 DEF ToSet
    <2>3. ASSUME NEW y \in ToSet(s) PROVE y \in ToSet(w)
      <3>1. PICK j \in 1 .. Len(s) : s[j] = y
        BY <1>1 DEF ToSet
      <3>2. j + 1 \in 1 .. Len(s) + 1 /\ w[j + 1] = y
        BY <1>1, <1>5, <3>1
      <3> QED  BY <1>4, <3>2 DEF ToSet
    <2> QED  BY <2>1, <2>2, <2>3
  <1>7. ASSUME Distinct(s), e \notin ToSet(s) PROVE Distinct(w)
    <2>1. \A j \in 1 .. Len(s) : s[j] # e
      BY <1>1, <1>7 DEF ToSet
    <2> SUFFICES ASSUME NEW a \in 1 .. Len(s) + 1, NEW b \in 1 .. Len(s) + 1,
                        w[a] = w[b]
                 PROVE  a = b
      BY <1>4 DEF Distinct
    <2>2. a = 1 <=> b = 1
      <3>1. a # 1 => a - 1 \in 1 .. Len(s) /\ w[a] = s[a - 1]
        BY <1>1, <1>3
      <3>2. b # 1 => b - 1 \in 1 .. Len(s) /\ w[b] = s[b - 1]
        BY <1>1, <1>3
      <3> QED  BY <1>5, <2>1, <3>1, <3>2
    <2>3. CASE a # 1 /\ b # 1
      <3>1. a - 1 \in 1 .. Len(s) /\ b - 1 \in 1 .. Len(s) /\ s[a - 1] = s[b - 1]
        BY <1>1, <1>3, <2>3
      <3>2. a - 1 = b - 1
        BY <1>1, <1>7, <3>1 DEF Distinct
      <3> QED  BY <3>2
    <2> QED  BY <2>2, <2>3
  <1>8. w # << >>
    BY <1>1, <1>3
  <1> QED  BY <1>3, <1>6, <1>7, <1>8 DEF w

\* The end of rt_thread_exit and rt_thread_detach: the thread is on the list of
\* the dead, or it is gone.
LEMMA BuryEffect ==
    ASSUME LifeInv, NEW z \in App, z \notin ToSet(defunct), Bury(z)
    PROVE  /\ memory' \in [Thread -> Memory] /\ defunct' \in Seq(App) /\ Distinct(defunct')
           /\ \A x \in Thread \ {z} : /\ memory'[x] = memory[x]
                                      /\ x \in ToSet(defunct') <=> x \in ToSet(defunct)
           /\ \/ z \in ToSet(defunct') /\ memory' = memory
              \/ z \notin ToSet(defunct') /\ memory'[z] = "none" /\ z \in Static
           /\ defunct # << >> => defunct' # << >>
  <1> USE LifeTypes
  <1>1. Distinct(defunct)
    BY DEF LifeInv, Dead
  <1>2. CASE z \in Static \ Cleanup
    <2>1. memory' = [memory EXCEPT ![z] = "none"] /\ defunct' = defunct
      BY <1>2 DEF Bury
    <2> QED  BY <1>1, <1>2, <2>1 DEF Memory
  <1>3. CASE z \notin Static \ Cleanup
    <2>1. defunct' = <<z>> \o defunct /\ memory' = memory
      BY <1>3 DEF Bury
    <2>2. /\ defunct' \in Seq(App) /\ defunct' # << >>
          /\ ToSet(defunct') = ToSet(defunct) \cup {z} /\ Distinct(defunct')
      BY <1>1, <2>1, PushList
    <2> QED  BY <2>1, <2>2
  <1> QED  BY <1>2, <1>3

\* A closed thread need not be hidden.
LEMMA ShowClosed ==
    ASSUME LifeInv, NEW z \in Thread, z = Me \/ k.stat[z] = "CLOSE"
    PROVE  SeenOK(k, Doomed \ {z})
  <1> DEFINE E == Doomed \ {z}
  <1>1. \A u \in Thread :
           \/ u \notin Doomed /\ u \notin E /\ k.stat[u] = k.stat[u] /\ k.prio[u] = k.prio[u]
           \/ /\ u \in Doomed \/ k.stat[u] \notin Active
              /\ u \in E \/ k.stat[u] \notin Active
    BY Current DEF Active
  <1>2. k.cur \notin E /\ E \in SUBSET Thread
    BY LifeTypes
  <1> HIDE DEF E
  <1>3. k \in KernelState /\ SeenOK(k, Doomed) /\ Doomed \in SUBSET Thread
    BY LifeTypes
  <1>4. SeenOK(k, E)
    BY <1>1, <1>2, <1>3, SameSeen
  <1> QED  BY <1>4 DEF E

\* A step that leaves the kernel alone, about a thread that is closed or about
\* none.
LEMMA QuietStep ==
    ASSUME LifeInv, NEW l \in LifePc, NEW z \in Thread, NEW t \in {None, z}, GoOn(l, t),
           k' = k, pc[Me] \notin {"pend", "exit"},
           l \notin Deletion, t = None => l \notin InCall,
           z = Me \/ k.stat[z] = "CLOSE",
           Mine(z), about[Me] \in {None, z},
           \A x \in Thread \ {Me, z} : /\ memory'[x] = memory[x]
                                       /\ x \in ToSet(defunct') <=> x \in ToSet(defunct),
           Me = Idle \/ (defunct # << >> => defunct' # << >>),
           memory' \in [Thread -> Memory], defunct' \in Seq(App), Distinct(defunct'),
           CallOf(Me)', DeadOf(Me)', DeadOf(z)'
    PROVE  LifeInv'
  <1>1. /\ Me \in Thread \ Doomed /\ k.cur = Me /\ k.stat[Me] = "RUNNING"
        /\ \A u \in Thread \ Doomed : k.stat[u] = "READY" => k.prio[Me] <= k.prio[u]
    BY Current DEF At
  <1>2. Doomed' = Doomed \ {z}
    BY DoomedAfter DEF Deletion
  <1>3. SeenOK(k', Doomed')
    BY <1>2, ShowClosed
  <1>4. OthersKept(z)
    BY DEF OthersKept
  <1>5. Me' = Me /\ Me \in Thread /\ pc'[Me] = l
    BY <1>1, LifeTypes DEF GoOn, Me
  <1>6. HasProcessor'
    BY <1>1, <1>5 DEF HasProcessor
  <1>7. PreemptionPending'
    <2>1. \A u \in Thread \ Doomed' : k.stat[u] = "READY" => k.prio[Me] <= k.prio[u]
      BY <1>1, <1>2
    <2> QED  BY <1>1, <2>1 DEF PreemptionPending
  <1>8. Timers'
    BY DEF LifeInv, Timers
  <1>9. k' \in KernelState /\ k'.lock = 0 /\ k'.stat[Idle] \in Active
    BY LifeTypes
  <1>10. z # Me /\ pc[z] = "exit" => k'.stat[z] = "CLOSE"
    OBVIOUS
  <1> QED  BY <1>3, <1>4, <1>6, <1>7, <1>8, <1>9, <1>10, LifeCallStep

\* The last part of rt_thread_delete.
LEMMA BuryStep ==
    ASSUME LifeInv, DeleteBury
    PROVE  LifeInv'
  <1>1. pc[Me] = "closed" /\ Bury(about[Me]) /\ GoOn("run", None) /\ k' = k
    BY DEF DeleteBury, At
  <1>2. PICK z \in Thread \cup {None} : z = about[Me]
    BY LifeTypes DEF Me
  <1>3. /\ z \in App \ {Me} /\ z \in Thread /\ Mine(z) /\ z \notin ToSet(defunct)
        /\ memory[z] = "live" /\ k.stat[z] = "CLOSE"
    BY <1>1, <1>2, InCallOf DEF InCall, Stage
  <1>4. /\ Me \in Thread /\ k.stat[Me] = "RUNNING" /\ DeadOf(Me)
    BY <1>1, Current DEF At
  <1>5. /\ memory' \in [Thread -> Memory] /\ defunct' \in Seq(App) /\ Distinct(defunct')
        /\ \A x \in Thread \ {z} : /\ memory'[x] = memory[x]
                                   /\ x \in ToSet(defunct') <=> x \in ToSet(defunct)
        /\ \/ z \in ToSet(defunct') /\ memory' = memory
           \/ z \notin ToSet(defunct') /\ memory'[z] = "none" /\ z \in Static
        /\ defunct # << >> => defunct' # << >>
    BY <1>1, <1>2, <1>3, BuryEffect
  <1>6. "run" \in LifePc /\ "run" \notin InCall /\ "run" \notin Deletion
    BY DEF LifePc, InCall, Deletion
  <1>7. /\ about'[Me] = None /\ pc'[Me] = "run" /\ Me' = Me
    BY <1>1, <1>4, LifeTypes DEF GoOn, Me
  <1>8. CallOf(Me)'
    BY <1>6, <1>7 DEF CallOf
  <1>9. DeadOf(z)'
    BY <1>1, <1>3, <1>5 DEF DeadOf
  <1>10. DeadOf(Me)'
    <2>1. Me \notin ToSet(defunct) /\ memory[Me] = "live"
      BY <1>4, LifeTypes DEF DeadOf, Memory
    <2> QED  BY <1>1, <1>3, <1>4, <1>5, <1>7, <2>1 DEF DeadOf
  <1>11. None \in {None, z} /\ about[Me] \in {None, z} /\ pc[Me] \notin {"pend", "exit"}
    BY <1>1, <1>2
  <1> QED  BY <1>1, <1>3, <1>5, <1>6, <1>8, <1>9, <1>10, <1>11, QuietStep

-----------------------------------------------------------------------------
(* The idle thread *)

\* It looks at the list of the dead, and gives the memory of a dead thread back
\* in two parts.
LEMMA IdleSteps ==
    ASSUME LifeInv, IdleLook \/ FreeStack \/ FreeObject
    PROVE  LifeInv'
  <1>0. Idle \in Thread /\ Idle \notin App
    BY LifeTypes
  <1>1. CASE IdleLook
    <2>1. /\ Me = Idle /\ pc[Me] = "run" /\ defunct # << >> /\ GoOn("reap", None)
          /\ k' = k /\ memory' = memory /\ defunct' = defunct
      BY <1>1 DEF IdleLook, At
    <2>2. /\ Me \in Thread /\ k.stat[Me] = "RUNNING" /\ about[Me] = None /\ Mine(Me)
          /\ memory[Me] = "live" /\ Me \notin ToSet(defunct)
      BY <2>1, Current DEF At
    <2>3. "reap" \in LifePc /\ "reap" \notin InCall /\ "reap" \notin Deletion
      BY DEF LifePc, InCall, Deletion
    <2>4. about'[Idle] = None /\ pc'[Idle] = "reap" /\ Me' = Me
      BY <2>1, <2>2, LifeTypes DEF GoOn, Me
    <2>5. CallOf(Idle)' /\ DeadOf(Idle)'
      BY <2>1, <2>2, <2>3, <2>4 DEF CallOf, DeadOf
    <2>6. CallOf(Me)' /\ DeadOf(Me)'
      BY <2>1, <2>4, <2>5
    <2>7. memory' \in [Thread -> Memory] /\ defunct' \in Seq(App) /\ Distinct(defunct')
      BY <2>1, LifeTypes DEF LifeInv, Dead
    <2> QED  BY <1>0, <2>1, <2>2, <2>3, <2>5, <2>6, <2>7, QuietStep
  <1>2. CASE FreeStack
    <2>1. /\ pc[Me] = "stack" /\ GoOn("object", about[Me]) /\ k' = k /\ defunct' = defunct
          /\ memory' = [memory EXCEPT ![about[Me]] = "stackless"]
      BY <1>2 DEF FreeStack, At
    <2>2. PICK z \in Thread \cup {None} : z = about[Me]
      BY LifeTypes DEF Me
    <2>3. /\ z \in App \ {Me} /\ z \in Thread /\ Mine(z) /\ z \notin ToSet(defunct)
          /\ z \notin k.tmr /\ Me = Idle /\ memory[z] = "live" /\ k.stat[z] = "CLOSE"
      BY <2>1, <2>2, InCallOf DEF InCall, Stage
    <2>4. /\ Me \in Thread /\ k.stat[Me] = "RUNNING" /\ DeadOf(Me)
      BY <2>1, Current DEF At
    <2>5. "object" \in LifePc /\ "object" \in InCall /\ "object" \notin Deletion
      BY DEF LifePc, InCall, Deletion
    <2>6. /\ about'[Me] = z /\ pc'[Me] = "object" /\ Me' = Me
          /\ \A u \in Thread \ {Me} : about'[u] = about[u]
      BY <2>1, <2>2, <2>4, LifeTypes DEF GoOn, Me
    <2>7. /\ memory' \in [Thread -> Memory] /\ memory'[z] = "stackless"
          /\ \A x \in Thread \ {z} : memory'[x] = memory[x]
      BY <2>1, <2>2, <2>3, LifeTypes DEF Memory
    <2>8. CallOf(Me)'
      <3>0. about[z] = None
        BY <2>3 DEF Mine
      <3>1. InHand(z)'
        BY <2>1, <2>3, <2>6, <3>0 DEF InHand
      <3>2. \A v \in Thread : about'[v] = z => v = Me
        BY <2>3, <2>6 DEF Mine
      <3>3. Stage(Me, z)'
        BY <2>1, <2>3, <2>6, <2>7 DEF Stage
      <3>4. about'[Me] # None => Calling(Me)'
        BY <2>1, <2>4, <2>6, <3>1, <3>2, <3>3 DEF Calling, Active
      <3> QED  BY <2>3, <2>5, <2>6, <3>4, LifeTypes DEF CallOf
    <2>9. DeadOf(z)'
      <3>1. Held(z)'
        BY <2>4, <2>6 DEF Held
      <3> QED  BY <2>1, <2>3, <2>7, <3>1 DEF DeadOf
    <2>10. DeadOf(Me)'
      <3>1. Me \notin ToSet(defunct) /\ memory[Me] = "live"
        BY <2>4, LifeTypes DEF DeadOf, Memory
      <3> QED  BY <2>1, <2>3, <2>4, <2>6, <2>7, <3>1 DEF DeadOf
    <2>11. /\ z \in {None, z} /\ about[Me] \in {None, z} /\ pc[Me] \notin {"pend", "exit"}
           /\ z # None /\ GoOn("object", z) /\ defunct' \in Seq(App) /\ Distinct(defunct')
      BY <2>1, <2>2, <2>3, LifeTypes DEF LifeInv, Dead
    <2> QED  BY <2>1, <2>3, <2>5, <2>7, <2>8, <2>9, <2>10, <2>11, QuietStep
  <1>3. CASE FreeObject
    <2>1. /\ pc[Me] = "object" /\ GoOn("run", None) /\ k' = k /\ defunct' = defunct
          /\ memory' = [memory EXCEPT ![about[Me]] = "none"]
      BY <1>3 DEF FreeObject, At
    <2>2. PICK z \in Thread \cup {None} : z = about[Me]
      BY LifeTypes DEF Me
    <2>3. /\ z \in App \ {Me} /\ z \in Thread /\ Mine(z) /\ z \notin ToSet(defunct)
          /\ Me = Idle /\ k.stat[z] = "CLOSE"
      BY <2>1, <2>2, InCallOf DEF InCall, Stage
    <2>4. /\ Me \in Thread /\ k.stat[Me] = "RUNNING" /\ DeadOf(Me)
      BY <2>1, Current DEF At
    <2>5. "run" \in LifePc /\ "run" \notin InCall /\ "run" \notin Deletion
      BY DEF LifePc, InCall, Deletion
    <2>6. about'[Me] = None /\ pc'[Me] = "run" /\ Me' = Me
      BY <2>1, <2>4, LifeTypes DEF GoOn, Me
    <2>7. /\ memory' \in [Thread -> Memory] /\ memory'[z] = "none"
          /\ \A x \in Thread \ {z} : memory'[x] = memory[x]
      BY <2>1, <2>2, <2>3, LifeTypes DEF Memory
    <2>8. CallOf(Me)'
      BY <2>5, <2>6 DEF CallOf
    <2>9. DeadOf(z)'
      BY <2>1, <2>3, <2>7 DEF DeadOf
    <2>10. DeadOf(Me)'
      <3>1. Me \notin ToSet(defunct) /\ memory[Me] = "live"
        BY <2>4, LifeTypes DEF DeadOf, Memory
      <3> QED  BY <2>1, <2>3, <2>4, <2>6, <2>7, <3>1 DEF DeadOf
    <2>11. /\ None \in {None, z} /\ about[Me] \in {None, z} /\ pc[Me] \notin {"pend", "exit"}
           /\ defunct' \in Seq(App) /\ Distinct(defunct')
      BY <2>1, <2>2, LifeTypes DEF LifeInv, Dead
    <2> QED  BY <2>1, <2>3, <2>5, <2>7, <2>8, <2>9, <2>10, <2>11, QuietStep
  <1> QED  BY <1>1, <1>2, <1>3

-----------------------------------------------------------------------------
(* Steps of the current thread about itself *)

\* The current thread leaves the ready lists; its timer is as in T.
LEMMA LeaveKernel ==
    ASSUME LifeInv, NEW x \in {"SUSPEND", "CLOSE"}, NEW T \in SUBSET Thread,
           k' = [TakeOff(k, Me, x) EXCEPT !.tmr = T]
    PROVE  /\ k' \in KernelState /\ SeenOK(k', Doomed)
           /\ k'.cur = k.cur /\ k'.prio = k.prio /\ k'.lock = k.lock /\ k'.tmr = T
           /\ k'.stat[Me] = x
           /\ \A u \in Thread \ {Me} : k'.stat[u] = k.stat[u]
  <1> DEFINE o == TakeOff(k, Me, x)
  <1>0. Me \in Thread \ Doomed /\ k.cur = Me
    BY Current
  <1>1. /\ o \in KernelState /\ SeenOK(o, Doomed)
        /\ o.cur = k.cur /\ o.prio = k.prio /\ o.lock = k.lock
        /\ o.err = k.err /\ o.tmr = k.tmr
        /\ o.stat[Me] = x
        /\ \A u \in Thread \ {Me} : o.stat[u] = k.stat[u]
    BY <1>0, LifeTypes, TakeOffSeen
  <1> HIDE DEF o
  <1>2. /\ k' \in KernelState /\ k'.cur = o.cur /\ k'.prio = o.prio /\ k'.lock = o.lock
        /\ k'.tmr = T /\ k'.stat = o.stat /\ k'.rq = o.rq /\ k'.grp = o.grp
    <2>1. k' = [o EXCEPT !.tmr = T]
      BY DEF o
    <2> QED  BY <1>1, <2>1 DEF KernelState
  <1>3. SeenOK(k', Doomed)
    <2>1. k'.cur \notin Doomed /\ Doomed \in SUBSET Thread
      BY <1>0, <1>1, <1>2, LifeTypes
    <2>2. \A u \in Thread :
             \/ /\ u \notin Doomed /\ u \notin Doomed
                /\ k'.stat[u] = o.stat[u] /\ k'.prio[u] = o.prio[u]
             \/ /\ u \in Doomed \/ o.stat[u] \notin Active
                /\ u \in Doomed \/ k'.stat[u] \notin Active
      BY <1>2
    <2>3. PICK m \in KernelState : m = o
      BY <1>1
    <2>4. PICK n \in KernelState : n = k'
      BY <1>2
    <2>5. SeenOK(m, Doomed) /\ n.cur = m.cur /\ n.rq = m.rq /\ n.grp = m.grp
      BY <1>1, <1>2, <2>3, <2>4
    <2>6. n.cur \notin Doomed /\ Doomed \in SUBSET Thread
      BY <2>1, <2>4
    <2>7. \A u \in Thread :
             \/ /\ u \notin Doomed /\ u \notin Doomed
                /\ n.stat[u] = m.stat[u] /\ n.prio[u] = m.prio[u]
             \/ /\ u \in Doomed \/ m.stat[u] \notin Active
                /\ u \in Doomed \/ n.stat[u] \notin Active
      BY <2>2, <2>3, <2>4
    <2>8. SeenOK(n, Doomed)
      BY <2>5, <2>6, <2>7, SameSeen
    <2> QED  BY <2>4, <2>8
  <1> QED  BY <1>1, <1>2, <1>3

\* What both have in common.
LEMMA LeaveStep ==
    ASSUME LifeInv, NEW x \in {"SUSPEND", "CLOSE"}, NEW T \in SUBSET (k.tmr \cup {Me}),
           Me \in App, At("run"),
           k' = [TakeOff(k, Me, x) EXCEPT !.tmr = T],
           x = "CLOSE" => Me \notin T,
           NEW l \in {"pend", "exit"}, GoOn(l, None),
           (l = "exit" /\ x = "CLOSE") \/ (l = "pend" /\ x = "SUSPEND"),
           \A u \in Thread \ {Me} : /\ memory'[u] = memory[u]
                                    /\ u \in ToSet(defunct') <=> u \in ToSet(defunct),
           Me = Idle \/ (defunct # << >> => defunct' # << >>),
           memory' \in [Thread -> Memory], defunct' \in Seq(App), Distinct(defunct'),
           x = "SUSPEND" => memory'[Me] = "live" /\ Me \notin ToSet(defunct'),
           x = "CLOSE" => \/ memory'[Me] = "live" /\ Me \in ToSet(defunct')
                          \/ memory'[Me] = "none" /\ Me \notin ToSet(defunct')
    PROVE  LifeInv'
  <1>1. /\ Me \in Thread \ Doomed /\ k.cur = Me /\ about[Me] = None /\ Mine(Me) /\ Me # Idle
    BY Current, LifeTypes
  <1>2. /\ k' \in KernelState /\ SeenOK(k', Doomed)
        /\ k'.cur = k.cur /\ k'.prio = k.prio /\ k'.lock = k.lock /\ k'.tmr = T
        /\ k'.stat[Me] = x
        /\ \A u \in Thread \ {Me} : k'.stat[u] = k.stat[u]
    <2>1. T \in SUBSET Thread
      BY <1>1, LifeTypes
    <2> QED  BY <2>1, LeaveKernel
  <1>3. l \in LifePc /\ l \notin InCall /\ l \notin Deletion
    BY DEF LifePc, InCall, Deletion
  <1>4. Doomed' = Doomed
    <2>1. Doomed' = Doomed \ {Me}
      BY <1>1, <1>3, DoomedAfter DEF Deletion
    <2> QED  BY <1>1, <2>1
  <1>5. OthersKept(Me)
    BY <1>2 DEF OthersKept
  <1>6. about'[Me] = None /\ pc'[Me] = l /\ Me' = Me
    BY <1>1, <1>2, LifeTypes DEF GoOn, Me
  <1>7. HasProcessor' /\ PreemptionPending'
    BY <1>2, <1>6 DEF HasProcessor, PreemptionPending, At
  <1>8. Timers'
    <2>1. \A u \in k.tmr : k.stat[u] = "SUSPEND"
      BY DEF LifeInv, Timers
    <2> QED  BY <1>2, <2>1, LifeTypes DEF Timers
  <1>9. CallOf(Me)'
    BY <1>1, <1>2, <1>3, <1>6 DEF CallOf
  <1>10. DeadOf(Me)'
    BY <1>2, <1>6 DEF DeadOf
  <1>11. SeenOK(k', Doomed') /\ k'.lock = 0 /\ k'.stat[Idle] \in Active
    BY <1>1, <1>2, <1>4, LifeTypes
  <1>12. None \in {None, Me} /\ about[Me] \in {None, Me}
    BY <1>1
  <1>13. PICK z \in Thread : z = Me
    BY <1>1
  <1>14. DeadOf(z)' /\ Mine(z) /\ OthersKept(z) /\ (z # Me => FALSE)
    BY <1>1, <1>5, <1>6, <1>10, <1>13
  <1> QED
    BY <1>2, <1>3, <1>7, <1>8, <1>9, <1>10, <1>11, <1>12, <1>13, <1>14, LifeCallStep

\* rt_thread_suspend of the caller, with or without a timer.
LEMMA SuspendStep ==
    ASSUME LifeInv, NEW time \in Wait, SuspendCaller(time)
    PROVE  LifeInv'
  <1>1. /\ Me \in App /\ At("run") /\ GoOn("pend", None)
        /\ UNCHANGED <<memory, defunct>>
        /\ k' = IF time = "limited" THEN StartTimer(Suspend(k, Me), Me) ELSE Suspend(k, Me)
    BY DEF SuspendCaller
  <1>2. /\ Me \in Thread /\ k.cur = Me /\ k.stat[Me] = "RUNNING"
        /\ memory[Me] = "live" /\ Me \notin ToSet(defunct)
    BY <1>1, Current
  <1> DEFINE T == IF time = "limited" THEN k.tmr \cup {Me} ELSE k.tmr \ {Me}
             o == TakeOff(k, Me, "SUSPEND")
  <1>3. k' = [o EXCEPT !.tmr = T]
    <2>1. Suspend(k, Me) = [o EXCEPT !.tmr = k.tmr \ {Me}]
      <3>1. o.tmr = k.tmr
        BY LifeTypes DEF TakeOff, RemoveThread, KernelState
      <3> QED  BY <1>2, <3>1 DEF Suspend
    <2>2. o.tmr = k.tmr /\ o = [o EXCEPT !.tmr = k.tmr]
      BY LifeTypes DEF TakeOff, RemoveThread, KernelState
    <2> HIDE DEF o
    <2>3. CASE time = "limited"
      <3>1. k' = StartTimer([o EXCEPT !.tmr = k.tmr \ {Me}], Me)
        BY <1>1, <2>1, <2>3
      <3>2. [o EXCEPT !.tmr = k.tmr \ {Me}].tmr = k.tmr \ {Me}
        BY <2>2
      <3>3. (k.tmr \ {Me}) \cup {Me} = k.tmr \cup {Me}
        OBVIOUS
      <3> QED  BY <2>3, <3>1, <3>2, <3>3 DEF StartTimer
    <2>4. CASE time # "limited"
      BY <1>1, <2>1, <2>4
    <2> QED  BY <2>3, <2>4
  <1>4. T \in SUBSET (k.tmr \cup {Me})
    OBVIOUS
  <1>5. memory' \in [Thread -> Memory] /\ defunct' \in Seq(App) /\ Distinct(defunct')
    BY <1>1, LifeTypes DEF LifeInv, Dead
  <1> HIDE DEF T, o
  <1> QED  BY <1>1, <1>2, <1>3, <1>4, <1>5, LeaveStep DEF o

\* rt_thread_exit.
LEMMA ExitStep ==
    ASSUME LifeInv, Exit
    PROVE  LifeInv'
  <1>1. Me \in App /\ At("run") /\ GoOn("exit", None) /\ k' = ExitThread(k) /\ Bury(Me)
    BY DEF Exit
  <1>2. Me \in Thread /\ k.cur = Me /\ memory[Me] = "live" /\ Me \notin ToSet(defunct)
    BY <1>1, Current
  <1> DEFINE T == k.tmr \ {Me}
  <1>3. k' = [TakeOff(k, Me, "CLOSE") EXCEPT !.tmr = T]
    <2>1. TakeOff(k, Me, "CLOSE").tmr = k.tmr
      BY LifeTypes DEF TakeOff, RemoveThread, KernelState
    <2> QED  BY <1>1, <1>2, <2>1 DEF ExitThread
  <1>4. T \in SUBSET (k.tmr \cup {Me}) /\ Me \notin T
    OBVIOUS
  <1>5. PICK z \in App : z = Me
    BY <1>1
  <1>6. /\ memory' \in [Thread -> Memory] /\ defunct' \in Seq(App) /\ Distinct(defunct')
        /\ \A x \in Thread \ {z} : /\ memory'[x] = memory[x]
                                   /\ x \in ToSet(defunct') <=> x \in ToSet(defunct)
        /\ \/ z \in ToSet(defunct') /\ memory' = memory
           \/ z \notin ToSet(defunct') /\ memory'[z] = "none" /\ z \in Static
        /\ defunct # << >> => defunct' # << >>
    BY <1>1, <1>2, <1>5, BuryEffect
  <1> HIDE DEF T
  <1> QED  BY <1>1, <1>2, <1>3, <1>4, <1>5, <1>6, LeaveStep


-----------------------------------------------------------------------------
(* Startup, resumption and creation *)

\* rt_thread_startup and rt_thread_resume up to the insertion.
LEMMA UnlinkSteps ==
    ASSUME LifeInv, NEW t \in Thread, Startup(t) \/ ResumeThread(t)
    PROVE  LifeInv'
  <1>1. k.stat[Me] = "RUNNING" /\ Me \in Thread
    <2>1. At("run")
      BY DEF Startup, ResumeThread
    <2> QED  BY <2>1, Current
  <1>2. CASE Startup(t)
    <2>1. /\ At("run") /\ memory[t] = "live" /\ k.stat[t] = "INIT" /\ Settled(t)
          /\ k' = ResumeOff([k EXCEPT !.stat[t] = "SUSPEND"], t)
          /\ GoOn("unlinked", t) /\ UNCHANGED <<memory, defunct>>
      BY <1>2 DEF Startup
    <2>2. t \in App \ {Me} /\ t \notin k.tmr
      BY <1>1, <2>1, LifeTypes DEF LifeInv, Timers, App, Active
    <2> DEFINE m == [k EXCEPT !.stat[t] = "SUSPEND"]
    <2>3. /\ m \in KernelState
          /\ m.cur = k.cur /\ m.lock = k.lock /\ m.rq = k.rq /\ m.grp = k.grp
          /\ m.prio = k.prio /\ m.tmr = k.tmr /\ m.stat[t] = "SUSPEND"
          /\ \A u \in Thread \ {t} : m.stat[u] = k.stat[u]
      BY LifeTypes DEF KernelState, Stat
    <2>4. k' = ResumeOff(m, t)
      BY <2>1
    <2>5. k.stat[t] \in {"INIT", "SUSPEND"}
      BY <2>1
    <2> HIDE DEF m
    <2> QED  BY <2>1, <2>2, <2>3, <2>4, <2>5, UnlinkStep
  <1>3. CASE ResumeThread(t)
    <2>1. /\ At("run") /\ t \in Resumable /\ k' = ResumeOff(k, t)
          /\ GoOn("unlinked", t) /\ UNCHANGED <<memory, defunct>>
      BY <1>3 DEF ResumeThread
    <2>2. /\ t \in App \ {Me} /\ memory[t] = "live" /\ Settled(t)
          /\ k.stat[t] = "SUSPEND" /\ t \notin k.tmr
      BY <2>1 DEF Resumable
    <2>3. k \in KernelState /\ \A u \in Thread \ {t} : k.stat[u] = k.stat[u]
      BY LifeTypes
    <2>4. k.stat[t] \in {"INIT", "SUSPEND"}
      BY <2>2
    <2> QED  BY <2>1, <2>2, <2>3, <2>4, UnlinkStep
  <1> QED  BY <1>2, <1>3

\* What is not created yet is closed, and nobody has to do with it.
LEMMA Unborn ==
    ASSUME LifeInv, NEW t \in App, memory[t] = "none"
    PROVE  /\ t \in Thread /\ t # Idle /\ k.stat[t] = "CLOSE" /\ t \notin ToSet(defunct)
           /\ CallOf(t) /\ DeadOf(t)
           /\ about[t] = None /\ pc[t] \notin InCall
           /\ \A u \in Thread : about[u] # t
  <1>1. /\ t \in Thread /\ t # Idle /\ k.stat[t] = "CLOSE" /\ t \notin ToSet(defunct)
        /\ CallOf(t) /\ DeadOf(t)
    <2>1. DeadOf(t) /\ CallOf(t) /\ t \in Thread /\ t # Idle
      BY LifeTypes DEF LifeInv, Dead, Calls
    <2> QED  BY <2>1 DEF DeadOf
  <1>2. about[t] = None /\ pc[t] \notin InCall
    BY <1>1 DEF CallOf, Calling, Active
  <1>3. \A u \in Thread : about[u] # t
    <2> SUFFICES ASSUME NEW u \in Thread, about[u] = t PROVE FALSE
      OBVIOUS
    <2>1. CallOf(u)
      BY DEF LifeInv, Calls
    <2>2. pc[u] \in InCall /\ Stage(u, t)
      BY <1>1, <2>1, LifeTypes DEF CallOf, Calling
    <2> QED  BY <2>2 DEF Stage, InCall
  <1> QED  BY <1>1, <1>2, <1>3

\* rt_thread_create and rt_thread_init.
LEMMA CreateStep ==
    ASSUME LifeInv, NEW t \in Thread, Create(t)
    PROVE  LifeInv'
  <1>1. /\ At("run") /\ t \in App /\ memory[t] = "none"
        /\ memory' = [memory EXCEPT ![t] = "live"]
        /\ k' = [k EXCEPT !.stat[t] = "INIT", !.prio[t] = BasePrio[t], !.err[t] = "EOK"]
        /\ pc' = [pc EXCEPT ![t] = "run"] /\ about' = [about EXCEPT ![t] = None]
        /\ defunct' = defunct
    BY DEF Create
  <1>2. /\ Me \in Thread \ Doomed /\ k.cur = Me /\ memory[Me] = "live"
        /\ k.stat[Me] = "RUNNING" /\ pc[Me] = "run"
        /\ \A u \in Thread \ Doomed : k.stat[u] = "READY" => k.prio[Me] <= k.prio[u]
    BY <1>1, Current DEF At
  <1>3. /\ t # Me /\ t # Idle /\ k.stat[t] = "CLOSE" /\ t \notin ToSet(defunct)
        /\ DeadOf(t) /\ CallOf(t)
    BY <1>1, <1>2, Unborn
  <1>4. about[t] = None /\ pc[t] \notin InCall
    BY <1>1, Unborn
  <1>5. \A u \in Thread : about[u] # t
    BY <1>1, Unborn
  <1>6. about' = about /\ pc' \in [Thread -> LifePc] /\ pc'[t] = "run"
        /\ \A u \in Thread \ {t} : pc'[u] = pc[u]
    BY <1>1, <1>4, LifeTypes DEF LifePc
  <1>7. /\ memory' \in [Thread -> Memory] /\ memory'[t] = "live"
        /\ \A u \in Thread \ {t} : memory'[u] = memory[u]
    BY <1>1, LifeTypes DEF Memory
  <1>8. /\ k' \in KernelState
        /\ k'.cur = k.cur /\ k'.lock = k.lock /\ k'.rq = k.rq /\ k'.grp = k.grp
        /\ k'.tmr = k.tmr /\ k'.stat[t] = "INIT"
        /\ \A u \in Thread \ {t} : k'.stat[u] = k.stat[u] /\ k'.prio[u] = k.prio[u]
    BY <1>1, LifeTypes, ThreadLifeAssumption DEF KernelState, Stat, Err
  <1>9. Doomed' = Doomed
    <2>1. \A u \in Thread : pc'[u] \in {"removed", "untimed", "closed"} <=>
                            pc[u] \in {"removed", "untimed", "closed"}
      BY <1>4, <1>6 DEF InCall
    <2> QED  BY <1>6, <2>1 DEF Doomed
  <1>10. SeenOK(k', Doomed)
    <2>1. PICK n \in KernelState : n = k'
      BY <1>8
    <2>2. \A u \in Thread :
             \/ /\ u \notin Doomed /\ u \notin Doomed
                /\ n.stat[u] = k.stat[u] /\ n.prio[u] = k.prio[u]
             \/ /\ u \in Doomed \/ k.stat[u] \notin Active
                /\ u \in Doomed \/ n.stat[u] \notin Active
      BY <1>3, <1>8, <2>1 DEF Active
    <2>3. /\ n.cur = k.cur /\ n.rq = k.rq /\ n.grp = k.grp /\ n.cur \notin Doomed
          /\ k \in KernelState /\ SeenOK(k, Doomed) /\ Doomed \in SUBSET Thread
      BY <1>8, <2>1, LifeTypes
    <2>4. SeenOK(n, Doomed)
      BY <2>2, <2>3, SameSeen
    <2> QED  BY <2>1, <2>4
  <1>11. LifeTypeOK' /\ LifeScheduler'
    BY <1>1, <1>3, <1>6, <1>7, <1>8, <1>9, <1>10, LifeTypes DEF LifeTypeOK, LifeScheduler
  <1>12. Me' = Me /\ k'.stat[Me] = "RUNNING" /\ pc'[Me] = "run"
    BY <1>2, <1>3, <1>6, <1>8 DEF Me
  <1>13. HasProcessor' /\ Timers'
    BY <1>3, <1>8, <1>12, LifeTypes DEF LifeInv, HasProcessor, Timers
  <1>14. PreemptionPending'
    BY <1>2, <1>3, <1>8, <1>9 DEF PreemptionPending, Me
  <1>15. Calls'
    <2> SUFFICES ASSUME NEW u \in Thread PROVE CallOf(u)'
      BY DEF Calls
    <2>1. CallOf(u)
      BY DEF LifeInv, Calls
    <2>2. CASE u = t
      BY <1>4, <1>6, <2>2 DEF CallOf, InCall
    <2>3. CASE u # t
      <3>1. pc'[u] = pc[u] /\ about'[u] = about[u] /\ k'.stat[u] = k.stat[u]
        BY <1>6, <1>8, <2>3
      <3>2. ASSUME about[u] # None PROVE Calling(u)'
        <4> DEFINE x == about[u]
        <4>1. x \in Thread \ {t} /\ Calling(u)
          BY <1>5, <2>1, <3>2 DEF CallOf, Calling, InHand, App
        <4>2. Stage(u, x)'
          BY <1>7, <1>8, <3>1, <4>1 DEF Calling, Stage
        <4>3. InHand(x)'
          BY <1>1, <1>6, <1>8, <1>12, <4>1 DEF Calling, InHand
        <4> QED  BY <1>6, <3>1, <4>1, <4>2, <4>3 DEF Calling
      <3> QED  BY <1>1, <2>1, <3>1, <3>2 DEF CallOf
    <2> QED  BY <2>2, <2>3
  <1>16. Dead'
    <2> SUFFICES ASSUME NEW u \in Thread PROVE DeadOf(u)'
      BY <1>1 DEF LifeInv, Dead
    <2>1. DeadOf(u)
      BY DEF LifeInv, Dead
    <2>2. CASE u = t
      BY <1>1, <1>3, <1>7, <1>8, <2>2 DEF DeadOf
    <2>3. CASE u # t
      BY <1>1, <1>6, <1>7, <1>8, <2>1, <2>3 DEF DeadOf, Held
    <2> QED  BY <2>2, <2>3
  <1> QED  BY <1>11, <1>13, <1>14, <1>15, <1>16 DEF LifeInv


-----------------------------------------------------------------------------
(* The idle thread takes a dead thread off the list *)

\* The cleanup function may have woken a thread.
LEMMA CleanedUpKernel ==
    ASSUME LifeInv, NEW z \in Thread, NEW j \in Resumable \cup {None},
           k' = Schedule(ExitCritical(CleanedUp(EnterCritical(k), z, j)))
    PROVE  Rescheduled
  <1> USE LifeTypes
  <1> DEFINE m == EnterCritical(k)
  <1>1. m = [k EXCEPT !.lock = 1]
    BY DEF EnterCritical
  <1>2. CASE ~ (z \in Cleanup /\ j # None)
    <2>1. ExitCritical(CleanedUp(m, z, j)) = [m EXCEPT !.lock = IF @ > 0 THEN @ - 1 ELSE 0]
      BY <1>2 DEF ExitCritical, CleanedUp
    <2> HIDE DEF m
    <2>2. m.lock = 1 /\ [m EXCEPT !.lock = 0] = k
      BY <1>1 DEF KernelState
    <2>3. ExitCritical(CleanedUp(m, z, j)) = k
      BY <2>1, <2>2
    <2> QED  BY <2>3, ScheduleStep DEF m
  <1>3. CASE z \in Cleanup /\ j # None
    <2>1. /\ j \in Thread \ Doomed /\ k.stat[j] = "SUSPEND" /\ ~ Held(j) /\ k.err[j] \in Err
      BY <1>3, ResumableFree
    <2> DEFINE e == k.err[j]
               w == Wake(k, j, e)
    <2>2. CleanedUp(m, z, j) = Wake(m, j, e)
      <3>1. m.err = k.err /\ m.stat = k.stat
        BY <1>1 DEF KernelState
      <3> HIDE DEF m
      <3>2. Resume(m, j) = Wake(m, j, k.err[j])
        BY <2>1, <3>1 DEF Resume
      <3>3. CleanedUp(m, z, j) = Resume(m, j)
        BY <1>3 DEF CleanedUp
      <3> QED  BY <3>2, <3>3
    <2>3. Wake(m, j, e) = [w EXCEPT !.lock = 1]
      <3> HIDE DEF m, e
      <3>1. [m EXCEPT !.err[j] = e, !.tmr = @ \ {j}] =
                [[k EXCEPT !.err[j] = e, !.tmr = @ \ {j}] EXCEPT !.lock = 1]
        BY <1>1 DEF KernelState
      <3> DEFINE a == [k EXCEPT !.err[j] = e, !.tmr = @ \ {j}]
      <3>2. /\ DOMAIN a = {"cur", "prio", "stat", "err", "rq", "grp", "tmr", "lock"}
            /\ a = [x \in DOMAIN a |-> a[x]]
        BY DEF KernelState
      <3> HIDE DEF a
      <3>3. InsertThread([a EXCEPT !.lock = 1], j) = [InsertThread(a, j) EXCEPT !.lock = 1]
        BY <3>2 DEF InsertThread
      <3>4. w = InsertThread(a, j)
        BY DEF Wake, a
      <3>5. Wake(m, j, e) = InsertThread([a EXCEPT !.lock = 1], j)
        BY <3>1 DEF Wake, a
      <3> QED  BY <3>3, <3>4, <3>5
    <2>4. w \in KernelState /\ w.lock = 0
      <3>1. e \in Err
        BY <2>1
      <3> HIDE DEF e
      <3>2. LET n == Wake(k, j, e)
            IN  /\ n \in KernelState
                /\ SeenOK(n, Doomed)
                /\ n.cur = k.cur /\ n.prio = k.prio /\ n.lock = k.lock
                /\ n.tmr = k.tmr \ {j}
                /\ n.stat[j] \in Active
                /\ \A u \in Thread \ {j} : n.stat[u] = k.stat[u]
        BY <2>1, <3>1, WakeSeen
      <3> QED  BY <3>2
    <2>5. ExitCritical(CleanedUp(m, z, j)) = w
      <3>1. CleanedUp(m, z, j) = [w EXCEPT !.lock = 1]
        BY <2>2, <2>3
      <3> HIDE DEF w, m
      <3>2. [[w EXCEPT !.lock = 1] EXCEPT !.lock = IF @ > 0 THEN @ - 1 ELSE 0] =
                [w EXCEPT !.lock = 0]
        <4> DEFINE n == [w EXCEPT !.lock = 1]
        <4>1. n.lock = 1 /\ [n EXCEPT !.lock = 0] = [w EXCEPT !.lock = 0]
          BY <2>4 DEF KernelState
        <4> HIDE DEF n
        <4>2. [n EXCEPT !.lock = IF @ > 0 THEN @ - 1 ELSE 0] = [n EXCEPT !.lock = 0]
          BY <4>1
        <4> QED  BY <4>1, <4>2 DEF n
      <3>3. [w EXCEPT !.lock = 0] = w
        BY <2>4 DEF KernelState
      <3> QED  BY <3>1, <3>2, <3>3 DEF ExitCritical
    <2>6. k' = Schedule(Wake(k, j, k.err[j]))
      BY <2>5
    <2> QED  BY <2>1, <2>6, WakeStep
  <1> QED  BY <1>2, <1>3


\* With interrupts disabled it takes the first dead thread, calls its cleanup
\* function, and lets a rt_schedule take effect.
LEMMA TakeStep ==
    ASSUME LifeInv, IdleTake
    PROVE  LifeInv'
  <1> USE LifeTypes
  <1> DEFINE hd == Head(defunct)
  <1>1. /\ pc[Me] = "reap" /\ defunct' = Tail(defunct)
        /\ \E j \in Resumable \cup {None} :
              k' = Schedule(ExitCritical(CleanedUp(EnterCritical(k), hd, j)))
        /\ \/ hd \in Static /\ memory' = [memory EXCEPT ![hd] = "none"] /\ GoOn("run", None)
           \/ hd \notin Static /\ GoOn("stack", hd) /\ memory' = memory
    BY DEF IdleTake, At
  <1>2. Me = Idle /\ Me \in Thread /\ defunct # << >> /\ about[Me] = None
        /\ \A v \in Thread : about[v] # Me
    BY <1>1, Current DEF CallOf, InCall
  <1>3. Distinct(defunct)
    BY DEF LifeInv, Dead
  <1>4. /\ hd \in App /\ hd \in ToSet(defunct) /\ defunct' \in Seq(App)
        /\ ToSet(defunct') = ToSet(defunct) \ {hd} /\ Distinct(defunct')
    BY <1>1, <1>2, <1>3, HeadTailList
  <1>5. PICK z \in App : z = hd
    BY <1>4
  <1>6. PICK l \in {"run", "stack"}, t \in {None, z} :
           /\ GoOn(l, t) /\ (t = None <=> l = "run")
           /\ memory' \in [Thread -> Memory]
           /\ \A x \in Thread \ {z} : memory'[x] = memory[x]
           /\ l = "run" => memory'[z] = "none"
           /\ l = "stack" => memory' = memory
    <2>1. CASE hd \in Static
      BY <1>1, <1>5, <2>1 DEF Memory
    <2>2. CASE hd \notin Static
      BY <1>1, <1>5, <2>2
    <2> QED  BY <2>1, <2>2
  <1>7. /\ z \in Thread /\ z # Me /\ k.stat[z] = "CLOSE" /\ memory[z] = "live"
        /\ ~ Held(z) /\ Mine(z) /\ z \notin Doomed
    <2>1. z \in Thread /\ k.stat[z] = "CLOSE" /\ memory[z] = "live"
      BY <1>4, <1>5 DEF LifeInv, Dead, DeadOf
    <2>2. ~ Held(z)
      BY <1>4, <1>5 DEF LifeInv, Calls, CallOf, Calling, InHand, Held
    <2>3. about[z] = None
      BY <2>1 DEF LifeInv, Calls, CallOf, Calling, Active
    <2> QED  BY <1>2, <1>5, <2>1, <2>2, <2>3, DoomedHeld DEF Mine, Held
  <1>8. Rescheduled
    BY <1>1, <1>5, <1>7, CleanedUpKernel
  <1> HIDE DEF hd
  <1>9. l \in LifePc /\ l \notin Deletion /\ (l = "stack" <=> l \in InCall) /\ about[Me] \in {None, z}
    BY <1>2 DEF LifePc, Deletion, InCall
  <1>10. /\ \A x \in Thread \ {z} : Held(x)' <=> Held(x)
         /\ Held(z)' <=> t = z
         /\ about'[Me] = t /\ pc'[Me] = l
         /\ \A u \in Thread \ {Me} : about'[u] = about[u] /\ pc'[u] = pc[u]
         /\ pc' \in [Thread -> LifePc] /\ about' \in [Thread -> Thread \cup {None}]
    BY <1>6, <1>7, <1>9, HandsAfter
  <1>a. /\ about'[Idle] = t /\ pc'[Idle] = l
        /\ \A u \in Thread \ {Idle} : about'[u] = about[u] /\ pc'[u] = pc[u]
    BY <1>2, <1>10
  <1>11. Doomed' = Doomed
    <2>1. Doomed' = Doomed \ {z}
      BY <1>6, <1>7, <1>9, DoomedAfter DEF Deletion
    <2> QED  BY <1>7, <2>1
  <1>12. LifeTypeOK'
    BY <1>4, <1>6, <1>8, <1>10 DEF LifeTypeOK, Rescheduled
  <1>13. LifeScheduler' /\ HasProcessor' /\ PreemptionPending'
    BY <1>8, <1>11 DEF LifeScheduler, HasProcessor, PreemptionPending, Rescheduled, Me
  <1>14. Timers'
    BY <1>8 DEF LifeInv, Timers, Rescheduled, Active
  <1>15. \A x \in Thread : k'.stat[x] = "CLOSE" <=> k.stat[x] = "CLOSE"
    BY <1>8 DEF Rescheduled, Active
  <1>16. ASSUME NEW u \in Thread \ {Idle} PROVE CallOf(u)'
    <2>1. CallOf(u) /\ u # Idle
      BY <1>2 DEF LifeInv, Calls
    <2>2. pc'[u] = pc[u] /\ about'[u] = about[u]
      BY <1>a
    <2>3. ASSUME about[u] # None PROVE Calling(u)'
      <3>1. PICK x \in Thread : x = about[u]
        BY <2>3
      <3>2. Calling(u) /\ x # z /\ x # Me
        BY <1>2, <1>7, <2>1, <2>3, <3>1 DEF CallOf, Held
      <3>3. x \notin ToSet(defunct') /\ about'[x] = None /\ memory'[x] = memory[x]
        BY <1>4, <1>6, <1>10, <3>1, <3>2 DEF Calling, InHand
      <3>4. \A v \in Thread : about'[v] = x => v = u
        BY <1>10, <3>1, <3>2 DEF Calling
      <3> QED  BY <1>8, <2>2, <3>1, <3>3, <3>4, SwitchedCall
    <2> QED  BY <1>15, <2>1, <2>2, <2>3 DEF CallOf
  <1>17. CallOf(Idle)'
    <2>1. CASE l = "run"
      BY <1>6, <1>9, <1>a, <2>1 DEF CallOf
    <2>2. CASE l = "stack"
      <3>1. t = z /\ z # None /\ memory' = memory
        BY <1>6, <1>7, <2>2
      <3>2. k'.stat[Idle] \in Active
        BY <1>2, <1>8 DEF Rescheduled
      <3>3. k'.cur # z
        BY <1>7, <1>8, <1>15 DEF Rescheduled
      <3>4. InHand(z)'
        <4>1. z \notin k'.tmr
          BY <1>7, <1>8 DEF LifeInv, Timers, Rescheduled
        <4>2. about'[z] = None
          BY <1>7, <1>10 DEF Mine
        <4> QED  BY <1>4, <1>5, <3>3, <4>1, <4>2 DEF InHand, Me
      <3>5. \A v \in Thread : about'[v] = z => v = Idle
        BY <1>2, <1>7, <1>10 DEF Mine
      <3>6. Stage(Idle, z)'
        BY <1>7, <1>a, <1>15, <2>2, <3>1 DEF Stage
      <3> QED  BY <1>9, <1>a, <2>2, <3>1, <3>2, <3>4, <3>5, <3>6 DEF CallOf, Calling
    <2> QED  BY <2>1, <2>2
  <1>18. Calls'
    BY <1>16, <1>17 DEF Calls
  <1>19. ASSUME NEW x \in Thread PROVE DeadOf(x)'
    <2>1. DeadOf(x)
      BY DEF LifeInv, Dead
    <2>2. CASE x = z
      BY <1>4, <1>5, <1>6, <1>7, <1>10, <1>15, <2>2 DEF DeadOf
    <2>3. CASE x # z
      BY <1>4, <1>5, <1>6, <1>10, <1>15, <2>1, <2>3 DEF DeadOf
    <2> QED  BY <2>2, <2>3
  <1> QED  BY <1>4, <1>12, <1>13, <1>14, <1>18, <1>19 DEF LifeInv, Dead


-----------------------------------------------------------------------------
(* The theorems *)

\* Every step keeps the invariant, provided that no thread is deleted while its
\* timer runs.
LEMMA LifeInvNext ==
    ASSUME DeleteAsleep = FALSE, LifeInv, [LifeNext]_lifeVars
    PROVE  LifeInv'
  <1>1. ASSUME NEW t \in Thread, Create(t) PROVE LifeInv'
    BY <1>1, CreateStep
  <1>2. ASSUME NEW t \in Thread, Startup(t) \/ ResumeThread(t) PROVE LifeInv'
    BY <1>2, UnlinkSteps
  <1>3. ASSUME NEW t \in Thread, DeleteRemove(t) PROVE LifeInv'
    BY <1>3, RemoveStep
  <1>4. ASSUME NEW t \in Thread, TickTimeout(t) \/ IsrResume(t) PROVE LifeInv'
    BY <1>4, InterruptStep
  <1>5. ASSUME NEW time \in Wait, SuspendCaller(time) PROVE LifeInv'
    BY <1>5, SuspendStep
  <1>6. CASE ResumeInsertion
    BY <1>6, InsertStep
  <1>7. CASE CallSchedule \/ LastSchedule
    BY <1>7, ScheduleCallStep
  <1>8. CASE Exit
    BY <1>8, ExitStep
  <1>9. CASE DeleteTimer \/ DeleteClose
    BY <1>9, DeletionSteps
  <1>10. CASE DeleteBury
    BY <1>10, BuryStep
  <1>11. CASE IdleLook \/ FreeStack \/ FreeObject
    BY <1>11, IdleSteps
  <1>12. CASE IdleTake
    BY <1>12, TakeStep
  <1>13. CASE TickYield
    BY <1>13, KernelAssumption, InterruptStep
  <1>14. CASE UNCHANGED lifeVars
    BY <1>14 DEF lifeVars, LifeInv, LifeTypeOK, LifeScheduler, HasProcessor, Calls, CallOf, Calling,
       InHand, Stage, Timers, Dead, DeadOf, Held, PreemptionPending, Doomed, Me, At
  <1> QED
    BY <1>1, <1>2, <1>3, <1>4, <1>5, <1>6, <1>7, <1>8, <1>9, <1>10, <1>11, <1>12, <1>13,
       <1>14
    DEF LifeNext, IdleStep

\* The inductive invariant of the life of threads.
THEOREM LifeInvariant ==
    ASSUME DeleteAsleep = FALSE
    PROVE  LifeSpec => []LifeInv
  <1>1. LifeInv /\ [LifeNext]_lifeVars => LifeInv'
    BY LifeInvNext
  <1> QED  BY <1>1, LifeInvInit, PTL DEF LifeSpec

\* What the scheduler sees and what is in the thread control blocks differ in
\* the threads under deletion only, and those are not RUNNING.
LEMMA LifeInvConsistent == LifeInv => LifeConsistent
  <1> SUFFICES ASSUME LifeInv PROVE LifeConsistent
    OBVIOUS
  <1> USE LifeTypes
  <1> DEFINE v == Seen(k, Doomed)
  <1>1. /\ v.cur = k.cur /\ v.prio = k.prio /\ v.rq = k.rq /\ v.grp = k.grp
        /\ v.stat = [t \in Thread |-> IF t \in Doomed THEN "CLOSE" ELSE k.stat[t]]
    BY SeenFields
  <1>2. KernelOK(v)
    BY DEF SeenOK
  <1> HIDE DEF v
  <1>3. \A p \in Prio, t \in Thread :
           t \in ToSet(k.rq[p]) <=> k.stat[t] = "READY" /\ k.prio[t] = p /\ t \notin Doomed
    BY <1>1, <1>2 DEF KernelOK, ReadyListed
  <1>4. ReadyDistinct(k) /\ GroupExact(k)
    BY <1>1, <1>2 DEF KernelOK, ReadyDistinct, GroupExact
  <1>5. ASSUME NEW t \in Doomed PROVE k.stat[t] # "RUNNING"
    <2>1. PICK u \in Thread : pc[u] \in {"removed", "untimed", "closed"} /\ about[u] = t
      BY DEF Doomed
    <2>2. Stage(u, t)
      BY <2>1 DEF LifeInv, Calls, CallOf, Calling, InCall
    <2> QED  BY <2>1, <2>2 DEF Stage
  <1>6. OneRunning(k)
    BY <1>1, <1>2, <1>5 DEF KernelOK, OneRunning
  <1> QED  BY <1>3, <1>4, <1>6 DEF LifeConsistent, ReadyOrDoomed, LifeInv

\* The ready lists and the bitmap agree with the thread states except for the
\* threads that rt_thread_delete has in hand, and no thread that outranks the
\* running one waits but for a rt_schedule that is due.
THEOREM ThreadLifeConsistent ==
    ASSUME DeleteAsleep = FALSE
    PROVE  LifeSpec => []LifeConsistent
  BY LifeInvariant, LifeInvConsistent, PTL

\* Nobody but one thread has a closed thread in hand.
LEMMA LifeAccounted == LifeInv => DeadAccounted
  <1> SUFFICES ASSUME LifeInv PROVE DeadAccounted
    OBVIOUS
  <1> USE LifeTypes
  <1>1. Distinct(defunct)
    BY DEF LifeInv, Dead
  <1>2. ASSUME NEW t \in App
        PROVE  LET hands == {u \in Thread : about[u] = t /\ pc[u] \in {"closed", "stack", "object"}}
               IN  /\ memory[t] # "none" /\ k.stat[t] = "CLOSE" =>
                        Cardinality(hands) + (IF t \in ToSet(defunct) THEN 1 ELSE 0) = 1
                   /\ t \in ToSet(defunct) => k.stat[t] = "CLOSE" /\ memory[t] = "live"
    <2> DEFINE hands == {u \in Thread : about[u] = t /\ pc[u] \in {"closed", "stack", "object"}}
    <2>1. DeadOf(t) /\ t \in Thread
      BY DEF LifeInv, Dead
    <2>2. CASE t \in ToSet(defunct)
      <3>1. \A u \in Thread : about[u] # t
        BY <2>2 DEF LifeInv, Calls, CallOf, Calling, InHand
      <3>2. hands = {}
        BY <3>1
      <3> HIDE DEF hands
      <3>3. Cardinality(hands) = 0
        BY <3>2, FS_EmptySet
      <3>4. Cardinality(hands) + (IF t \in ToSet(defunct) THEN 1 ELSE 0) = 1
        BY <2>2, <3>3
      <3> QED  BY <2>1, <3>4 DEF DeadOf, hands
    <2>3. CASE t \notin ToSet(defunct) /\ memory[t] # "none" /\ k.stat[t] = "CLOSE"
      <3>1. Held(t)
        BY <2>1, <2>3 DEF DeadOf, Memory
      <3>2. PICK u \in Thread : about[u] = t
        BY <3>1 DEF Held
      <3>3. /\ pc[u] \in InCall /\ Stage(u, t)
            /\ \A w \in Thread : about[w] = t => w = u
        BY <3>2 DEF LifeInv, Calls, CallOf, Calling
      <3>4. pc[u] \in {"closed", "stack", "object"}
        BY <2>3, <3>3 DEF Stage, InCall
      <3>5. hands = {u}
        BY <3>2, <3>3, <3>4
      <3> HIDE DEF hands
      <3>6. Cardinality(hands) = 1
        BY <3>5, FS_Singleton
      <3>7. Cardinality(hands) + (IF t \in ToSet(defunct) THEN 1 ELSE 0) = 1
        BY <2>3, <3>6
      <3> QED  BY <2>3, <3>7 DEF hands
    <2>4. CASE t \notin ToSet(defunct) /\ ~ (memory[t] # "none" /\ k.stat[t] = "CLOSE")
      BY <2>4
    <2> QED  BY <2>2, <2>3, <2>4
  <1> QED  BY <1>1, <1>2 DEF DeadAccounted

\* A closed thread that still has its memory is on the list of the dead once, or
\* in the hands of one thread: rt_thread_delete, rt_thread_exit and the idle
\* thread lose none and give none back twice.
THEOREM DeadAreAccounted ==
    ASSUME DeleteAsleep = FALSE
    PROVE  LifeSpec => []DeadAccounted
  BY LifeInvariant, LifeAccounted, PTL


\* And none of them is on a ready list, as the comment of rt_thread_delete says:
\* what the race of a deletion with the thread's timer breaks.
THEOREM ClosedAreOffQueues ==
    ASSUME DeleteAsleep = FALSE
    PROVE  LifeSpec => []ClosedOffQueues
  <1>1. LifeInv => ClosedOffQueues
    BY LifeInvConsistent DEF LifeConsistent, ReadyOrDoomed, ClosedOffQueues
  <1> QED  BY <1>1, LifeInvariant, PTL

-----------------------------------------------------------------------------
(* The refinement of module Lifecycle *)

\* Threads whose phase a step keeps.
Steady(S) == \A u \in S : Phase(u)' = Phase(u)

\* The processor stays where it is or goes to a thread that is alive.
Runs == \E r \in Thread : r = k'.cur /\ (r = k.cur \/ Phase(r)' = "alive")

\* What keeps a phase.
LEMMA PhaseSame ==
    ASSUME NEW u \in Thread, memory'[u] = memory[u],
           \/ k'.stat[u] = k.stat[u]
           \/ {k'.stat[u], k.stat[u]} \cap {"CLOSE", "INIT"} = {},
           u \in Doomed' <=> u \in Doomed
    PROVE  Phase(u)' = Phase(u)
  BY DEF Phase

\* A step that keeps all of them.
LEMMA StutterOf ==
    ASSUME Steady(Thread), Runs
    PROVE  Promise!Next
  <1> DEFINE ph == [t \in Thread |-> Phase(t)]
  <1>1. ph' = ph
    BY DEF Steady
  <1>2. k'.cur \in Thread /\ (k'.cur = k.cur \/ ph'[k'.cur] = "alive")
    BY DEF Runs
  <1> QED  BY <1>1, <1>2 DEF Promise!Next, Promise!Dispatch

\* A step in the life of one thread.
LEMMA StepOf ==
    ASSUME NEW z \in Thread, Steady(Thread \ {z}), Runs,
           \/ z # k.cur /\ Phase(z) = "none" /\ Phase(z)' = "born"
           \/ Phase(z) = "born" /\ Phase(z)' = "alive"
           \/ z # Idle /\ Phase(z) \in {"born", "alive"} /\ Phase(z)' = "dead"
           \/ (z \in Static \/ k.cur # z) /\ Phase(z) = "dead" /\ Phase(z)' = "none"
           \/ z \in Static /\ Phase(z) = "alive" /\ Phase(z)' = "none"
    PROVE  Promise!Next
  <1> DEFINE ph == [t \in Thread |-> Phase(t)]
  <1>1. /\ ph[z] = Phase(z) /\ ph'[z] = Phase(z)'
        /\ ph \in [Thread -> {Phase(t) : t \in Thread}]
        /\ ph' = [t \in Thread |-> Phase(t)']
        /\ \A u \in Thread \ {z} : ph'[u] = ph[u]
    BY DEF Steady
  <1>2. k'.cur \in Thread /\ (k'.cur = k.cur \/ ph'[k'.cur] = "alive")
    BY DEF Runs
  <1>3. ph' = [ph EXCEPT ![z] = Phase(z)']
    <2> DEFINE q == [ph EXCEPT ![z] = Phase(z)']
    <2>1. DOMAIN q = Thread /\ DOMAIN ph' = Thread
      OBVIOUS
    <2>2. ASSUME NEW u \in Thread PROVE ph'[u] = q[u]
      <3>1. CASE u = z
        BY <3>1
      <3>2. CASE u # z
        BY <1>1, <3>2
      <3> QED  BY <3>1, <3>2
    <2> QED  BY <2>1, <2>2
  <1>4. \/ Promise!Create(z) \/ Promise!Start(z) \/ Promise!Die(z)
        \/ Promise!GiveBack(z) \/ Promise!DieAndGiveBack(z)
    BY <1>1, <1>3
    DEF Promise!Create, Promise!Start, Promise!Die, Promise!GiveBack, Promise!DieAndGiveBack,
        Promise!Become
  <1> QED  BY <1>2, <1>4 DEF Promise!Next, Promise!Dispatch

\* At the beginning.
LEMMA LifecycleInit == LifeInit => Promise!Init
  <1> SUFFICES ASSUME LifeInit PROVE Promise!Init
    OBVIOUS
  <1>1. /\ k.cur = Idle
        /\ k.stat = [t \in Thread |-> IF t = Idle THEN "RUNNING" ELSE "CLOSE"]
        /\ memory = [t \in Thread |-> IF t = Idle THEN "live" ELSE "none"]
        /\ pc = [t \in Thread |-> "run"]
    BY DEF LifeInit
  <1>2. Doomed = {}
    BY <1>1 DEF Doomed
  <1>3. \A t \in Thread : Phase(t) = IF t = Idle THEN "alive" ELSE "none"
    BY <1>1, <1>2 DEF Phase
  <1> QED  BY <1>1, <1>3 DEF Promise!Init

\* The processor keeps its thread.
LEMMA RunsOn ==
    ASSUME LifeInv, k'.cur = k.cur
    PROVE  Runs
  BY LifeTypes DEF Runs

\* A thread that is RUNNING is alive.
LEMMA RunningAlive ==
    ASSUME LifeInv, NEW r \in Thread, k.stat[r] = "RUNNING", r \notin Doomed
    PROVE  Phase(r) = "alive"
  <1>1. DeadOf(r) /\ memory[r] \in {"none", "live", "stackless"}
    BY LifeTypes DEF LifeInv, Dead, Memory
  <1> QED  BY <1>1 DEF Phase, DeadOf

\* A rt_schedule keeps the phases, and switches to a thread that is alive.
LEMMA SwitchPhase ==
    ASSUME LifeInv, LifeInv', Rescheduled, Doomed' = Doomed
    PROVE  /\ Runs
           /\ \A u \in Thread : memory'[u] = memory[u] => Phase(u)' = Phase(u)
  <1>1. Runs
    <2>1. PICK r \in Thread : r = k'.cur
      BY DEF Rescheduled, KernelState
    <2>2. k'.stat[r] = "RUNNING" /\ r \notin Doomed'
      BY <2>1 DEF Rescheduled, SeenOK
    <2>3. Phase(r)' = "alive"
      <3>1. DeadOf(r)' /\ memory'[r] \in {"none", "live", "stackless"}
        BY DEF LifeInv, LifeTypeOK, Dead, Memory
      <3> QED  BY <2>2, <3>1 DEF Phase, DeadOf
    <2> QED  BY <2>1, <2>3 DEF Runs
  <1>2. ASSUME NEW u \in Thread, memory'[u] = memory[u] PROVE Phase(u)' = Phase(u)
    <2>1. \/ k'.stat[u] = k.stat[u]
          \/ {k'.stat[u], k.stat[u]} \cap {"CLOSE", "INIT"} = {}
      BY DEF Rescheduled, Active
    <2> QED  BY <1>2, <2>1, PhaseSame
  <1> QED  BY <1>1, <1>2


\* Creation.
LEMMA CreatePhase ==
    ASSUME LifeInv, LifeInv', NEW t \in Thread, Create(t)
    PROVE  Promise!Next
  <1>1. /\ At("run") /\ t \in App /\ memory[t] = "none"
        /\ memory' = [memory EXCEPT ![t] = "live"]
        /\ k' = [k EXCEPT !.stat[t] = "INIT", !.prio[t] = BasePrio[t], !.err[t] = "EOK"]
        /\ pc' = [pc EXCEPT ![t] = "run"] /\ about' = [about EXCEPT ![t] = None]
    BY DEF Create
  <1>2. about[t] = None /\ pc[t] \notin InCall /\ \A u \in Thread : about[u] # t
    BY <1>1, Unborn
  <1>3. /\ memory'[t] = "live" /\ \A u \in Thread \ {t} : memory'[u] = memory[u]
        /\ about' = about /\ \A u \in Thread \ {t} : pc'[u] = pc[u]
        /\ pc'[t] = "run"
    BY <1>1, <1>2, LifeTypes
  <1>4. /\ k'.cur = k.cur /\ k'.stat[t] = "INIT"
        /\ \A u \in Thread \ {t} : k'.stat[u] = k.stat[u]
    BY <1>1, LifeTypes DEF KernelState
  <1>5. Doomed' = Doomed /\ t \notin Doomed
    <2>1. \A u \in Thread : pc'[u] \in {"removed", "untimed", "closed"} <=>
                            pc[u] \in {"removed", "untimed", "closed"}
      BY <1>2, <1>3 DEF InCall
    <2> QED  BY <1>2, <1>3, <2>1 DEF Doomed
  <1>6. Steady(Thread \ {t})
    BY <1>3, <1>4, <1>5, PhaseSame DEF Steady
  <1>7. Phase(t) = "none" /\ Phase(t)' = "born"
    BY <1>1, <1>3, <1>4, <1>5 DEF Phase
  <1>8. t # k.cur
    BY <1>1, Current DEF Me
  <1> QED  BY <1>4, <1>6, <1>7, <1>8, RunsOn, StepOf

\* Startup and resumption up to the insertion.
LEMMA UnlinkPhase ==
    ASSUME LifeInv, NEW t \in Thread, Startup(t) \/ ResumeThread(t)
    PROVE  Promise!Next
  <1>1. At("run") /\ memory[t] = "live" /\ Settled(t) /\ GoOn("unlinked", t) /\ memory' = memory
    BY DEF Startup, ResumeThread, Resumable
  <1>2. about[Me] = None /\ Mine(t) /\ t \notin Doomed
    <2>1. ~ Held(t)
      BY <1>1 DEF Settled, Held
    <2> QED  BY <1>1, <2>1, Current, DoomedHeld DEF Settled, Mine
  <1>3. Doomed' = Doomed
    <2>1. "unlinked" \in LifePc /\ "unlinked" \in InCall /\ t # None /\ t \in {None, t}
          /\ about[Me] \in {None, t}
      BY <1>2, LifeTypes DEF LifePc, InCall
    <2>2. Doomed' = Doomed \ {t}
      BY <1>1, <1>2, <2>1, DoomedAfter
    <2> QED  BY <1>2, <2>2
  <1>4. CASE Startup(t)
    <2>1. k' = ResumeOff([k EXCEPT !.stat[t] = "SUSPEND"], t) /\ k.stat[t] = "INIT"
      BY <1>4 DEF Startup
    <2>2. k'.cur = k.cur /\ k'.stat = [k.stat EXCEPT ![t] = "SUSPEND"]
      BY <2>1, LifeTypes DEF ResumeOff, KernelState
    <2>3. k'.stat[t] = "SUSPEND" /\ \A u \in Thread \ {t} : k'.stat[u] = k.stat[u]
      BY <2>2, LifeTypes
    <2>4. Steady(Thread \ {t})
      BY <1>1, <1>3, <2>3, PhaseSame DEF Steady
    <2>5. Phase(t) = "born" /\ Phase(t)' = "alive"
      BY <1>1, <1>2, <1>3, <2>1, <2>3 DEF Phase
    <2> QED  BY <2>2, <2>4, <2>5, RunsOn, StepOf
  <1>5. CASE ResumeThread(t)
    <2>1. k'.cur = k.cur /\ k'.stat = k.stat
      BY <1>5, LifeTypes DEF ResumeThread, ResumeOff, KernelState
    <2>2. Steady(Thread)
      BY <1>1, <1>3, <2>1, PhaseSame DEF Steady
    <2> QED  BY <2>1, <2>2, RunsOn, StutterOf
  <1> QED  BY <1>4, <1>5

\* A thread suspends itself.
LEMMA SuspendPhase ==
    ASSUME LifeInv, NEW time \in Wait, SuspendCaller(time)
    PROVE  Promise!Next
  <1>1. /\ At("run") /\ GoOn("pend", None) /\ memory' = memory
        /\ k' = IF time = "limited" THEN StartTimer(Suspend(k, Me), Me) ELSE Suspend(k, Me)
    BY DEF SuspendCaller
  <1>2. Me \in Thread \ Doomed /\ k.stat[Me] = "RUNNING" /\ about[Me] = None /\ Mine(Me)
    BY <1>1, Current
  <1>3. Doomed' = Doomed
    <2>1. "pend" \in LifePc /\ "pend" \notin InCall /\ "pend" \notin {"removed", "untimed", "closed"}
          /\ None \in {None, Me} /\ about[Me] \in {None, Me} /\ Me \in Thread
      BY <1>2 DEF LifePc, InCall
    <2>2. Doomed' = Doomed \ {Me}
      BY <1>1, <1>2, <2>1, DoomedAfter
    <2> QED  BY <1>2, <2>2
  <1>4. k'.cur = k.cur /\ k'.stat = [k.stat EXCEPT ![Me] = "SUSPEND"]
    <2> DEFINE n == Suspend(k, Me)
    <2>1. n.cur = k.cur /\ n.stat = [k.stat EXCEPT ![Me] = "SUSPEND"]
          /\ n = [x \in DOMAIN n |-> n[x]]
          /\ DOMAIN n = {"cur", "prio", "stat", "err", "rq", "grp", "tmr", "lock"}
      BY <1>2, LifeTypes DEF Suspend, TakeOff, RemoveThread, KernelState
    <2> HIDE DEF n
    <2>2. StartTimer(n, Me).cur = n.cur /\ StartTimer(n, Me).stat = n.stat
      BY <2>1 DEF StartTimer
    <2> QED  BY <1>1, <2>1, <2>2 DEF n
  <1>5. \A u \in Thread : \/ k'.stat[u] = k.stat[u]
                          \/ {k'.stat[u], k.stat[u]} \cap {"CLOSE", "INIT"} = {}
    BY <1>2, <1>4, LifeTypes
  <1>6. Steady(Thread)
    BY <1>1, <1>3, <1>5, PhaseSame DEF Steady
  <1> QED  BY <1>4, <1>6, RunsOn, StutterOf

\* The insertion of a resumed thread.
LEMMA InsertPhase ==
    ASSUME LifeInv, ResumeInsertion
    PROVE  Promise!Next
  <1>1. /\ pc[Me] = "unlinked" /\ GoOn("pend", None) /\ memory' = memory
        /\ k' = InsertThread(k, about[Me])
    BY DEF ResumeInsertion, At
  <1>2. PICK z \in Thread \cup {None} : z = about[Me]
    BY LifeTypes DEF Me
  <1>3. z \in Thread \ {Me} /\ Mine(z) /\ k.stat[z] = "SUSPEND"
    BY <1>1, <1>2, InCallOf DEF InCall, Stage
  <1>4. Doomed' = Doomed
    <2>1. "pend" \in LifePc /\ "pend" \notin InCall /\ "pend" \notin {"removed", "untimed", "closed"}
          /\ None \in {None, z} /\ about[Me] \in {None, z} /\ z \in Thread
      BY <1>2, <1>3 DEF LifePc, InCall
    <2>2. Doomed' = Doomed \ {z}
      BY <1>1, <1>3, <2>1, DoomedAfter
    <2>3. z \notin Doomed
      BY <1>1, <1>3 DEF Doomed, Mine
    <2> QED  BY <2>2, <2>3
  <1>5. k'.cur = k.cur /\ k'.stat = [k.stat EXCEPT ![z] = "READY"]
    <2>1. k' = InsertThread(k, z) /\ z # k.cur
      BY <1>1, <1>2, <1>3 DEF Me
    <2> QED  BY <2>1, LifeTypes DEF InsertThread, KernelState
  <1>6. \A u \in Thread : \/ k'.stat[u] = k.stat[u]
                          \/ {k'.stat[u], k.stat[u]} \cap {"CLOSE", "INIT"} = {}
    BY <1>3, <1>5, LifeTypes
  <1>7. Steady(Thread)
    BY <1>1, <1>4, <1>6, PhaseSame DEF Steady
  <1> QED  BY <1>5, <1>7, RunsOn, StutterOf

\* A rt_schedule, with or without a wake-up.
LEMMA SchedulePhase ==
    ASSUME LifeInv, LifeInv', NEW t \in Thread,
           CallSchedule \/ LastSchedule \/ TickYield \/ TickTimeout(t) \/ IsrResume(t)
    PROVE  Promise!Next
  <1>1. memory' = memory
    BY DEF CallSchedule, LastSchedule, TickYield, TickTimeout, IsrResume
  <1>2. Doomed' = Doomed
    <2>1. CASE CallSchedule
      <3>1. pc[Me] = "pend" /\ GoOn("run", None) /\ Me \in Thread \ Doomed
        BY <2>1, Current DEF CallSchedule, At
      <3>2. /\ pc'[Me] = "run" /\ \A u \in Thread \ {Me} : pc'[u] = pc[u] /\ about'[u] = about[u]
        BY <3>1, LifeTypes DEF GoOn
      <3> QED  BY <3>1, <3>2 DEF Doomed
    <2>2. CASE LastSchedule \/ TickYield \/ TickTimeout(t) \/ IsrResume(t)
      BY <2>2 DEF LastSchedule, TickYield, TickTimeout, IsrResume, Doomed
    <2> QED  BY <2>1, <2>2
  <1>3. Rescheduled
    <2>1. CASE CallSchedule \/ LastSchedule \/ TickYield
      BY <2>1, ScheduleStep DEF CallSchedule, LastSchedule, TickYield
    <2>2. CASE TickTimeout(t)
      BY <2>2, TimeoutKernel
    <2>3. CASE IsrResume(t)
      <3>1. t \in Resumable /\ k' = Schedule(Resume(k, t))
        BY <2>3 DEF IsrResume
      <3> QED  BY <3>1, ResumableFree, WakeStep
    <2> QED  BY <2>1, <2>2, <2>3
  <1>4. Runs /\ Steady(Thread)
    BY <1>1, <1>2, <1>3, SwitchPhase DEF Steady
  <1> QED  BY <1>4, StutterOf


\* The end of a thread.
LEMMA ExitPhase ==
    ASSUME LifeInv, Exit
    PROVE  Promise!Next
  <1>1. Me \in App /\ At("run") /\ GoOn("exit", None) /\ k' = ExitThread(k) /\ Bury(Me)
    BY DEF Exit
  <1>2. /\ Me \in Thread \ Doomed /\ k.stat[Me] = "RUNNING" /\ about[Me] = None /\ Mine(Me)
        /\ memory[Me] = "live" /\ Me \notin ToSet(defunct) /\ Me # Idle
    BY <1>1, Current, LifeTypes
  <1>3. Doomed' = Doomed
    <2>1. "exit" \in LifePc /\ "exit" \notin InCall /\ "exit" \notin {"removed", "untimed", "closed"}
          /\ None \in {None, Me} /\ about[Me] \in {None, Me} /\ Me \in Thread
      BY <1>2 DEF LifePc, InCall
    <2>2. Doomed' = Doomed \ {Me}
      BY <1>1, <1>2, <2>1, DoomedAfter
    <2> QED  BY <1>2, <2>2
  <1>4. k'.cur = k.cur /\ k'.stat = [k.stat EXCEPT ![Me] = "CLOSE"]
    <2> DEFINE o == TakeOff(k, Me, "CLOSE")
    <2>1. o.cur = k.cur /\ o.stat = [k.stat EXCEPT ![Me] = "CLOSE"]
          /\ DOMAIN o = {"cur", "prio", "stat", "err", "rq", "grp", "tmr", "lock"}
      BY <1>2, LifeTypes DEF TakeOff, RemoveThread, KernelState
    <2> HIDE DEF o
    <2>2. [o EXCEPT !.tmr = @ \ {Me}].cur = o.cur /\ [o EXCEPT !.tmr = @ \ {Me}].stat = o.stat
      BY <2>1
    <2>3. k' = [o EXCEPT !.tmr = @ \ {Me}]
      BY <1>1 DEF ExitThread, Me, o
    <2> QED  BY <2>1, <2>2, <2>3
  <1>5. PICK z \in App : z = Me
    BY <1>1
  <1>6. /\ \A x \in Thread \ {z} : memory'[x] = memory[x]
        /\ memory' = memory \/ (memory'[z] = "none" /\ z \in Static)
    BY <1>1, <1>2, <1>5, BuryEffect
  <1>7. k'.stat[z] = "CLOSE" /\ \A u \in Thread \ {z} : k'.stat[u] = k.stat[u]
    BY <1>2, <1>4, <1>5, LifeTypes
  <1>8. Steady(Thread \ {z})
    BY <1>3, <1>6, <1>7, PhaseSame DEF Steady
  <1>9. Phase(z) = "alive"
    BY <1>2, <1>5 DEF Phase
  <1>10. Phase(z)' = "dead" \/ (Phase(z)' = "none" /\ z \in Static)
    BY <1>2, <1>5, <1>6, <1>7 DEF Phase
  <1> QED  BY <1>2, <1>4, <1>5, <1>8, <1>9, <1>10, RunsOn, StepOf

\* The first part of a deletion, with which a thread dies.
LEMMA RemovePhase ==
    ASSUME LifeInv, NEW t \in Thread, DeleteRemove(t)
    PROVE  Promise!Next
  <1>1. /\ At("run") /\ GoOn("removed", t) /\ memory' = memory
        /\ t \in App \ {Me} /\ memory[t] = "live" /\ Settled(t) /\ k.stat[t] # "CLOSE"
        /\ k' = IF k.stat[t] = "INIT" THEN k ELSE RemoveThread(k, t)
    BY DEF DeleteRemove, Deletable
  <1>2. about[Me] = None /\ Mine(t) /\ t \notin Doomed /\ t # Idle
    <2>1. ~ Held(t)
      BY <1>1 DEF Settled, Held
    <2> QED  BY <1>1, <2>1, Current, DoomedHeld, LifeTypes DEF Settled, Mine
  <1>3. Doomed' = Doomed \cup {t}
    <2>1. "removed" \in LifePc /\ "removed" \in InCall /\ t # None /\ t \in {None, t}
          /\ about[Me] \in {None, t}
      BY <1>2, LifeTypes DEF LifePc, InCall
    <2> QED  BY <1>1, <1>2, <2>1, DoomedAfter
  <1>4. k'.cur = k.cur /\ k'.stat = k.stat
    BY <1>1, LifeTypes DEF RemoveThread, KernelState
  <1>5. Steady(Thread \ {t})
    BY <1>1, <1>3, <1>4, PhaseSame DEF Steady
  <1>6. Phase(t) \in {"born", "alive"} /\ Phase(t)' = "dead"
    BY <1>1, <1>2, <1>3 DEF Phase
  <1> QED  BY <1>2, <1>4, <1>5, <1>6, RunsOn, StepOf

\* The other parts, of which only the last may give the thread back.
LEMMA DeletionPhase ==
    ASSUME LifeInv, DeleteTimer \/ DeleteClose \/ DeleteBury
    PROVE  Promise!Next
  <1>1. pc[Me] \in Deletion /\ pc[Me] \in InCall
    BY DEF DeleteTimer, DeleteClose, DeleteBury, At, Deletion, InCall
  <1>2. PICK z \in Thread \cup {None} : z = about[Me]
    BY LifeTypes DEF Me
  <1>3. /\ z \in App /\ z \in Thread /\ z # k.cur /\ Mine(z) /\ z \notin ToSet(defunct)
        /\ Stage(Me, z)
    BY <1>1, <1>2, InCallOf DEF Me
  <1>4. z \in Doomed /\ memory[z] = "live" /\ about[Me] \in {None, z} /\ z # None
    BY <1>1, <1>2, <1>3, LifeTypes DEF Doomed, Deletion, Stage, Me
  <1>5. CASE DeleteTimer \/ DeleteClose
    <2>1. PICK l \in {"untimed", "closed"} : GoOn(l, z)
      BY <1>2, <1>5 DEF DeleteTimer, DeleteClose
    <2>2. l \in LifePc /\ l \in {"removed", "untimed", "closed"} /\ z \in {None, z}
      BY DEF LifePc
    <2>3. Doomed' = Doomed
      <3>1. Doomed' = Doomed \cup {z}
        BY <1>3, <1>4, <2>1, <2>2, DoomedAfter
      <3> QED  BY <1>4, <3>1
    <2>4. /\ memory' = memory /\ k'.cur = k.cur
          /\ \A u \in Thread \ {z} : k'.stat[u] = k.stat[u]
      BY <1>2, <1>5, LifeTypes DEF DeleteTimer, DeleteClose, KernelState
    <2>5. Steady(Thread \ {z})
      BY <2>3, <2>4, PhaseSame DEF Steady
    <2>6. Phase(z)' = Phase(z)
      BY <1>4, <2>3, <2>4 DEF Phase
    <2> QED  BY <2>4, <2>5, <2>6, RunsOn, StutterOf DEF Steady
  <1>6. CASE DeleteBury
    <2>1. k' = k /\ Bury(z) /\ GoOn("run", None) /\ pc[Me] = "closed"
      BY <1>2, <1>6 DEF DeleteBury, At
    <2>2. k.stat[z] = "CLOSE"
      BY <1>3, <2>1 DEF Stage
    <2>3. "run" \in LifePc /\ "run" \notin InCall /\ "run" \notin {"removed", "untimed", "closed"}
          /\ None \in {None, z}
      BY DEF LifePc, InCall
    <2>4. Doomed' = Doomed \ {z}
      BY <1>3, <1>4, <2>1, <2>3, DoomedAfter
    <2>5. /\ \A x \in Thread \ {z} : memory'[x] = memory[x]
          /\ memory' = memory \/ (memory'[z] = "none" /\ z \in Static)
      BY <1>3, <2>1, BuryEffect
    <2>6. Steady(Thread \ {z})
      BY <2>1, <2>4, <2>5, PhaseSame DEF Steady
    <2>7. Phase(z) = "dead"
      BY <1>4 DEF Phase
    <2>8. Phase(z)' = "dead" \/ (Phase(z)' = "none" /\ z \in Static)
      BY <1>4, <2>1, <2>2, <2>5 DEF Phase
    <2>9. CASE Phase(z)' = "dead"
      BY <2>1, <2>6, <2>7, <2>9, RunsOn, StutterOf DEF Steady
    <2>10. CASE Phase(z)' = "none" /\ z \in Static
      BY <1>3, <2>1, <2>6, <2>7, <2>10, RunsOn, StepOf
    <2> QED  BY <2>8, <2>9, <2>10
  <1> QED  BY <1>5, <1>6

\* The idle thread gives a static thread back when it takes it off the list, and
\* any other when it frees its stack.
LEMMA IdlePhase ==
    ASSUME LifeInv, LifeInv', IdleStep
    PROVE  Promise!Next
  <1>1. CASE IdleLook
    <2>1. /\ pc[Me] = "run" /\ GoOn("reap", None) /\ k' = k /\ memory' = memory
          /\ Me \in Thread
      BY <1>1, Current DEF IdleLook, At
    <2>2. pc'[Me] = "reap" /\ \A u \in Thread \ {Me} : pc'[u] = pc[u] /\ about'[u] = about[u]
      BY <2>1, LifeTypes DEF GoOn
    <2>3. Doomed' = Doomed
      BY <2>1, <2>2 DEF Doomed
    <2>4. Steady(Thread)
      BY <2>1, <2>3, PhaseSame DEF Steady
    <2> QED  BY <2>1, <2>4, RunsOn, StutterOf
  <1>2. CASE IdleTake
    <2> DEFINE hd == Head(defunct)
    <2>1. /\ pc[Me] = "reap"
          /\ \E j \in Resumable \cup {None} :
                k' = Schedule(ExitCritical(CleanedUp(EnterCritical(k), hd, j)))
          /\ \/ hd \in Static /\ memory' = [memory EXCEPT ![hd] = "none"] /\ GoOn("run", None)
             \/ hd \notin Static /\ GoOn("stack", hd) /\ memory' = memory
      BY <1>2 DEF IdleTake, At
    <2>2. Me \in Thread /\ defunct # << >> /\ defunct \in Seq(App)
      BY <2>1, Current, LifeTypes DEF CallOf
    <2>3. hd \in App /\ hd \in ToSet(defunct)
      BY <2>2, HeadTailList
    <2>4. PICK z \in App : z = hd
      BY <2>3
    <2> HIDE DEF hd
    <2>5. z \in Thread /\ k.stat[z] = "CLOSE" /\ memory[z] = "live"
      BY <2>3, <2>4, LifeTypes DEF LifeInv, Dead, DeadOf
    <2>6. Rescheduled
      BY <2>1, <2>4, <2>5, CleanedUpKernel
    <2>7. Doomed' = Doomed
      <3>1. /\ pc'[Me] \in {"run", "stack"}
            /\ \A u \in Thread \ {Me} : pc'[u] = pc[u] /\ about'[u] = about[u]
        BY <2>1, <2>2, LifeTypes DEF GoOn
      <3> QED  BY <2>1, <2>2, <3>1 DEF Doomed
    <2>8. Runs /\ \A u \in Thread : memory'[u] = memory[u] => Phase(u)' = Phase(u)
      BY <2>6, <2>7, SwitchPhase
    <2>9. CASE memory' = memory
      BY <2>8, <2>9, StutterOf DEF Steady
    <2>10. CASE z \in Static /\ memory' = [memory EXCEPT ![z] = "none"]
      <3>1. memory'[z] = "none" /\ \A u \in Thread \ {z} : memory'[u] = memory[u]
        BY <2>5, <2>10, LifeTypes
      <3>2. Steady(Thread \ {z})
        BY <2>8, <3>1 DEF Steady
      <3>3. Phase(z) = "dead" /\ Phase(z)' = "none"
        BY <2>5, <3>1 DEF Phase
      <3> QED  BY <2>5, <2>8, <2>10, <3>2, <3>3, StepOf
    <2> QED  BY <2>1, <2>4, <2>9, <2>10
  <1>3. CASE FreeStack \/ FreeObject
    <2>1. PICK z \in Thread \cup {None} : z = about[Me]
      BY LifeTypes DEF Me
    <2>2. /\ pc[Me] \in {"stack", "object"} /\ pc[Me] \in InCall /\ k' = k
          /\ \/ pc[Me] = "stack" /\ GoOn("object", z)
                /\ memory' = [memory EXCEPT ![z] = "stackless"]
             \/ pc[Me] = "object" /\ GoOn("run", None)
                /\ memory' = [memory EXCEPT ![z] = "none"]
      BY <1>3, <2>1 DEF FreeStack, FreeObject, At, InCall
    <2>3. z \in Thread /\ z # k.cur /\ Stage(Me, z) /\ Me \in Thread
      BY <2>1, <2>2, InCallOf, Current DEF Me
    <2>4. Doomed' = Doomed
      <3>1. /\ pc'[Me] \in {"run", "object"}
            /\ \A u \in Thread \ {Me} : pc'[u] = pc[u] /\ about'[u] = about[u]
        BY <2>2, <2>3, LifeTypes DEF GoOn
      <3> QED  BY <2>2, <2>3, <3>1 DEF Doomed
    <2>5. memory'[z] # "live" /\ \A u \in Thread \ {z} : memory'[u] = memory[u]
      BY <2>2, <2>3, LifeTypes
    <2>6. Steady(Thread \ {z})
      BY <2>2, <2>4, <2>5, PhaseSame DEF Steady
    <2>7. Phase(z)' = "none"
      BY <2>5 DEF Phase
    <2>8. CASE pc[Me] = "stack"
      <3>1. Phase(z) = "dead"
        BY <2>3, <2>8 DEF Stage, Phase
      <3> QED  BY <2>2, <2>3, <2>6, <2>7, <3>1, RunsOn, StepOf
    <2>9. CASE pc[Me] = "object"
      <3>1. Phase(z) = "none"
        BY <2>3, <2>9 DEF Stage, Phase
      <3> QED  BY <2>2, <2>6, <2>7, <3>1, RunsOn, StutterOf DEF Steady
    <2> QED  BY <2>2, <2>8, <2>9
  <1> QED  BY <1>1, <1>2, <1>3 DEF IdleStep

\* Every step of a thread, of the idle thread or of an interrupt is a step of
\* the promised life cycle, or none.
LEMMA LifecycleNext ==
    ASSUME LifeInv, LifeInv', [LifeNext]_lifeVars
    PROVE  [Promise!Next]_(Promise!vars)
  <1>1. CASE UNCHANGED lifeVars
    BY <1>1 DEF lifeVars, Promise!vars, Phase, Doomed
  <1>2. CASE LifeNext
    <2>1. ASSUME NEW t \in Thread, Create(t) PROVE Promise!Next
      BY <2>1, CreatePhase
    <2>2. ASSUME NEW t \in Thread, Startup(t) \/ ResumeThread(t) PROVE Promise!Next
      BY <2>2, UnlinkPhase
    <2>3. ASSUME NEW t \in Thread, DeleteRemove(t) PROVE Promise!Next
      BY <2>3, RemovePhase
    <2>4. ASSUME NEW t \in Thread, TickTimeout(t) \/ IsrResume(t) PROVE Promise!Next
      BY <2>4, SchedulePhase
    <2>5. ASSUME NEW time \in Wait, SuspendCaller(time) PROVE Promise!Next
      BY <2>5, SuspendPhase
    <2>6. CASE ResumeInsertion
      BY <2>6, InsertPhase
    <2>7. CASE CallSchedule \/ LastSchedule \/ TickYield
      BY <2>7, KernelAssumption, SchedulePhase
    <2>8. CASE Exit
      BY <2>8, ExitPhase
    <2>9. CASE DeleteTimer \/ DeleteClose \/ DeleteBury
      BY <2>9, DeletionPhase
    <2>10. CASE IdleStep
      BY <2>10, IdlePhase
    <2> QED
      BY <1>2, <2>1, <2>2, <2>3, <2>4, <2>5, <2>6, <2>7, <2>8, <2>9, <2>10 DEF LifeNext
  <1> QED  BY <1>1, <1>2

\* A dead thread is never switched to, its stack is freed once and never under
\* its feet, and its control block is not used again before that.
THEOREM ThreadLifeImplementsLifecycle ==
    ASSUME DeleteAsleep = FALSE
    PROVE  LifeSpec => ImplementsLifecycle
  <1>1. LifeInv /\ LifeInv' /\ [LifeNext]_lifeVars => [Promise!Next]_(Promise!vars)
    BY LifecycleNext
  <1> QED
    BY <1>1, LifecycleInit, LifeInvariant, PTL
    DEF LifeSpec, ImplementsLifecycle, Promise!LifecycleSpec


-----------------------------------------------------------------------------
(* The inductive invariant *)

\* One thread below the timer thread starts and stops the timers; callbacks may
\* start their own.  The code does not enforce it.  A thread above the timer
\* thread starts timers between the look at the list and the suspension, and
\* two threads resume the timer thread at once.
OwnedFromBelow ==
    /\ \A x, y \in Timer : Owner[x] = Owner[y]
    /\ \A x \in Timer : BasePrio[Daemon] < BasePrio[Owner[x]]

Suspended == k.stat[Daemon] = "SUSPEND"

\* Nothing changes a priority or suspends the idle thread, and only the timer
\* thread has a delay.
Scheduler ==
    /\ KernelOK(k) /\ k.prio = BasePrio
    /\ k.stat[Idle] \in {"READY", "RUNNING"}
    /\ \A t \in k.tmr : t = Daemon /\ Suspended

\* The scheduler is locked only under the timer thread, which runs suspended
\* only between its suspension and its rt_schedule.
OnProcessor ==
    /\ LockedInLoop
    /\ pc[Daemon] = "loop" => Me = Daemon
    /\ k.stat[Me] = "RUNNING" \/ (DaemonAt("blocked") /\ Suspended)

\* The timer thread is suspended where it suspended itself, and it is passed
\* over only by the thread that is about to call rt_schedule for it.
DaemonState ==
    /\ k.stat[Daemon] \in {"READY", "RUNNING", "SUSPEND"}
    /\ Suspended => pc[Daemon] \in {"blocked", "check"}
    /\ k.stat[Daemon] = "READY" => k.prio[Me] <= k.prio[Daemon] \/ At("pend")

\* Whose code each thread is in, and with which timer.
PlaceOf(t) ==
    /\ pc[t] \in {"run"} \cup StartPc
    /\ arg[t] # ListHead => t = Owner[arg[t]]
    /\ pc[t] = "insert" => Asleep

Places ==
    /\ pc[Daemon] \in DaemonPc \cup {"arm", "link", "kick"}
    /\ \A t \in Thread : arg[t] # ListHead <=> pc[t] \in StartPc
    /\ \A t \in Thread \ {Daemon} : PlaceOf(t)

InCallback == pc[Daemon] \in {"call", "called", "relock"} \cup StartPc

Fires(x) == InCallback /\ loc.t = x

\* The cursor is on the list, and never at the timer that fires.
Cursor ==
    /\ pc[Daemon] = "loop" \/ InCallback => loc.n \in ToSet(list) \cup {ListHead}
    /\ InCallback => loc.t \in Timer /\ loc.n # loc.t
    /\ arg[Daemon] # ListHead => arg[Daemon] = loc.t /\ loc.t \in Restarting
    /\ pc[Daemon] \in {"call", "arm", "link"} => loc.t \notin ToSet(list)

\* A timer that is being started or stopped is on no list and in no callback.
Listing ==
    /\ Distinct(list)
    /\ \A t \in Thread \ {Daemon} :
          pc[t] \in {"arm", "link", "unflag"} =>
              arg[t] \notin ToSet(list) /\ ~ Fires(arg[t])

\* Why the timer thread may go to sleep.
Sleep ==
    /\ pc[Daemon] = "suspend" => list = << >> \/ misread
    /\ AsleepWhenNone

SoftInv ==
    /\ TypeOK /\ Scheduler /\ OnProcessor /\ DaemonState
    /\ Places /\ Cursor /\ Listing /\ Sleep

-----------------------------------------------------------------------------
(* Facts the actions share *)

\* What the invariant says of the parts of the state.
LEMMA Types ==
    ASSUME SoftInv
    PROVE  /\ k \in KernelState /\ KernelOK(k) /\ k.cur \in Thread
           /\ k.stat \in [Thread -> Stat] /\ k.prio \in [Thread -> Prio]
           /\ k.tmr \in SUBSET Thread /\ k.stat[k.cur] # "READY"
           /\ \A t \in Thread : k.stat[t] = "RUNNING" => t = k.cur
           /\ tick \in Tick /\ list \in Seq(Timer) /\ due \in [Timer -> Tick]
           /\ active \in SUBSET Timer /\ wake \in Tick
           /\ pc \in [Thread -> Pc] /\ arg \in [Thread -> Timer \cup {ListHead}]
           /\ loc \in [nt : Tick, ct : Tick, n : Timer \cup {ListHead},
                       t : Timer \cup {ListHead}]
           /\ Distinct(list) /\ ListHead \notin Timer
           /\ Daemon \in Thread /\ Idle \in Thread /\ Daemon # Idle
  <1>1. /\ k \in KernelState /\ k.cur \in Thread /\ k.stat \in [Thread -> Stat]
        /\ k.prio \in [Thread -> Prio] /\ k.tmr \in SUBSET Thread
    BY DEF SoftInv, TypeOK, KernelState
  <1>2. /\ KernelOK(k) /\ k.stat[k.cur] # "READY"
        /\ \A t \in Thread : k.stat[t] = "RUNNING" => t = k.cur
    BY DEF SoftInv, Scheduler, KernelOK, OneRunning
  <1>3. /\ tick \in Tick /\ list \in Seq(Timer) /\ due \in [Timer -> Tick]
        /\ active \in SUBSET Timer /\ wake \in Tick
        /\ pc \in [Thread -> Pc] /\ arg \in [Thread -> Timer \cup {ListHead}]
        /\ loc \in [nt : Tick, ct : Tick, n : Timer \cup {ListHead},
                    t : Timer \cup {ListHead}]
    BY DEF SoftInv, TypeOK
  <1> QED
    BY <1>1, <1>2, <1>3, KernelAssumption, SoftTimerAssumption
       DEF SoftInv, Listing

\* The thread that runs, inside or about to enter one of the calls.
Acting ==
    \/ At("run") /\ \E x \in Timer : Owner[x] = Me
    \/ pc[Me] \in StartPc \ {"pend"}

\* While the owner of the timers runs, the timer thread is suspended.
LEMMA OwnerRuns ==
    ASSUME OwnedFromBelow, SoftInv, Me # Daemon, Acting
    PROVE  Suspended /\ pc[Daemon] \in {"blocked", "check"} /\ ~ InCallback
  <1> USE Types
  <1>1. PICK x \in Timer : Owner[x] = Me
    <2>1. CASE At("run") /\ \E x \in Timer : Owner[x] = Me
      BY <2>1
    <2>2. CASE pc[Me] \in StartPc \ {"pend"}
      <3>1. arg[Me] \in Timer /\ Owner[arg[Me]] = Me
        BY <2>2 DEF SoftInv, Places, PlaceOf, Me
      <3> QED  BY <3>1
    <2> QED  BY <2>1, <2>2 DEF Acting
  <1>2. ~ At("pend")
    BY DEF Acting, At
  <1>3. ~ k.prio[Me] <= k.prio[Daemon]
    <2>1. BasePrio[Me] \in Int /\ BasePrio[Daemon] \in Int
      BY SoftTimerAssumption DEF Me, Prio
    <2> QED  BY <1>1, <2>1 DEF OwnedFromBelow, SoftInv, Scheduler
  <1>4. k.stat[Daemon] # "READY"
    BY <1>2, <1>3 DEF SoftInv, DaemonState
  <1>5. Suspended
    BY <1>4 DEF SoftInv, DaemonState, Suspended, Me
  <1>6. pc[Daemon] \in {"blocked", "check"}
    BY <1>5 DEF SoftInv, DaemonState
  <1> QED  BY <1>5, <1>6 DEF InCallback, StartPc

\* Only one thread besides the timer thread is inside a call.
LEMMA OnlyOwner ==
    ASSUME OwnedFromBelow, SoftInv,
           NEW t \in Thread \ {Daemon}, NEW u \in Thread \ {Daemon},
           (t = Me /\ Acting) \/ pc[t] \in StartPc, pc[u] \in StartPc
    PROVE  t = u
  <1> USE Types
  <1>1. arg[u] \in Timer /\ Owner[arg[u]] = u
    BY DEF SoftInv, Places, PlaceOf
  <1>2. \E x \in Timer : Owner[x] = t
    <2>1. CASE pc[t] \in StartPc
      <3>1. arg[t] \in Timer /\ Owner[arg[t]] = t
        BY <2>1 DEF SoftInv, Places, PlaceOf
      <3> QED  BY <3>1
    <2>2. CASE ~ pc[t] \in StartPc
      BY <2>2 DEF Acting, Me
    <2> QED  BY <2>1, <2>2
  <1> QED  BY <1>1, <1>2 DEF OwnedFromBelow

\* Who runs at one of these places is RUNNING, and the list is not being walked
\* unless the timer thread is the one that runs.
LEMMA RunsWhenActing ==
    ASSUME SoftInv, ~ DaemonAt("blocked")
    PROVE  k.stat[Me] = "RUNNING" /\ (Me # Daemon => pc[Daemon] # "loop")
  BY DEF SoftInv, OnProcessor

\* A step that leaves the kernel alone and is not the rt_schedule of a call.
LEMMA SameKernel ==
    ASSUME SoftInv, UNCHANGED k, ~ DaemonAt("blocked"), ~ At("pend"), ~ DaemonAt("loop"),
           NEW l \in Pc, Goto(l), Me = Daemon => l # "loop"
    PROVE  Scheduler' /\ OnProcessor' /\ DaemonState'
  <1> USE Types
  <1>1. Me' = Me /\ k' = k /\ Me \in Thread
    BY DEF Me
  <1>2. k.stat[Me] = "RUNNING" /\ (Me # Daemon => pc[Daemon] # "loop")
    BY RunsWhenActing
  <1>3. Scheduler'
    BY <1>1 DEF SoftInv, Scheduler, Suspended
  <1>4. pc[Daemon] # "loop" /\ pc'[Daemon] # "loop"
    BY <1>1, <1>2 DEF Goto, DaemonAt, At
  <1>5. OnProcessor'
    BY <1>1, <1>2, <1>4 DEF SoftInv, OnProcessor, LockedInLoop
  <1>6. Suspended => Me # Daemon
    BY <1>2 DEF Suspended
  <1>7. DaemonState'
    BY <1>1, <1>6 DEF SoftInv, DaemonState, Suspended, Goto, At
  <1> QED  BY <1>3, <1>5, <1>7

\* What the rt_schedule at the end of a step makes of the kernel state m.
LEMMA AfterSchedule ==
    ASSUME SoftTimerAssumption,
           NEW m \in KernelState, KernelOK(m), m.lock = 0, m.prio = BasePrio,
           m.stat[Idle] \in {"READY", "RUNNING"},
           \A t \in m.tmr : t = Daemon /\ m.stat[Daemon] = "SUSPEND",
           m.stat[Daemon] \in {"READY", "RUNNING", "SUSPEND"},
           m.stat[Daemon] = "SUSPEND" => pc'[Daemon] \in {"blocked", "check"},
           pc'[Daemon] # "loop",
           k' = Schedule(m)
    PROVE  /\ Scheduler' /\ OnProcessor' /\ DaemonState'
           /\ k' \in KernelState /\ k'.tmr = m.tmr
           /\ k'.stat[Daemon] = "SUSPEND" <=> m.stat[Daemon] = "SUSPEND"
  <1> DEFINE n == Schedule(m)
  <1>1. Daemon \in Thread /\ Idle \in Thread
    BY SoftTimerAssumption, KernelAssumption
  <1>2. /\ n \in KernelState /\ KernelOK(n)
        /\ n.prio = m.prio /\ n.tmr = m.tmr /\ n.lock = 0
        /\ \A t \in Thread : n.stat[t] = "SUSPEND" <=> m.stat[t] = "SUSPEND"
        /\ n.stat[Idle] \in {"READY", "RUNNING"}
        /\ n.stat[n.cur] = "RUNNING" /\ TopRuns(n)
    BY ScheduleWithIdle
  <1>3. n.stat[Daemon] \in {"READY", "RUNNING", "SUSPEND"}
    <2>1. Inactive(n) = Inactive(m) /\ \A t \in Inactive(m) : n.stat[t] = m.stat[t]
      BY ScheduleEffect
    <2> HIDE DEF n
    <2> QED  BY <1>1, <2>1 DEF Inactive
  <1> HIDE DEF n
  <1>4. k' = n
    BY DEF n
  <1>5. /\ k' \in KernelState /\ KernelOK(k')
        /\ k'.prio = BasePrio /\ k'.tmr = m.tmr /\ k'.lock = 0
        /\ k'.stat[Daemon] = "SUSPEND" <=> m.stat[Daemon] = "SUSPEND"
        /\ k'.stat[Idle] \in {"READY", "RUNNING"}
        /\ k'.stat[k'.cur] = "RUNNING" /\ TopRuns(k')
        /\ k'.stat[Daemon] \in {"READY", "RUNNING", "SUSPEND"}
    BY <1>1, <1>2, <1>3, <1>4
  <1>6. Scheduler'
    BY <1>5 DEF Scheduler, Suspended
  <1>7. OnProcessor'
    BY <1>5 DEF OnProcessor, LockedInLoop, Me
  <1>8. DaemonState'
    BY <1>1, <1>5 DEF DaemonState, Suspended, TopRuns, Me
  <1> QED  BY <1>5, <1>6, <1>7, <1>8

\* A step of the scheduler alone leaves the timers as they are.
LEMMA SameTimers ==
    ASSUME SoftInv, UNCHANGED <<list, pc, arg, loc, misread>>, Asleep' <=> Asleep
    PROVE  Places' /\ Cursor' /\ Listing' /\ Sleep'
  <1>1. Places'
    BY DEF SoftInv, Places, PlaceOf
  <1>2. Cursor'
    BY DEF SoftInv, Cursor, InCallback
  <1>3. Listing'
    BY DEF SoftInv, Listing, Fires, InCallback
  <1>4. Sleep'
    BY DEF SoftInv, Sleep, AsleepWhenNone, Kicked
  <1> QED  BY <1>1, <1>2, <1>3, <1>4

-----------------------------------------------------------------------------
(* Steps of the scheduler *)

\* A thread that waits for an event of its own.
LEMMA RestStep ==
    ASSUME SoftInv, Rest
    PROVE  SoftInv'
  <1> USE Types
  <1> DEFINE m == Suspend(k, Me)
  <1>1. Me \in Thread \ {Daemon, Idle} /\ k' = Schedule(m)
        /\ UNCHANGED <<tick, timerVars, wake, pc, arg, loc, misread>>
    BY DEF Rest, Me
  <1>2. k.stat[Me] = "RUNNING" /\ pc[Daemon] # "loop"
    BY <1>1, RunsWhenActing DEF DaemonAt
  <1>3. /\ m \in KernelState /\ KernelOK(m)
        /\ m.cur = k.cur /\ m.prio = k.prio /\ m.lock = k.lock
        /\ m.stat = [k.stat EXCEPT ![Me] = "SUSPEND"]
        /\ m.tmr = k.tmr \ {Me}
    BY <1>1, <1>2, SuspendEffect
  <1> HIDE DEF m
  <1>4. /\ m.lock = 0 /\ m.prio = BasePrio
        /\ m.stat[Idle] \in {"READY", "RUNNING"}
        /\ m.stat[Daemon] = k.stat[Daemon] /\ m.tmr = k.tmr
    BY <1>1, <1>2, <1>3 DEF SoftInv, OnProcessor, LockedInLoop, Scheduler
  <1>5. /\ \A t \in m.tmr : t = Daemon /\ m.stat[Daemon] = "SUSPEND"
        /\ m.stat[Daemon] \in {"READY", "RUNNING", "SUSPEND"}
        /\ m.stat[Daemon] = "SUSPEND" => pc'[Daemon] \in {"blocked", "check"}
        /\ pc'[Daemon] # "loop"
    BY <1>1, <1>2, <1>4 DEF SoftInv, Scheduler, DaemonState, Suspended
  <1>6. /\ Scheduler' /\ OnProcessor' /\ DaemonState'
        /\ k' \in KernelState /\ k'.tmr = m.tmr
        /\ k'.stat[Daemon] = "SUSPEND" <=> m.stat[Daemon] = "SUSPEND"
    BY <1>1, <1>3, <1>4, <1>5, AfterSchedule, SoftTimerAssumption
  <1>7. Asleep' <=> Asleep
    BY <1>4, <1>6 DEF Asleep
  <1>8. TypeOK'
    BY <1>1, <1>6 DEF SoftInv, TypeOK, timerVars
  <1> QED
    BY <1>1, <1>6, <1>7, <1>8, SameTimers DEF SoftInv, timerVars

\* An interrupt brings a thread its event.
LEMMA IsrWakeStep ==
    ASSUME SoftInv, NEW t \in Thread, IsrWake(t)
    PROVE  SoftInv'
  <1> USE Types
  <1> DEFINE m == Resume(k, t)
  <1>1. t \notin {Daemon, Idle} /\ k.stat[t] = "SUSPEND" /\ k' = Schedule(m)
        /\ UNCHANGED <<tick, timerVars, wake, pc, arg, loc, misread>>
    BY DEF IsrWake
  <1>2. /\ m \in KernelState /\ KernelOK(m)
        /\ m.cur = k.cur /\ m.prio = k.prio /\ m.lock = k.lock
        /\ m.stat = [k.stat EXCEPT ![t] = IF t = k.cur THEN "RUNNING" ELSE "READY"]
        /\ m.tmr = k.tmr \ {t}
    BY <1>1, ResumeEffect
  <1> HIDE DEF m
  <1>3. /\ m.prio = BasePrio /\ m.stat[Idle] \in {"READY", "RUNNING"}
        /\ m.stat[Daemon] = k.stat[Daemon] /\ m.tmr = k.tmr
        /\ \A u \in m.tmr : u = Daemon /\ m.stat[Daemon] = "SUSPEND"
        /\ m.stat[Daemon] \in {"READY", "RUNNING", "SUSPEND"}
        /\ m.stat[Daemon] = "SUSPEND" => pc'[Daemon] \in {"blocked", "check"}
    BY <1>1, <1>2 DEF SoftInv, Scheduler, DaemonState, Suspended
  <1>4. /\ Scheduler' /\ OnProcessor' /\ DaemonState'
        /\ k' \in KernelState /\ k'.tmr = m.tmr
        /\ k'.stat[Daemon] = "SUSPEND" <=> m.stat[Daemon] = "SUSPEND"
    <2>1. CASE pc[Daemon] = "loop"
      <3>1. /\ Me = Daemon /\ k.lock = 1 /\ k.stat[Daemon] = "RUNNING"
        BY <2>1 DEF SoftInv, OnProcessor, LockedInLoop, DaemonAt, At
      <3>2. k' = m
        BY <1>1, <1>2, <3>1 DEF Schedule
      <3>3. k'.cur = Daemon /\ k'.stat[Daemon] = "RUNNING" /\ k'.lock = 1
        BY <1>2, <1>3, <3>1, <3>2 DEF Me
      <3>4. Scheduler'
        BY <1>2, <1>3, <3>2 DEF Scheduler, Suspended
      <3>5. OnProcessor'
        BY <1>1, <2>1, <3>3 DEF OnProcessor, LockedInLoop, Me
      <3>6. DaemonState'
        BY <3>3 DEF DaemonState, Suspended
      <3> QED  BY <1>2, <3>2, <3>4, <3>5, <3>6
    <2>2. CASE pc[Daemon] # "loop"
      <3>1. m.lock = 0 /\ pc'[Daemon] # "loop"
        BY <1>1, <1>2, <2>2 DEF SoftInv, OnProcessor, LockedInLoop
      <3> QED  BY <1>1, <1>2, <1>3, <3>1, AfterSchedule, SoftTimerAssumption
    <2> QED  BY <2>1, <2>2
  <1>5. Asleep' <=> Asleep
    BY <1>3, <1>4 DEF Asleep
  <1>6. TypeOK'
    BY <1>1, <1>4 DEF SoftInv, TypeOK, timerVars
  <1> QED
    BY <1>1, <1>4, <1>5, <1>6, SameTimers DEF SoftInv, timerVars

\* The tick is a tick.
LEMMA NextTick == tick \in Tick => (tick + 1) % TickMod \in Tick
  BY TickAssumption DEF Tick, TickMax

\* The timeout of the delay, before its rt_schedule.
LEMMA DelayOver ==
    ASSUME SoftInv, Suspended
    PROVE  LET m == Wake(k, Daemon, "ETIMEOUT")
           IN  /\ m \in KernelState /\ KernelOK(m)
               /\ m.cur = k.cur /\ m.prio = k.prio /\ m.lock = k.lock
               /\ m.stat = [k.stat EXCEPT ![Daemon] =
                               IF Daemon = k.cur THEN "RUNNING" ELSE "READY"]
               /\ m.tmr = k.tmr \ {Daemon}
  <1>1. PICK t \in Thread : t = Daemon
    BY Types
  <1>2. PICK e \in Err : e = "ETIMEOUT"
    BY DEF Err
  <1>3. k \in KernelState /\ KernelOK(k) /\ k.stat[t] = "SUSPEND"
    BY <1>1, Types DEF Suspended
  <1>4. LET m == Wake(k, t, e)
        IN  /\ m \in KernelState /\ KernelOK(m)
            /\ m.cur = k.cur /\ m.prio = k.prio /\ m.lock = k.lock
            /\ m.stat = [k.stat EXCEPT ![t] = IF t = k.cur THEN "RUNNING" ELSE "READY"]
            /\ m.err = [k.err EXCEPT ![t] = e]
            /\ m.tmr = k.tmr \ {t}
    BY <1>3, WakeEffect
  <1> QED  BY <1>1, <1>2, <1>4

\* The tick wakes the timer thread from its delay, or only counts.
LEMMA TickStep ==
    ASSUME SoftInv, TickIncrease
    PROVE  SoftInv'
  <1> USE Types
  <1>1. /\ tick' = (tick + 1) % TickMod /\ tick' \in Tick
        /\ UNCHANGED <<timerVars, pc, arg, loc, misread>>
    BY NextTick DEF TickIncrease
  <1>2. CASE UNCHANGED <<k, wake>>
    <2>1. Scheduler' /\ OnProcessor' /\ DaemonState' /\ (Asleep' <=> Asleep)
      BY <1>1, <1>2 DEF SoftInv, Scheduler, OnProcessor, DaemonState, LockedInLoop,
                        Suspended, DaemonAt, At, Me, Asleep
    <2>2. TypeOK'
      BY <1>1, <1>2 DEF SoftInv, TypeOK, timerVars
    <2> QED  BY <1>1, <2>1, <2>2, SameTimers DEF SoftInv, timerVars
  <1>3. CASE Daemon \in k.tmr /\ k' = Timeout(k, Daemon) /\ wake' = 0
    <2> DEFINE m == Wake(k, Daemon, "ETIMEOUT")
    <2>1. k.stat[Daemon] = "SUSPEND" /\ pc[Daemon] \in {"blocked", "check"}
      BY <1>3 DEF SoftInv, Scheduler, DaemonState, Suspended
    <2>2. k' = Schedule(m)
      BY <1>3 DEF Timeout
    <2>3. /\ m \in KernelState /\ KernelOK(m)
          /\ m.cur = k.cur /\ m.prio = k.prio /\ m.lock = k.lock
          /\ m.stat = [k.stat EXCEPT ![Daemon] =
                           IF Daemon = k.cur THEN "RUNNING" ELSE "READY"]
          /\ m.tmr = k.tmr \ {Daemon}
      BY <2>1, DelayOver DEF Suspended
    <2> HIDE DEF m
    <2>4. /\ m.prio = BasePrio /\ m.stat[Idle] \in {"READY", "RUNNING"} /\ m.lock = 0
          /\ m.tmr = {} /\ m.stat[Daemon] \in {"READY", "RUNNING"}
      BY <2>1, <2>3 DEF SoftInv, Scheduler, OnProcessor, LockedInLoop
    <2>5. /\ \A t \in m.tmr : t = Daemon /\ m.stat[Daemon] = "SUSPEND"
          /\ m.stat[Daemon] \in {"READY", "RUNNING", "SUSPEND"}
          /\ m.stat[Daemon] = "SUSPEND" => pc'[Daemon] \in {"blocked", "check"}
          /\ pc'[Daemon] # "loop"
      BY <1>1, <2>1, <2>4
    <2>6. /\ Scheduler' /\ OnProcessor' /\ DaemonState'
          /\ k' \in KernelState /\ k'.tmr = m.tmr
          /\ k'.stat[Daemon] = "SUSPEND" <=> m.stat[Daemon] = "SUSPEND"
      BY <2>2, <2>3, <2>4, <2>5, AfterSchedule, SoftTimerAssumption
    <2>7. ~ Asleep /\ ~ Asleep'
      BY <1>3, <2>4, <2>6 DEF Asleep
    <2>8. TypeOK'
      <3>1. wake' \in Tick
        BY <1>3, TickAssumption DEF Tick, TickMax
      <3> QED  BY <1>1, <2>6, <3>1 DEF SoftInv, TypeOK, timerVars
    <2> QED  BY <1>1, <2>6, <2>7, <2>8, SameTimers DEF SoftInv, timerVars
  <1> QED  BY <1>2, <1>3 DEF TickIncrease

-----------------------------------------------------------------------------
(* The lists *)

\* rt_timer_start inserts somewhere.
LEMMA LinkedForm ==
    ASSUME NEW l \in Seq(Timer), NEW d, NEW x \in Timer
    PROVE  \/ Linked(l, d, x) = Append(l, x)
           \/ \E i \in 1 .. Len(l) : Linked(l, d, x) = InsertAt(l, i, x)
  <1> DEFINE P == {j \in 1 .. Len(l) : d[l[j]] # d[x] /\ Within(d[l[j]], d[x])}
             i == IF P # {} THEN Min(P) ELSE 0
  <1>1. Linked(l, d, x) = IF i = 0 THEN Append(l, x) ELSE InsertAt(l, i, x)
    BY DEF Linked, SelectInSeq
  <1>2. i = 0 \/ i \in 1 .. Len(l)
    <2>1. CASE P = {}
      BY <2>1
    <2>2. CASE P # {}
      <3>1. P \in SUBSET (1 .. Len(l)) /\ P # {}
        BY <2>2
      <3> HIDE DEF P
      <3>2. Min(P) \in P
        BY <3>1, SelectPosition
      <3> QED  BY <3>1, <3>2
    <2> QED  BY <2>1, <2>2
  <1> HIDE DEF i
  <1> QED  BY <1>1, <1>2

\* It adds one timer, once.
LEMMA LinkedList ==
    ASSUME NEW l \in Seq(Timer), NEW d, NEW x \in Timer
    PROVE  /\ Linked(l, d, x) \in Seq(Timer)
           /\ ToSet(Linked(l, d, x)) = ToSet(l) \cup {x}
           /\ Distinct(l) /\ x \notin ToSet(l) => Distinct(Linked(l, d, x))
  <1>1. CASE Linked(l, d, x) = Append(l, x)
    BY <1>1, AppendList
  <1>2. ASSUME NEW i \in 1 .. Len(l), Linked(l, d, x) = InsertAt(l, i, x)
        PROVE  /\ Linked(l, d, x) \in Seq(Timer)
               /\ ToSet(Linked(l, d, x)) = ToSet(l) \cup {x}
               /\ Distinct(l) /\ x \notin ToSet(l) => Distinct(Linked(l, d, x))
    BY <1>2, InsertAtList
  <1> QED  BY <1>1, <1>2, LinkedForm

\* The node after one on the list is on the list too, and another one.
LEMMA AfterNode ==
    ASSUME SoftInv, NEW x \in ToSet(list) \cup {ListHead}
    PROVE  /\ After(x) \in ToSet(list) \cup {ListHead}
           /\ x # ListHead => After(x) # x
  <1> USE Types
  <1> DEFINE P == {j \in 1 .. Len(list) : list[j] = x}
             i == IF x = ListHead THEN 0 ELSE IF P # {} THEN Min(P) ELSE 0
  <1>1. After(x) = CASE x # ListHead /\ i = 0 -> x
                     [] i = Len(list) -> ListHead
                     [] OTHER -> list[i + 1]
    BY DEF After, SelectInSeq
  <1>2. /\ Len(list) \in Nat /\ DOMAIN list = 1 .. Len(list)
        /\ \A j \in 1 .. Len(list) : list[j] \in ToSet(list) /\ list[j] \in Timer
    BY LenProperties, ElementOfSeq DEF ToSet
  <1>3. i \in 0 .. Len(list) /\ (x # ListHead => i # 0 /\ list[i] = x)
    <2>1. CASE x = ListHead
      BY <1>2, <2>1
    <2>2. CASE x # ListHead
      <3>1. P \in SUBSET (1 .. Len(list)) /\ P # {}
        BY <1>2, <2>2 DEF ToSet
      <3>2. Min(P) \in P
        <4> HIDE DEF P
        <4> QED  BY <3>1, SelectPosition
      <3>3. i = Min(P)
        BY <2>2, <3>1
      <3> HIDE DEF i
      <3> QED  BY <1>2, <3>2, <3>3
    <2> QED  BY <2>1, <2>2
  <1> HIDE DEF i
  <1>4. CASE i = Len(list)
    <2>1. After(x) = ListHead
      BY <1>1, <1>3, <1>4
    <2> QED  BY <2>1
  <1>5. CASE i # Len(list)
    <2>1. After(x) = list[i + 1] /\ i + 1 \in 1 .. Len(list)
      BY <1>1, <1>2, <1>3, <1>5
    <2>2. x # ListHead => list[i + 1] # x
      BY <1>2, <1>3, <2>1 DEF Distinct
    <2> QED  BY <1>2, <2>1, <2>2
  <1> QED  BY <1>4, <1>5

\* A timer that leaves the list is on it no more, and nothing joins.
LEMMA Unlinked ==
    ASSUME SoftInv, NEW x
    PROVE  LET l == RemoveFirst(list, x)
           IN  /\ l \in Seq(Timer) /\ Distinct(l)
               /\ ToSet(l) = ToSet(list) \ {x}
               /\ list = << >> => l = << >>
  <1> DEFINE l == RemoveFirst(list, x)
  <1>1. l \in Seq(Timer) /\ Distinct(l) /\ ToSet(l) = ToSet(list) \ {x}
    BY Types, RemoveFirstList
  <1>2. ASSUME list = << >> PROVE l = << >>
    <2>1. ToSet(list) = {}
      BY <1>2, Types, EmptyList
    <2> HIDE DEF l
    <2> QED  BY <1>1, <2>1, EmptyList
  <1> QED  BY <1>1, <1>2

\* A running owner's step changes nothing the timer thread is in the middle of.
LEMMA OwnerStep ==
    ASSUME OwnedFromBelow, SoftInv, Me # Daemon, Acting, pc'[Daemon] = pc[Daemon],
           UNCHANGED <<loc, arg[Daemon]>>
    PROVE  Cursor' /\ (pc'[Daemon] # "suspend") /\ ~ InCallback'
  <1>1. pc[Daemon] \in {"blocked", "check"} /\ ~ InCallback
    BY OwnerRuns
  <1>2. arg[Daemon] = ListHead
    BY <1>1, Types DEF SoftInv, Places, StartPc
  <1> QED  BY <1>1, <1>2 DEF Cursor, InCallback

-----------------------------------------------------------------------------
(* Steps of rt_timer_start and rt_timer_stop *)

\* Where a thread goes within the calls, and with which timer.
LEMMA StepPlaces ==
    ASSUME SoftInv, NEW l \in Pc, NEW a \in Timer \cup {ListHead},
           Goto(l), arg' = [arg EXCEPT ![Me] = a],
           a # ListHead <=> l \in StartPc,
           Me = Daemon => l \in DaemonPc \cup {"arm", "link", "kick"},
           Me # Daemon => /\ l \in {"run"} \cup StartPc
                          /\ a # ListHead => Me = Owner[a]
                          /\ l = "insert" => Asleep',
           \A t \in Thread \ {Daemon} : pc[t] = "insert" /\ t # Me => Asleep'
    PROVE  Places' /\ pc' \in [Thread -> Pc] /\ arg' \in [Thread -> Timer \cup {ListHead}]
  <1> USE Types
  <1>1. /\ Me \in Thread /\ pc' = [pc EXCEPT ![Me] = l]
        /\ arg' = [arg EXCEPT ![Me] = a]
    BY DEF Me, Goto
  <1>2. /\ pc' \in [Thread -> Pc] /\ arg' \in [Thread -> Timer \cup {ListHead}]
        /\ pc'[Me] = l /\ arg'[Me] = a
        /\ \A t \in Thread : t # Me => pc'[t] = pc[t] /\ arg'[t] = arg[t]
    BY <1>1
  <1>3. pc'[Daemon] \in DaemonPc \cup {"arm", "link", "kick"}
    BY <1>2 DEF SoftInv, Places
  <1>4. \A t \in Thread : arg'[t] # ListHead <=> pc'[t] \in StartPc
    BY <1>2 DEF SoftInv, Places
  <1>5. \A t \in Thread \ {Daemon} : PlaceOf(t)'
    <2> TAKE t \in Thread \ {Daemon}
    <2>1. CASE t = Me
      BY <1>2, <2>1 DEF PlaceOf
    <2>2. CASE t # Me
      BY <1>2, <2>2 DEF SoftInv, Places, PlaceOf
    <2> QED  BY <2>1, <2>2
  <1> QED  BY <1>2, <1>3, <1>4, <1>5 DEF Places

\* The callback of a timer runs in the timer thread.
LEMMA CallInDaemon == SoftInv /\ At("call") => Me = Daemon
  <1> SUFFICES ASSUME SoftInv, At("call"), Me # Daemon PROVE FALSE
    OBVIOUS
  <1>1. Me \in Thread \ {Daemon}
    BY Types DEF Me
  <1>2. pc[Me] \in {"run"} \cup StartPc
    BY <1>1 DEF SoftInv, Places, PlaceOf
  <1> QED  BY <1>2 DEF At, StartPc

LEMMA StartBeginStep ==
    ASSUME OwnedFromBelow, SoftInv, NEW x \in Timer, StartBegin(x)
    PROVE  SoftInv'
  <1> USE Types
  <1> DEFINE l == RemoveFirst(list, x)
  <1>1. /\ MayUse(x) /\ list' = l /\ Goto("arm") /\ active' = active \ {x}
        /\ arg' = [arg EXCEPT ![Me] = x]
        /\ UNCHANGED <<k, tick, due, wake, loc, misread>>
    BY DEF StartBegin
  <1>2. /\ l \in Seq(Timer) /\ Distinct(l) /\ ToSet(l) = ToSet(list) \ {x}
        /\ list = << >> => l = << >>
    BY Unlinked
  <1> HIDE DEF l
  <1>3. Me \in Thread /\ Me' = Me /\ "arm" \in Pc /\ (Asleep' <=> Asleep)
    BY <1>1 DEF Me, Pc, StartPc, Asleep
  <1>4. ~ DaemonAt("blocked") /\ ~ At("pend") /\ ~ DaemonAt("loop")
    BY <1>1 DEF MayUse, DaemonAt, At
  <1>5. Scheduler' /\ OnProcessor' /\ DaemonState'
    BY <1>1, <1>3, <1>4, SameKernel
  <1>6. Me # Daemon => Me = Owner[x]
    BY <1>1, CallInDaemon DEF MayUse
  <1>7. Places' /\ pc' \in [Thread -> Pc] /\ arg' \in [Thread -> Timer \cup {ListHead}]
    <2>1. \A t \in Thread \ {Daemon} : pc[t] = "insert" => Asleep'
      BY <1>3 DEF SoftInv, Places, PlaceOf
    <2>2. "arm" \in StartPc /\ "arm" \in {"run"} \cup StartPc
      BY DEF StartPc
    <2> QED  BY <1>1, <1>3, <1>6, <2>1, <2>2, StepPlaces
  <1>8. TypeOK'
    BY <1>1, <1>2, <1>7 DEF SoftInv, TypeOK
  <1>9. /\ pc'[Me] = "arm" /\ arg'[Me] = x
        /\ \A t \in Thread : t # Me => pc'[t] = pc[t] /\ arg'[t] = arg[t]
    BY <1>1, <1>3 DEF Goto
  <1>10. AsleepWhenNone'
    <2>1. Kicked => Kicked'
      <3>1. pc[Me] \notin {"kick", "resume", "unlink", "insert"}
        BY <1>1 DEF MayUse, At
      <3> QED  BY <1>9, <3>1 DEF Kicked
    <2> QED  BY <1>1, <1>2, <1>3, <2>1 DEF SoftInv, Sleep, AsleepWhenNone
  <1>11. CASE Me # Daemon
    <2>1. Acting
      BY <1>1, <1>6, <1>11, CallInDaemon DEF MayUse, Acting
    <2>2. Cursor' /\ pc'[Daemon] # "suspend" /\ ~ InCallback'
      BY <1>1, <1>9, <1>11, <2>1, OwnerStep
    <2>3. Listing'
      <3> SUFFICES ASSUME NEW t \in Thread \ {Daemon},
                          pc'[t] \in {"arm", "link", "unflag"}
                   PROVE  arg'[t] \notin ToSet(list')
        BY <1>1, <1>2, <2>2 DEF Listing, Fires
      <3> QED  BY <1>1, <1>2, <1>9 DEF SoftInv, Listing
    <2> QED  BY <1>5, <1>7, <1>8, <1>10, <2>2, <2>3 DEF SoftInv, Sleep
  <1>12. CASE Me = Daemon
    <2>1. pc[Daemon] = "call" /\ loc.t = x /\ x \in Restarting
      BY <1>1, <1>12, SoftTimerAssumption DEF MayUse, At
    <2>2. InCallback /\ InCallback'
      BY <1>9, <1>12, <2>1 DEF InCallback, StartPc
    <2>3. Cursor'
      BY <1>1, <1>2, <1>9, <1>12, <2>1, <2>2 DEF SoftInv, Cursor
    <2>4. Listing'
      <3> SUFFICES ASSUME NEW t \in Thread \ {Daemon},
                          pc'[t] \in {"arm", "link", "unflag"}
                   PROVE  arg'[t] \notin ToSet(list') /\ ~ Fires(arg[t])'
        BY <1>1, <1>2 DEF Listing
      <3>1. arg[t] \notin ToSet(list) /\ ~ Fires(arg[t])
        BY <1>9, <1>12 DEF SoftInv, Listing
      <3> QED  BY <1>1, <1>2, <1>9, <1>12, <2>2, <3>1 DEF Fires
    <2> QED  BY <1>5, <1>7, <1>8, <1>9, <1>10, <1>12, <2>3, <2>4 DEF SoftInv, Sleep
  <1> QED  BY <1>11, <1>12

\* A step that leaves the list and the timer that fires alone.
LEMMA SameList ==
    ASSUME SoftInv, UNCHANGED <<list, loc>>, InCallback' => InCallback,
           \A t \in Thread \ {Daemon} :
               pc'[t] \in {"arm", "link", "unflag"} =>
                   pc[t] \in {"arm", "link", "unflag"} /\ arg'[t] = arg[t]
    PROVE  Listing'
  <1> SUFFICES ASSUME NEW t \in Thread \ {Daemon}, pc'[t] \in {"arm", "link", "unflag"}
               PROVE  arg'[t] \notin ToSet(list) /\ ~ (InCallback' /\ loc.t = arg'[t])
    BY DEF SoftInv, Listing, Fires
  <1>1. arg'[t] = arg[t] /\ arg[t] \notin ToSet(list) /\ ~ Fires(arg[t])
    BY DEF SoftInv, Listing
  <1> QED  BY <1>1 DEF Fires

\* While the timer thread runs, it is not asleep.
LEMMA DaemonAwake ==
    ASSUME SoftInv, Me = Daemon, pc[Daemon] # "blocked"
    PROVE  k.stat[Daemon] = "RUNNING" /\ ~ Asleep
  BY DEF SoftInv, OnProcessor, Me, DaemonAt, At, Asleep

\* The time of the timer is computed.
LEMMA StartArmStep ==
    ASSUME OwnedFromBelow, SoftInv, StartArm
    PROVE  SoftInv'
  <1> USE Types
  <1> DEFINE x == arg[Me]
  <1>1. /\ At("arm") /\ Goto("link")
        /\ due' = [due EXCEPT ![x] = (tick + Period[x]) % TickMod]
        /\ UNCHANGED <<k, tick, list, active, wake, arg, loc, misread>>
    BY DEF StartArm
  <1>2. Me \in Thread /\ Me' = Me /\ "link" \in Pc /\ (Asleep' <=> Asleep)
    BY <1>1 DEF Me, Pc, StartPc, Asleep
  <1>3. x \in Timer /\ arg' = [arg EXCEPT ![Me] = x]
    BY <1>1, <1>2 DEF SoftInv, Places, At, StartPc
  <1>4. ~ DaemonAt("blocked") /\ ~ At("pend") /\ ~ DaemonAt("loop")
    BY <1>1 DEF DaemonAt, At
  <1>5. Scheduler' /\ OnProcessor' /\ DaemonState'
    BY <1>1, <1>2, <1>4, SameKernel
  <1>6. Places' /\ pc' \in [Thread -> Pc] /\ arg' \in [Thread -> Timer \cup {ListHead}]
    <2>1. \A t \in Thread \ {Daemon} : pc[t] = "insert" => Asleep'
      BY <1>2 DEF SoftInv, Places, PlaceOf
    <2>2. "link" \in StartPc /\ "link" \in {"run"} \cup StartPc
      BY DEF StartPc
    <2>3. Me # Daemon => Me = Owner[x]
      BY <1>2, <1>3 DEF SoftInv, Places, PlaceOf
    <2> QED  BY <1>1, <1>2, <1>3, <2>1, <2>2, <2>3, StepPlaces
  <1>7. TypeOK'
    <2>1. (tick + Period[x]) % TickMod \in Tick
      <3>1. tick \in Int /\ Period[x] \in Int
        BY <1>3, SoftTimerAssumption DEF Tick
      <3> QED  BY <3>1, TickAssumption DEF Tick, TickMax
    <2>2. due' \in [Timer -> Tick]
      BY <1>1, <1>3, <2>1
    <2> QED  BY <1>1, <1>6, <2>2 DEF SoftInv, TypeOK
  <1>8. /\ pc[Me] = "arm" /\ pc'[Me] = "link"
        /\ \A t \in Thread : t # Me => pc'[t] = pc[t]
    BY <1>1, <1>2 DEF Goto, At
  <1>9. (InCallback' <=> InCallback) /\ (Kicked => Kicked')
    BY <1>8 DEF InCallback, StartPc, Kicked
  <1>10. Cursor'
    BY <1>1, <1>8, <1>9 DEF SoftInv, Cursor
  <1>11. Listing'
    BY <1>1, <1>8, <1>9, SameList
  <1>12. Sleep'
    BY <1>1, <1>2, <1>8, <1>9 DEF SoftInv, Sleep, AsleepWhenNone
  <1> QED  BY <1>5, <1>6, <1>7, <1>10, <1>11, <1>12 DEF SoftInv

\* The timer goes on the list.
LEMMA StartLinkStep ==
    ASSUME OwnedFromBelow, SoftInv, StartLink
    PROVE  SoftInv'
  <1> USE Types
  <1> DEFINE x == arg[Me]
             l == Linked(list, due, x)
  <1>1. /\ At("link") /\ Goto("kick") /\ list' = l
        /\ active' = active \cup {x}
        /\ UNCHANGED <<k, tick, due, wake, arg, loc, misread>>
    BY DEF StartLink
  <1>2. Me \in Thread /\ Me' = Me /\ "kick" \in Pc /\ (Asleep' <=> Asleep)
    BY <1>1 DEF Me, Pc, StartPc, Asleep
  <1>3. x \in Timer /\ arg' = [arg EXCEPT ![Me] = x]
    BY <1>1, <1>2 DEF SoftInv, Places, At, StartPc
  <1>4. x \notin ToSet(list)
    <2>1. CASE Me = Daemon
      BY <1>1, <1>3, <2>1 DEF SoftInv, Cursor, At
    <2>2. CASE Me # Daemon
      BY <1>1, <1>2, <2>2 DEF SoftInv, Listing, At
    <2> QED  BY <2>1, <2>2
  <1>5. l \in Seq(Timer) /\ Distinct(l) /\ ToSet(l) = ToSet(list) \cup {x}
    BY <1>3, <1>4, LinkedList
  <1> HIDE DEF l
  <1>6. Scheduler' /\ OnProcessor' /\ DaemonState'
    <2>1. ~ DaemonAt("blocked") /\ ~ At("pend") /\ ~ DaemonAt("loop")
      BY <1>1 DEF DaemonAt, At
    <2> QED  BY <1>1, <1>2, <2>1, SameKernel
  <1>7. Places' /\ pc' \in [Thread -> Pc] /\ arg' \in [Thread -> Timer \cup {ListHead}]
    <2>1. \A t \in Thread \ {Daemon} : pc[t] = "insert" => Asleep'
      BY <1>2 DEF SoftInv, Places, PlaceOf
    <2>2. "kick" \in StartPc /\ "kick" \in {"run"} \cup StartPc
      BY DEF StartPc
    <2>3. Me # Daemon => Me = Owner[x]
      BY <1>2, <1>3 DEF SoftInv, Places, PlaceOf
    <2> QED  BY <1>1, <1>2, <1>3, <2>1, <2>2, <2>3, StepPlaces
  <1>8. TypeOK'
    BY <1>1, <1>3, <1>5, <1>7 DEF SoftInv, TypeOK
  <1>9. /\ pc[Me] = "link" /\ pc'[Me] = "kick"
        /\ \A t \in Thread : t # Me => pc'[t] = pc[t]
    BY <1>1, <1>2 DEF Goto, At
  <1>10. Kicked'
    BY <1>2, <1>9 DEF Kicked
  <1>11. CASE Me # Daemon
    <2>1. Acting
      BY <1>9 DEF Acting, StartPc
    <2>2. Cursor' /\ pc'[Daemon] # "suspend" /\ ~ InCallback'
      BY <1>1, <1>9, <1>11, <2>1, OwnerStep
    <2>3. \A t \in Thread \ {Daemon} : pc'[t] \notin {"arm", "link", "unflag"}
      <3> SUFFICES ASSUME NEW t \in Thread \ {Daemon}, t # Me
                   PROVE  pc[t] \notin StartPc
        BY <1>9 DEF StartPc
      <3> QED  BY <1>2, <1>11, <2>1, OnlyOwner
    <2>4. Listing'
      BY <1>1, <1>5, <2>3 DEF Listing
    <2> QED
      BY <1>6, <1>7, <1>8, <1>10, <2>2, <2>4 DEF SoftInv, Sleep, AsleepWhenNone
  <1>12. CASE Me = Daemon
    <2>1. InCallback /\ InCallback' /\ x = loc.t /\ loc' = loc
      BY <1>1, <1>3, <1>9, <1>12 DEF InCallback, StartPc, SoftInv, Cursor
    <2>2. Cursor'
      BY <1>1, <1>5, <1>9, <1>12, <2>1 DEF SoftInv, Cursor
    <2>3. Listing'
      <3> SUFFICES ASSUME NEW t \in Thread \ {Daemon},
                          pc'[t] \in {"arm", "link", "unflag"}
                   PROVE  arg[t] \notin ToSet(list') /\ ~ (InCallback' /\ loc.t = arg[t])
        BY <1>1, <1>5, <2>1 DEF Listing, Fires
      <3>1. arg[t] \notin ToSet(list) /\ ~ Fires(arg[t])
        BY <1>9, <1>12 DEF SoftInv, Listing
      <3> QED  BY <1>1, <1>5, <2>1, <3>1 DEF Fires
    <2> QED
      BY <1>6, <1>7, <1>8, <1>9, <1>10, <1>12, <2>2, <2>3
         DEF SoftInv, Sleep, AsleepWhenNone
  <1> QED  BY <1>11, <1>12

\* A step of the owner that leaves the list alone.
LEMMA OwnerMoves ==
    ASSUME OwnedFromBelow, SoftInv, Me # Daemon, Acting, UNCHANGED <<list, loc>>,
           NEW l \in Pc \ {"arm", "link", "unflag"}, Goto(l),
           NEW a \in Timer \cup {ListHead}, arg' = [arg EXCEPT ![Me] = a]
    PROVE  Cursor' /\ Listing' /\ pc'[Daemon] # "suspend"
  <1> USE Types
  <1>1. /\ Me \in Thread /\ pc'[Me] = l
        /\ \A t \in Thread : t # Me => pc'[t] = pc[t] /\ arg'[t] = arg[t]
    BY DEF Me, Goto
  <1>2. Cursor' /\ pc'[Daemon] # "suspend" /\ ~ InCallback'
    BY <1>1, OwnerStep
  <1>3. Listing'
    BY <1>1, <1>2, SameList
  <1> QED  BY <1>2, <1>3

\* The look at the state of the timer thread.
LEMMA StartKickStep ==
    ASSUME OwnedFromBelow, SoftInv, StartKick
    PROVE  SoftInv'
  <1> USE Types
  <1>1. /\ At("kick") /\ ReturnIf(k.stat[Daemon] # "SUSPEND", "resume")
        /\ UNCHANGED <<k, tick, timerVars, wake, loc, misread>>
    BY DEF StartKick
  <1>2. Me \in Thread /\ Me' = Me /\ (Asleep' <=> Asleep) /\ pc[Me] = "kick"
    BY <1>1 DEF Me, Asleep, At
  <1>3. \A t \in Thread \ {Daemon} : pc[t] = "insert" => Asleep'
    BY <1>2 DEF SoftInv, Places, PlaceOf
  <1>4. ~ DaemonAt("blocked") /\ ~ At("pend") /\ ~ DaemonAt("loop")
    BY <1>1 DEF DaemonAt, At
  <1>5. CASE Me # Daemon
    <2>1. Acting
      BY <1>2 DEF Acting, StartPc
    <2>2. Suspended
      BY <1>5, <2>1, OwnerRuns
    <2>3. Goto("resume") /\ arg' = [arg EXCEPT ![Me] = arg[Me]] /\ arg[Me] \in Timer
      BY <1>1, <1>2, <2>2 DEF ReturnIf, Suspended, SoftInv, Places, StartPc
    <2>4. "resume" \in Pc \ {"arm", "link", "unflag"} /\ "resume" \in StartPc
      BY DEF Pc, StartPc
    <2>5. Scheduler' /\ OnProcessor' /\ DaemonState'
      BY <1>1, <1>4, <1>5, <2>3, <2>4, SameKernel
    <2>6. Me = Owner[arg[Me]]
      BY <1>2, <1>5, <2>3 DEF SoftInv, Places, PlaceOf
    <2>7. Places' /\ pc' \in [Thread -> Pc] /\ arg' \in [Thread -> Timer \cup {ListHead}]
      BY <1>3, <1>5, <2>3, <2>4, <2>6, StepPlaces
    <2>8. Cursor' /\ Listing' /\ pc'[Daemon] # "suspend"
      BY <1>1, <1>5, <2>1, <2>3, <2>4, OwnerMoves DEF timerVars
    <2>9. Kicked'
      BY <1>2, <2>3 DEF Kicked, Goto
    <2> QED
      BY <1>1, <2>5, <2>7, <2>8, <2>9
         DEF SoftInv, TypeOK, timerVars, Sleep, AsleepWhenNone
  <1>6. CASE Me = Daemon
    <2>1. k.stat[Daemon] = "RUNNING" /\ ~ Asleep
      BY <1>2, <1>6, DaemonAwake
    <2>2. Goto("called") /\ arg' = [arg EXCEPT ![Me] = ListHead]
      BY <1>1, <1>6, <2>1 DEF ReturnIf
    <2>3. "called" \in Pc /\ "called" \notin StartPc /\ "called" \in DaemonPc
      BY DEF Pc, StartPc, DaemonPc
    <2>4. Scheduler' /\ OnProcessor' /\ DaemonState'
      BY <1>1, <1>4, <2>2, <2>3, SameKernel
    <2>5. Places' /\ pc' \in [Thread -> Pc] /\ arg' \in [Thread -> Timer \cup {ListHead}]
      BY <1>3, <1>6, <2>2, <2>3, StepPlaces
    <2>6. /\ pc'[Daemon] = "called" /\ arg'[Daemon] = ListHead
          /\ \A t \in Thread \ {Daemon} : pc'[t] = pc[t] /\ arg'[t] = arg[t]
      BY <1>6, <2>2 DEF Goto
    <2>7. InCallback /\ InCallback'
      BY <1>2, <1>6, <2>6 DEF InCallback, StartPc
    <2>8. Cursor'
      BY <1>1, <2>6, <2>7 DEF SoftInv, Cursor, timerVars
    <2>9. Listing'
      BY <1>1, <2>6, <2>7, SameList DEF timerVars
    <2> QED
      BY <1>1, <1>2, <2>1, <2>4, <2>5, <2>6, <2>8, <2>9
         DEF SoftInv, TypeOK, timerVars, Sleep, AsleepWhenNone
  <1> QED  BY <1>5, <1>6

\* The three sections of rt_thread_resume and its caller's rt_schedule run in the
\* owner only: a callback finds the timer thread running.
LEMMA ResumeInOwner ==
    ASSUME SoftInv, NEW l \in {"resume", "unlink", "insert", "pend", "unflag"}, At(l)
    PROVE  /\ Me \in Thread \ {Daemon} /\ pc[Me] = l
           /\ arg[Me] \in Timer /\ Me = Owner[arg[Me]]
           /\ k.stat[Me] = "RUNNING" /\ pc[Daemon] # "loop" /\ k.lock = 0
  <1> USE Types
  <1>1. Me \in Thread \ {Daemon} /\ pc[Me] = l
    BY DEF At, Me, SoftInv, Places, DaemonPc
  <1>2. arg[Me] \in Timer /\ Me = Owner[arg[Me]]
    BY <1>1 DEF SoftInv, Places, PlaceOf, StartPc
  <1>3. k.stat[Me] = "RUNNING" /\ pc[Daemon] # "loop"
    BY <1>1, RunsWhenActing DEF DaemonAt
  <1> QED  BY <1>1, <1>2, <1>3 DEF SoftInv, OnProcessor, LockedInLoop

\* The test of rt_thread_resume.
LEMMA ResumeTestStep ==
    ASSUME OwnedFromBelow, SoftInv, ResumeTest
    PROVE  SoftInv'
  <1> USE Types
  <1>1. /\ At("resume") /\ Goto(IF k.stat[Daemon] = "SUSPEND" THEN "unlink" ELSE "pend")
        /\ UNCHANGED <<k, tick, timerVars, wake, arg, loc, misread>>
    BY DEF ResumeTest
  <1>2. /\ Me \in Thread \ {Daemon} /\ pc[Me] = "resume" /\ Me' = Me
        /\ arg[Me] \in Timer /\ Me = Owner[arg[Me]]
        /\ (Asleep' <=> Asleep)
    BY <1>1, ResumeInOwner DEF Me, Asleep
  <1>3. Acting
    BY <1>2 DEF Acting, StartPc
  <1>4. Goto("unlink")
    BY <1>1, <1>2, <1>3, OwnerRuns DEF Suspended
  <1>5. "unlink" \in Pc \ {"arm", "link", "unflag"} /\ "unlink" \in StartPc
    BY DEF Pc, StartPc
  <1>6. Scheduler' /\ OnProcessor' /\ DaemonState'
    <2>1. ~ DaemonAt("blocked") /\ ~ At("pend") /\ ~ DaemonAt("loop")
      BY <1>2 DEF DaemonAt, At
    <2> QED  BY <1>1, <1>2, <1>4, <1>5, <2>1, SameKernel
  <1>7. arg' = [arg EXCEPT ![Me] = arg[Me]]
    BY <1>1
  <1>8. Places' /\ pc' \in [Thread -> Pc] /\ arg' \in [Thread -> Timer \cup {ListHead}]
    <2>1. \A t \in Thread \ {Daemon} : pc[t] = "insert" => Asleep'
      BY <1>2 DEF SoftInv, Places, PlaceOf
    <2> QED  BY <1>2, <1>4, <1>5, <1>7, <2>1, StepPlaces
  <1>9. Cursor' /\ Listing' /\ pc'[Daemon] # "suspend"
    BY <1>1, <1>2, <1>3, <1>4, <1>5, <1>7, OwnerMoves DEF timerVars
  <1>10. Kicked'
    BY <1>2, <1>4 DEF Kicked, Goto
  <1> QED
    BY <1>1, <1>6, <1>8, <1>9, <1>10
       DEF SoftInv, TypeOK, timerVars, Sleep, AsleepWhenNone

\* The section that stops the delay of the timer thread.
LEMMA ResumeUnlinkStep ==
    ASSUME OwnedFromBelow, SoftInv, ResumeUnlink
    PROVE  SoftInv'
  <1> USE Types
  <1> DEFINE m == ResumeOff(k, Daemon)
  <1>1. /\ At("unlink") /\ Goto("insert") /\ k' = m /\ wake' = 0
        /\ UNCHANGED <<tick, timerVars, arg, loc, misread>>
    BY DEF ResumeUnlink
  <1>2. /\ Me \in Thread \ {Daemon} /\ pc[Me] = "unlink"
        /\ arg[Me] \in Timer /\ Me = Owner[arg[Me]]
        /\ k.stat[Me] = "RUNNING" /\ pc[Daemon] # "loop" /\ k.lock = 0
    BY <1>1, ResumeInOwner
  <1>3. Acting
    BY <1>2 DEF Acting, StartPc
  <1>4. Suspended /\ pc[Daemon] \in {"blocked", "check"}
    BY <1>2, <1>3, OwnerRuns
  <1>5. /\ m \in KernelState /\ KernelOK(m)
        /\ m.cur = k.cur /\ m.prio = k.prio /\ m.lock = k.lock
        /\ m.stat = k.stat /\ m.tmr = k.tmr \ {Daemon}
    BY <1>4, ResumeOffEffect DEF Suspended
  <1> HIDE DEF m
  <1>6. /\ Me' = Me /\ pc'[Me] = "insert"
        /\ \A t \in Thread : t # Me => pc'[t] = pc[t]
        /\ k'.stat = k.stat /\ k'.tmr = {} /\ k'.lock = 0 /\ Asleep'
    BY <1>1, <1>2, <1>4, <1>5 DEF Me, Goto, SoftInv, Scheduler, Asleep, Suspended
  <1>7. Scheduler'
    BY <1>1, <1>5, <1>6 DEF SoftInv, Scheduler
  <1>8. OnProcessor'
    BY <1>2, <1>6 DEF OnProcessor, LockedInLoop
  <1>9. DaemonState'
    BY <1>2, <1>4, <1>6 DEF DaemonState, Suspended
  <1>10. "insert" \in Pc \ {"arm", "link", "unflag"} /\ "insert" \in StartPc
    BY DEF Pc, StartPc
  <1>11. arg' = [arg EXCEPT ![Me] = arg[Me]]
    BY <1>1
  <1>12. Places' /\ pc' \in [Thread -> Pc] /\ arg' \in [Thread -> Timer \cup {ListHead}]
    BY <1>1, <1>2, <1>6, <1>10, <1>11, StepPlaces
  <1>13. Cursor' /\ Listing' /\ pc'[Daemon] # "suspend"
    BY <1>1, <1>2, <1>3, <1>10, <1>11, OwnerMoves DEF timerVars
  <1>14. Kicked'
    BY <1>2, <1>6 DEF Kicked
  <1>15. TypeOK'
    <2>1. wake' \in Tick /\ k' \in KernelState
      BY <1>1, <1>5, TickAssumption DEF Tick, TickMax
    <2> QED  BY <1>1, <1>12, <2>1 DEF SoftInv, TypeOK, timerVars
  <1> QED
    BY <1>7, <1>8, <1>9, <1>12, <1>13, <1>14, <1>15 DEF SoftInv, Sleep, AsleepWhenNone

\* The insertion of the timer thread into a ready list.
LEMMA ResumeInsertStep ==
    ASSUME OwnedFromBelow, SoftInv, ResumeInsert
    PROVE  SoftInv'
  <1> USE Types
  <1> DEFINE m == InsertThread(k, Daemon)
  <1>1. /\ At("insert") /\ Goto("pend") /\ k' = m
        /\ UNCHANGED <<tick, timerVars, wake, arg, loc, misread>>
    BY DEF ResumeInsert
  <1>2. /\ Me \in Thread \ {Daemon} /\ pc[Me] = "insert"
        /\ arg[Me] \in Timer /\ Me = Owner[arg[Me]]
        /\ k.stat[Me] = "RUNNING" /\ pc[Daemon] # "loop" /\ k.lock = 0
    BY <1>1, ResumeInOwner
  <1>3. Acting
    BY <1>2 DEF Acting, StartPc
  <1>4. k.stat[Daemon] = "SUSPEND" /\ Asleep
    BY <1>2 DEF SoftInv, Places, PlaceOf, Asleep
  <1>5. QueuesOK(k) /\ Me = k.cur
    BY DEF KernelOK, QueuesOK, Me
  <1>6. /\ m \in KernelState /\ QueuesOK(m)
        /\ m.cur = k.cur /\ m.prio = k.prio /\ m.lock = k.lock /\ m.tmr = k.tmr
        /\ m.stat = [k.stat EXCEPT ![Daemon] = IF Daemon = k.cur THEN "RUNNING" ELSE "READY"]
    <2>1. k.stat[Daemon] # "READY"
      BY <1>4
    <2> QED  BY <1>5, <2>1, InsertThreadQueues
  <1> HIDE DEF m
  <1>7. m.stat[Daemon] = "READY" /\ \A t \in Thread : t # Daemon => m.stat[t] = k.stat[t]
    BY <1>2, <1>5, <1>6
  <1>8. KernelOK(m)
    <2>1. OneRunning(m)
      BY <1>2, <1>5, <1>6, <1>7 DEF OneRunning
    <2> QED  BY <1>6, <2>1 DEF KernelOK, QueuesOK
  <1>9. /\ Me' = Me /\ pc'[Me] = "pend"
        /\ \A t \in Thread : t # Me => pc'[t] = pc[t]
        /\ k.tmr = {} /\ ~ Asleep'
    BY <1>1, <1>2, <1>4, <1>6, <1>7 DEF Me, Goto, SoftInv, Scheduler, Asleep
  <1>10. Scheduler'
    BY <1>1, <1>6, <1>7, <1>8, <1>9 DEF SoftInv, Scheduler
  <1>11. OnProcessor'
    <2>1. k'.stat[Me] = "RUNNING" /\ k'.lock = 0 /\ pc'[Daemon] # "loop"
      BY <1>1, <1>2, <1>6, <1>7, <1>9
    <2> QED  BY <1>9, <2>1 DEF OnProcessor, LockedInLoop
  <1>12. DaemonState'
    BY <1>1, <1>7, <1>9 DEF DaemonState, Suspended, At
  <1>13. "pend" \in Pc \ {"arm", "link", "unflag"} /\ "pend" \in StartPc
    BY DEF Pc, StartPc
  <1>14. arg' = [arg EXCEPT ![Me] = arg[Me]]
    BY <1>1
  <1>15. Places' /\ pc' \in [Thread -> Pc] /\ arg' \in [Thread -> Timer \cup {ListHead}]
    <2>1. ASSUME NEW t \in Thread \ {Daemon}, t # Me PROVE pc[t] # "insert"
      BY <1>2, <1>3, <2>1, OnlyOwner DEF StartPc
    <2> QED  BY <1>1, <1>2, <1>13, <1>14, <2>1, StepPlaces
  <1>16. Cursor' /\ Listing' /\ pc'[Daemon] # "suspend"
    BY <1>1, <1>2, <1>3, <1>13, <1>14, OwnerMoves DEF timerVars
  <1>17. TypeOK'
    BY <1>1, <1>6, <1>15 DEF SoftInv, TypeOK, timerVars
  <1> QED
    BY <1>9, <1>10, <1>11, <1>12, <1>15, <1>16, <1>17 DEF SoftInv, Sleep, AsleepWhenNone

\* The rt_schedule at the end of rt_timer_start.
LEMMA StartScheduleStep ==
    ASSUME OwnedFromBelow, SoftInv, StartSchedule
    PROVE  SoftInv'
  <1> USE Types
  <1>1. /\ At("pend") /\ Return /\ k' = Schedule(k)
        /\ UNCHANGED <<tick, timerVars, wake, loc, misread>>
    BY DEF StartSchedule
  <1>2. /\ Me \in Thread \ {Daemon} /\ pc[Me] = "pend"
        /\ k.stat[Me] = "RUNNING" /\ pc[Daemon] # "loop" /\ k.lock = 0
    BY <1>1, ResumeInOwner
  <1>3. Goto("run") /\ arg' = [arg EXCEPT ![Me] = ListHead]
    BY <1>1, <1>2 DEF Return, ReturnIf
  <1>4. /\ pc'[Me] = "run"
        /\ \A t \in Thread : t # Me => pc'[t] = pc[t] /\ arg'[t] = arg[t]
    BY <1>2, <1>3 DEF Goto
  <1>5. /\ Scheduler' /\ OnProcessor' /\ DaemonState'
        /\ k' \in KernelState /\ k'.tmr = k.tmr
        /\ k'.stat[Daemon] = "SUSPEND" <=> k.stat[Daemon] = "SUSPEND"
    <2>1. /\ k.prio = BasePrio /\ k.stat[Idle] \in {"READY", "RUNNING"}
          /\ \A t \in k.tmr : t = Daemon /\ k.stat[Daemon] = "SUSPEND"
          /\ k.stat[Daemon] \in {"READY", "RUNNING", "SUSPEND"}
          /\ k.stat[Daemon] = "SUSPEND" => pc'[Daemon] \in {"blocked", "check"}
          /\ pc'[Daemon] # "loop"
      BY <1>2, <1>4 DEF SoftInv, Scheduler, DaemonState, Suspended
    <2> QED  BY <1>1, <1>2, <2>1, AfterSchedule, SoftTimerAssumption
  <1>6. Asleep' <=> Asleep
    BY <1>5 DEF Asleep
  <1>7. Places' /\ pc' \in [Thread -> Pc] /\ arg' \in [Thread -> Timer \cup {ListHead}]
    <2>1. \A t \in Thread \ {Daemon} : pc[t] = "insert" => Asleep'
      BY <1>6 DEF SoftInv, Places, PlaceOf
    <2>2. "run" \in Pc /\ "run" \notin StartPc
      BY DEF Pc, StartPc
    <2> QED  BY <1>2, <1>3, <2>1, <2>2, StepPlaces
  <1>8. (InCallback' <=> InCallback) /\ (Kicked => Kicked')
    BY <1>2, <1>4 DEF InCallback, Kicked
  <1>9. Cursor'
    BY <1>1, <1>2, <1>4, <1>8 DEF SoftInv, Cursor, timerVars
  <1>10. Listing'
    BY <1>1, <1>4, <1>8, SameList DEF timerVars
  <1>11. Sleep'
    BY <1>1, <1>2, <1>4, <1>6, <1>8 DEF SoftInv, Sleep, AsleepWhenNone, timerVars
  <1>12. TypeOK'
    BY <1>1, <1>5, <1>7 DEF SoftInv, TypeOK, timerVars
  <1> QED  BY <1>5, <1>7, <1>9, <1>10, <1>11, <1>12 DEF SoftInv

\* rt_timer_stop takes the timer off the list.
LEMMA StopBeginStep ==
    ASSUME OwnedFromBelow, SoftInv, NEW x \in Timer, StopBegin(x)
    PROVE  SoftInv'
  <1> USE Types
  <1> DEFINE l == RemoveFirst(list, x)
  <1>1. /\ At("run") /\ Owner[x] = Me /\ list' = l /\ Goto("unflag")
        /\ arg' = [arg EXCEPT ![Me] = x]
        /\ UNCHANGED <<k, tick, due, active, wake, loc, misread>>
    BY DEF StopBegin
  <1>2. /\ l \in Seq(Timer) /\ Distinct(l) /\ ToSet(l) = ToSet(list) \ {x}
        /\ list = << >> => l = << >>
    BY Unlinked
  <1> HIDE DEF l
  <1>3. /\ Me \in Thread \ {Daemon} /\ Me' = Me /\ (Asleep' <=> Asleep)
        /\ "unflag" \in Pc /\ "unflag" \in StartPc /\ Acting
    BY <1>1, SoftTimerAssumption DEF Me, Pc, StartPc, Asleep, Acting
  <1>4. Scheduler' /\ OnProcessor' /\ DaemonState'
    <2>1. ~ DaemonAt("blocked") /\ ~ At("pend") /\ ~ DaemonAt("loop")
      BY <1>1 DEF DaemonAt, At
    <2> QED  BY <1>1, <1>3, <2>1, SameKernel
  <1>5. Places' /\ pc' \in [Thread -> Pc] /\ arg' \in [Thread -> Timer \cup {ListHead}]
    <2>1. \A t \in Thread \ {Daemon} : pc[t] = "insert" => Asleep'
      BY <1>3 DEF SoftInv, Places, PlaceOf
    <2> QED  BY <1>1, <1>3, <2>1, StepPlaces
  <1>6. TypeOK'
    BY <1>1, <1>2, <1>5 DEF SoftInv, TypeOK
  <1>7. /\ pc[Me] = "run" /\ pc'[Me] = "unflag" /\ arg'[Me] = x
        /\ \A t \in Thread : t # Me => pc'[t] = pc[t] /\ arg'[t] = arg[t]
    BY <1>1, <1>3 DEF Goto, At
  <1>8. Cursor' /\ pc'[Daemon] # "suspend" /\ ~ InCallback'
    BY <1>1, <1>3, <1>7, OwnerStep
  <1>9. Listing'
    <2> SUFFICES ASSUME NEW t \in Thread \ {Daemon},
                        pc'[t] \in {"arm", "link", "unflag"}
                 PROVE  arg'[t] \notin ToSet(list')
      BY <1>1, <1>2, <1>8 DEF Listing, Fires
    <2> QED  BY <1>1, <1>2, <1>7 DEF SoftInv, Listing
  <1>10. AsleepWhenNone'
    <2>1. Kicked => Kicked'
      BY <1>7 DEF Kicked
    <2> QED  BY <1>1, <1>2, <1>3, <2>1 DEF SoftInv, Sleep, AsleepWhenNone
  <1> QED  BY <1>4, <1>5, <1>6, <1>8, <1>9, <1>10 DEF SoftInv, Sleep

\* rt_timer_stop clears the flag and returns.
LEMMA StopEndStep ==
    ASSUME OwnedFromBelow, SoftInv, StopEnd
    PROVE  SoftInv'
  <1> USE Types
  <1>1. /\ At("unflag") /\ Return /\ active' = active \ {arg[Me]}
        /\ UNCHANGED <<k, tick, list, due, wake, loc, misread>>
    BY DEF StopEnd
  <1>2. Me \in Thread \ {Daemon} /\ pc[Me] = "unflag" /\ Me' = Me /\ (Asleep' <=> Asleep)
    BY <1>1, ResumeInOwner DEF Me, Asleep
  <1>3. /\ Goto("run") /\ arg' = [arg EXCEPT ![Me] = ListHead]
        /\ "run" \in Pc \ {"arm", "link", "unflag"} /\ "run" \notin StartPc /\ Acting
    BY <1>1, <1>2 DEF Return, ReturnIf, Pc, StartPc, Acting
  <1>4. Scheduler' /\ OnProcessor' /\ DaemonState'
    <2>1. ~ DaemonAt("blocked") /\ ~ At("pend") /\ ~ DaemonAt("loop")
      BY <1>2 DEF DaemonAt, At
    <2> QED  BY <1>1, <1>2, <1>3, <2>1, SameKernel
  <1>5. Places' /\ pc' \in [Thread -> Pc] /\ arg' \in [Thread -> Timer \cup {ListHead}]
    <2>1. \A t \in Thread \ {Daemon} : pc[t] = "insert" => Asleep'
      BY <1>2 DEF SoftInv, Places, PlaceOf
    <2> QED  BY <1>2, <1>3, <2>1, StepPlaces
  <1>6. Cursor' /\ Listing' /\ pc'[Daemon] # "suspend"
    BY <1>1, <1>2, <1>3, OwnerMoves
  <1>7. Kicked => Kicked'
    BY <1>2, <1>3 DEF Kicked, Goto
  <1>8. TypeOK'
    BY <1>1, <1>5 DEF SoftInv, TypeOK
  <1> QED  BY <1>1, <1>2, <1>4, <1>5, <1>6, <1>7, <1>8 DEF SoftInv, Sleep, AsleepWhenNone

-----------------------------------------------------------------------------
(* Steps of the timer thread *)

\* The timer thread goes on, and nobody is about to insert it into a ready list.
LEMMA DaemonPlaces ==
    ASSUME SoftInv, Me = Daemon, pc[Daemon] \notin StartPc, Asleep => Asleep',
           NEW l \in DaemonPc, Goto(l), UNCHANGED arg
    PROVE  /\ Places' /\ pc' \in [Thread -> Pc] /\ arg' \in [Thread -> Timer \cup {ListHead}]
           /\ pc'[Daemon] = l /\ arg[Daemon] = ListHead
           /\ \A t \in Thread \ {Daemon} : pc'[t] = pc[t]
           /\ Kicked => Kicked'
  <1> USE Types
  <1>1. l \in Pc /\ l \notin StartPc
    BY DEF Pc, DaemonPc, StartPc
  <1>2. arg[Daemon] = ListHead /\ arg' = [arg EXCEPT ![Me] = ListHead]
    BY DEF SoftInv, Places
  <1>3. \A t \in Thread \ {Daemon} : pc[t] = "insert" => Asleep'
    BY DEF SoftInv, Places, PlaceOf
  <1>4. Places' /\ pc' \in [Thread -> Pc] /\ arg' \in [Thread -> Timer \cup {ListHead}]
    BY <1>1, <1>2, <1>3, StepPlaces
  <1>5. pc'[Daemon] = l /\ \A t \in Thread \ {Daemon} : pc'[t] = pc[t]
    BY DEF Goto
  <1>6. Kicked => Kicked'
    BY <1>5 DEF Kicked, StartPc
  <1> QED  BY <1>2, <1>4, <1>5, <1>6

\* A step that reads and computes.
LEMMA DaemonLocal ==
    ASSUME SoftInv, NEW p \in DaemonPc \ {"blocked", "loop"}, DaemonAt(p),
           NEW l \in DaemonPc \ {"loop"}, Goto(l),
           UNCHANGED <<k, tick, timerVars, wake, arg>>,
           misread' \in BOOLEAN,
           loc' \in [nt : Tick, ct : Tick, n : Timer \cup {ListHead},
                     t : Timer \cup {ListHead}]
    PROVE  /\ TypeOK' /\ Scheduler' /\ OnProcessor' /\ DaemonState' /\ Places'
           /\ AsleepWhenNone' /\ pc'[Daemon] = l /\ arg'[Daemon] = ListHead
           /\ \A t \in Thread \ {Daemon} : pc'[t] = pc[t] /\ arg'[t] = arg[t]
  <1> USE Types
  <1>1. Me = Daemon /\ pc[Daemon] = p /\ p \notin StartPc /\ l \in Pc
    BY DEF DaemonAt, At, DaemonPc, StartPc, Pc
  <1>2. ~ Asleep /\ ~ Asleep'
    BY <1>1, DaemonAwake DEF Asleep
  <1>3. /\ Places' /\ pc' \in [Thread -> Pc] /\ arg' \in [Thread -> Timer \cup {ListHead}]
        /\ pc'[Daemon] = l /\ arg[Daemon] = ListHead
        /\ \A t \in Thread \ {Daemon} : pc'[t] = pc[t]
    BY <1>1, <1>2, DaemonPlaces
  <1>4. Scheduler' /\ OnProcessor' /\ DaemonState'
    <2>1. ~ DaemonAt("blocked") /\ ~ At("pend") /\ ~ DaemonAt("loop")
      BY <1>1 DEF DaemonAt, At, StartPc
    <2> QED  BY <1>1, <2>1, SameKernel
  <1>5. TypeOK'
    BY <1>3 DEF SoftInv, TypeOK, timerVars
  <1> QED  BY <1>2, <1>3, <1>4, <1>5 DEF AsleepWhenNone

\* Outside of a callback there is little to say.
LEMMA NoCallback ==
    ASSUME SoftInv, ~ InCallback', pc'[Daemon] # "loop", arg'[Daemon] = ListHead,
           UNCHANGED list,
           \A t \in Thread \ {Daemon} : pc'[t] = pc[t] /\ arg'[t] = arg[t]
    PROVE  Cursor' /\ Listing'
  <1>1. Cursor'
    BY DEF Cursor, InCallback, StartPc
  <1>2. Listing'
    BY DEF SoftInv, Listing, Fires
  <1> QED  BY <1>1, <1>2

\* rt_timer_list_next_timeout and the computation of the delay.
LEMMA NextTestStep ==
    ASSUME SoftInv, NextTest
    PROVE  SoftInv'
  <1> USE Types
  <1>1. /\ DaemonAt("top") /\ misread' = FALSE
        /\ UNCHANGED <<k, tick, timerVars, wake, arg>>
    BY DEF NextTest
  <1>2. PICK l \in {"suspend", "peek"} :
            Goto(l) /\ (l = "suspend" => list = << >>)
            /\ loc' \in [nt : Tick, ct : Tick, n : Timer \cup {ListHead},
                         t : Timer \cup {ListHead}]
    <2>1. TickMax \in Tick
      BY TickAssumption DEF Tick, TickMax
    <2>2. CASE list = << >>
      BY <2>1, <2>2 DEF NextTest
    <2>3. CASE list # << >>
      BY <2>3 DEF NextTest
    <2> QED  BY <2>2, <2>3
  <1>3. "top" \in DaemonPc \ {"blocked", "loop"} /\ l \in DaemonPc \ {"loop"}
    BY DEF DaemonPc
  <1>4. /\ TypeOK' /\ Scheduler' /\ OnProcessor' /\ DaemonState' /\ Places'
        /\ AsleepWhenNone' /\ pc'[Daemon] = l /\ arg'[Daemon] = ListHead
        /\ \A t \in Thread \ {Daemon} : pc'[t] = pc[t] /\ arg'[t] = arg[t]
    BY <1>1, <1>2, <1>3, DaemonLocal
  <1>5. Cursor' /\ Listing'
    BY <1>1, <1>4, NoCallback DEF InCallback, StartPc, timerVars
  <1> QED  BY <1>1, <1>2, <1>4, <1>5 DEF SoftInv, Sleep, timerVars

LEMMA NextPeekStep ==
    ASSUME SoftInv, NextPeek
    PROVE  SoftInv'
  <1> USE Types
  <1>1. DaemonAt("peek") /\ UNCHANGED <<k, tick, timerVars, wake, arg>>
    BY DEF NextPeek
  <1>2. PICK v \in IF list = << >> THEN Tick ELSE {due[list[1]]} :
            /\ loc' = [loc EXCEPT !.nt = v]
            /\ Goto(IF v = TickMax THEN "suspend" ELSE "now")
            /\ misread' = (v = TickMax)
    BY DEF NextPeek
  <1>3. v \in Tick
    <2>1. CASE list # << >>
      <3>1. list[1] \in Timer
        BY <2>1, EmptySeq, LenProperties, ElementOfSeq
      <3> QED  BY <2>1, <3>1
    <2> QED  BY <2>1
  <1>4. PICK l \in {"suspend", "now"} : Goto(l) /\ (l = "suspend" => misread')
    <2>1. CASE v = TickMax
      BY <1>2, <2>1
    <2>2. CASE v # TickMax
      BY <1>2, <2>2
    <2> QED  BY <2>1, <2>2
  <1>5. /\ misread' \in BOOLEAN
        /\ loc' \in [nt : Tick, ct : Tick, n : Timer \cup {ListHead},
                     t : Timer \cup {ListHead}]
    BY <1>2, <1>3
  <1>6. "peek" \in DaemonPc \ {"blocked", "loop"} /\ l \in DaemonPc \ {"loop"}
    BY DEF DaemonPc
  <1>7. /\ TypeOK' /\ Scheduler' /\ OnProcessor' /\ DaemonState' /\ Places'
        /\ AsleepWhenNone' /\ pc'[Daemon] = l /\ arg'[Daemon] = ListHead
        /\ \A t \in Thread \ {Daemon} : pc'[t] = pc[t] /\ arg'[t] = arg[t]
    BY <1>1, <1>4, <1>5, <1>6, DaemonLocal
  <1>8. Cursor' /\ Listing'
    BY <1>1, <1>7, NoCallback DEF InCallback, StartPc, timerVars
  <1> QED  BY <1>4, <1>7, <1>8 DEF SoftInv, Sleep

LEMMA NextDeltaStep ==
    ASSUME SoftInv, NextDelta
    PROVE  SoftInv'
  <1> USE Types
  <1>1. DaemonAt("now") /\ UNCHANGED <<k, tick, timerVars, wake, arg, misread>>
    BY DEF NextDelta
  <1>2. PICK l \in {"delay", "check"} :
            /\ Goto(l)
            /\ loc' \in [nt : Tick, ct : Tick, n : Timer \cup {ListHead},
                         t : Timer \cup {ListHead}]
    <2>1. (loc.nt - tick) % TickMod \in Tick
      <3>1. loc.nt \in Int /\ tick \in Int
        BY DEF Tick
      <3> QED  BY <3>1, TickAssumption DEF Tick, TickMax
    <2>2. CASE Within(loc.nt, tick)
      BY <2>1, <2>2 DEF NextDelta
    <2>3. CASE ~ Within(loc.nt, tick)
      BY <2>3 DEF NextDelta
    <2> QED  BY <2>2, <2>3
  <1>3. "now" \in DaemonPc \ {"blocked", "loop"} /\ l \in DaemonPc \ {"loop"}
    BY DEF DaemonPc
  <1>4. misread' \in BOOLEAN
    BY <1>1 DEF SoftInv, TypeOK
  <1>5. /\ TypeOK' /\ Scheduler' /\ OnProcessor' /\ DaemonState' /\ Places'
        /\ AsleepWhenNone' /\ pc'[Daemon] = l /\ arg'[Daemon] = ListHead
        /\ \A t \in Thread \ {Daemon} : pc'[t] = pc[t] /\ arg'[t] = arg[t]
    BY <1>1, <1>2, <1>3, <1>4, DaemonLocal
  <1>6. Cursor' /\ Listing'
    BY <1>1, <1>5, NoCallback DEF InCallback, StartPc, timerVars
  <1> QED  BY <1>5, <1>6 DEF SoftInv, Sleep

\* rt_soft_timer_check reads the tick.
LEMMA CheckTickStep ==
    ASSUME SoftInv, CheckTick
    PROVE  SoftInv'
  <1> USE Types
  <1>1. /\ DaemonAt("check") /\ Goto("lock") /\ loc' = [NoLocals EXCEPT !.ct = tick]
        /\ UNCHANGED <<k, tick, timerVars, wake, arg, misread>>
    BY DEF CheckTick
  <1>2. /\ misread' \in BOOLEAN
        /\ loc' \in [nt : Tick, ct : Tick, n : Timer \cup {ListHead},
                     t : Timer \cup {ListHead}]
    <2>1. 0 \in Tick
      BY TickAssumption DEF Tick, TickMax
    <2> QED  BY <1>1, <2>1 DEF SoftInv, TypeOK, NoLocals
  <1>3. "check" \in DaemonPc \ {"blocked", "loop"} /\ "lock" \in DaemonPc \ {"loop"}
    BY DEF DaemonPc
  <1>4. /\ TypeOK' /\ Scheduler' /\ OnProcessor' /\ DaemonState' /\ Places'
        /\ AsleepWhenNone' /\ pc'[Daemon] = "lock" /\ arg'[Daemon] = ListHead
        /\ \A t \in Thread \ {Daemon} : pc'[t] = pc[t] /\ arg'[t] = arg[t]
    BY <1>1, <1>2, <1>3, DaemonLocal
  <1>5. Cursor' /\ Listing'
    BY <1>1, <1>4, NoCallback DEF InCallback, StartPc, timerVars
  <1> QED  BY <1>4, <1>5 DEF SoftInv, Sleep

\* The callback returns, and the tick is read again.
LEMMA CallbackReturnStep ==
    ASSUME SoftInv, CallbackReturn
    PROVE  SoftInv'
  <1> USE Types
  <1>1. /\ DaemonAt("call") /\ Goto("called")
        /\ UNCHANGED <<k, tick, timerVars, wake, arg, loc, misread>>
    BY DEF CallbackReturn
  <1>2. "call" \in DaemonPc \ {"blocked", "loop"} /\ "called" \in DaemonPc \ {"loop"}
    BY DEF DaemonPc
  <1>3. misread' \in BOOLEAN
    BY <1>1 DEF SoftInv, TypeOK
  <1>4. /\ TypeOK' /\ Scheduler' /\ OnProcessor' /\ DaemonState' /\ Places'
        /\ AsleepWhenNone' /\ pc'[Daemon] = "called" /\ arg'[Daemon] = ListHead
        /\ \A t \in Thread \ {Daemon} : pc'[t] = pc[t] /\ arg'[t] = arg[t]
    BY <1>1, <1>2, <1>3, DaemonLocal
  <1>5. InCallback /\ InCallback'
    BY <1>1, <1>4 DEF InCallback, DaemonAt, At
  <1>6. Cursor'
    BY <1>1, <1>4, <1>5 DEF SoftInv, Cursor, timerVars
  <1>7. Listing'
    BY <1>1, <1>4, <1>5, SameList DEF timerVars
  <1> QED  BY <1>4, <1>6, <1>7 DEF SoftInv, Sleep

LEMMA CheckAgainStep ==
    ASSUME SoftInv, CheckAgain
    PROVE  SoftInv'
  <1> USE Types
  <1>1. /\ DaemonAt("called") /\ Goto("relock") /\ loc' = [loc EXCEPT !.ct = tick]
        /\ UNCHANGED <<k, tick, timerVars, wake, arg, misread>>
    BY DEF CheckAgain
  <1>2. "called" \in DaemonPc \ {"blocked", "loop"} /\ "relock" \in DaemonPc \ {"loop"}
    BY DEF DaemonPc
  <1>3. /\ misread' \in BOOLEAN /\ loc'.n = loc.n /\ loc'.t = loc.t
        /\ loc' \in [nt : Tick, ct : Tick, n : Timer \cup {ListHead},
                     t : Timer \cup {ListHead}]
    BY <1>1 DEF SoftInv, TypeOK
  <1>4. /\ TypeOK' /\ Scheduler' /\ OnProcessor' /\ DaemonState' /\ Places'
        /\ AsleepWhenNone' /\ pc'[Daemon] = "relock" /\ arg'[Daemon] = ListHead
        /\ \A t \in Thread \ {Daemon} : pc'[t] = pc[t] /\ arg'[t] = arg[t]
    BY <1>1, <1>2, <1>3, DaemonLocal
  <1>5. InCallback /\ InCallback'
    BY <1>1, <1>4 DEF InCallback, DaemonAt, At
  <1>6. Cursor'
    BY <1>1, <1>3, <1>4, <1>5 DEF SoftInv, Cursor, timerVars
  <1>7. Listing'
    BY <1>1, <1>3, <1>4, <1>5 DEF SoftInv, Listing, Fires, timerVars
  <1> QED  BY <1>4, <1>6, <1>7 DEF SoftInv, Sleep

\* rt_thread_suspend of the timer thread by itself, with or without a delay.
LEMMA GoesToSleep ==
    ASSUME SoftInv, NEW p \in {"suspend", "delay"}, DaemonAt(p),
           Goto("blocked"), UNCHANGED arg,
           k' = Suspend(k, Daemon) \/ k' = StartTimer(Suspend(k, Daemon), Daemon)
    PROVE  /\ Scheduler' /\ OnProcessor' /\ DaemonState' /\ Places'
           /\ k' \in KernelState /\ pc' \in [Thread -> Pc]
           /\ arg' \in [Thread -> Timer \cup {ListHead}]
           /\ k' = StartTimer(Suspend(k, Daemon), Daemon) => ~ Asleep'
           /\ pc'[Daemon] = "blocked" /\ arg'[Daemon] = ListHead
           /\ \A t \in Thread \ {Daemon} : pc'[t] = pc[t] /\ arg'[t] = arg[t]
  <1> USE Types
  <1> DEFINE m == Suspend(k, Daemon)
             n == StartTimer(m, Daemon)
  <1>1. /\ Me = Daemon /\ pc[Daemon] = p /\ p \notin StartPc /\ "blocked" \in DaemonPc
        /\ k.cur = Daemon
    BY DEF DaemonAt, At, DaemonPc, StartPc, Me
  <1>2. k.stat[Daemon] = "RUNNING" /\ ~ Asleep
    BY <1>1, DaemonAwake
  <1>3. /\ m \in KernelState /\ KernelOK(m)
        /\ m.cur = k.cur /\ m.prio = k.prio /\ m.lock = k.lock
        /\ m.stat = [k.stat EXCEPT ![Daemon] = "SUSPEND"]
        /\ m.tmr = k.tmr \ {Daemon}
    BY <1>2, SuspendEffect
  <1> HIDE DEF m
  <1>4. /\ n \in KernelState /\ KernelOK(n)
        /\ n.cur = m.cur /\ n.prio = m.prio /\ n.lock = m.lock
        /\ n.stat = m.stat /\ n.tmr = m.tmr \cup {Daemon}
    <2>1. m \in KernelState /\ KernelOK(m) /\ Daemon \in Thread
      BY <1>3
    <2> QED  BY ONLY <2>1, StartTimerEffect
  <1> HIDE DEF n
  <1>5. /\ k' \in KernelState /\ KernelOK(k')
        /\ k'.cur = Daemon /\ k'.prio = k.prio /\ k'.lock = k.lock
        /\ k'.stat = [k.stat EXCEPT ![Daemon] = "SUSPEND"]
        /\ \A t \in k'.tmr : t = Daemon
        /\ k' = n => Daemon \in k'.tmr
    <2>1. k' = m \/ k' = n
      BY DEF m, n
    <2>2. \A t \in k.tmr : t = Daemon
      BY DEF SoftInv, Scheduler
    <2> QED  BY <1>1, <1>3, <1>4, <2>1, <2>2
  <1>6. k'.stat[Daemon] = "SUSPEND" /\ k'.stat[Idle] = k.stat[Idle]
    BY <1>5
  <1>7. /\ Places' /\ pc' \in [Thread -> Pc] /\ arg' \in [Thread -> Timer \cup {ListHead}]
        /\ pc'[Daemon] = "blocked" /\ arg[Daemon] = ListHead
        /\ \A t \in Thread \ {Daemon} : pc'[t] = pc[t]
    BY <1>1, <1>2, DaemonPlaces
  <1>8. Scheduler'
    BY <1>5, <1>6 DEF SoftInv, Scheduler, Suspended
  <1>9. OnProcessor'
    <2>1. k.lock = 0
      BY <1>1 DEF SoftInv, OnProcessor, LockedInLoop
    <2> QED  BY <1>5, <1>6, <1>7, <2>1
               DEF OnProcessor, LockedInLoop, Suspended, DaemonAt, At, Me
  <1>10. DaemonState'
    BY <1>6, <1>7 DEF DaemonState, Suspended
  <1>11. k' = n => ~ Asleep'
    BY <1>5 DEF Asleep
  <1> QED  BY <1>5, <1>7, <1>8, <1>9, <1>10, <1>11 DEF n, m

LEMMA SuspendSelfStep ==
    ASSUME SoftInv, SuspendSelf
    PROVE  SoftInv'
  <1> USE Types
  <1>1. /\ DaemonAt("suspend") /\ Goto("blocked") /\ k' = Suspend(k, Daemon)
        /\ UNCHANGED <<tick, timerVars, wake, arg, loc, misread>>
    BY DEF SuspendSelf
  <1>2. /\ Scheduler' /\ OnProcessor' /\ DaemonState' /\ Places'
        /\ k' \in KernelState /\ pc' \in [Thread -> Pc]
        /\ arg' \in [Thread -> Timer \cup {ListHead}]
        /\ pc'[Daemon] = "blocked" /\ arg'[Daemon] = ListHead
        /\ \A t \in Thread \ {Daemon} : pc'[t] = pc[t] /\ arg'[t] = arg[t]
    BY <1>1, GoesToSleep
  <1>3. Cursor' /\ Listing'
    BY <1>1, <1>2, NoCallback DEF InCallback, StartPc, timerVars
  <1>4. list = << >> \/ misread
    BY <1>1 DEF SoftInv, Sleep, DaemonAt, At
  <1>5. Sleep'
    BY <1>1, <1>2, <1>4 DEF Sleep, AsleepWhenNone, timerVars
  <1>6. TypeOK'
    BY <1>1, <1>2 DEF SoftInv, TypeOK, timerVars
  <1> QED  BY <1>2, <1>3, <1>5, <1>6 DEF SoftInv

LEMMA DelayStep ==
    ASSUME SoftInv, Delay
    PROVE  SoftInv'
  <1> USE Types
  <1>1. /\ DaemonAt("delay") /\ Goto("blocked")
        /\ k' = StartTimer(Suspend(k, Daemon), Daemon)
        /\ wake' = (tick + loc.nt) % TickMod
        /\ UNCHANGED <<tick, timerVars, arg, loc, misread>>
    BY DEF Delay
  <1>2. /\ Scheduler' /\ OnProcessor' /\ DaemonState' /\ Places'
        /\ k' \in KernelState /\ pc' \in [Thread -> Pc]
        /\ arg' \in [Thread -> Timer \cup {ListHead}] /\ ~ Asleep'
        /\ pc'[Daemon] = "blocked" /\ arg'[Daemon] = ListHead
        /\ \A t \in Thread \ {Daemon} : pc'[t] = pc[t] /\ arg'[t] = arg[t]
    BY <1>1, GoesToSleep
  <1>3. Cursor' /\ Listing'
    BY <1>1, <1>2, NoCallback DEF InCallback, StartPc, timerVars
  <1>4. wake' \in Tick
    <2>1. loc.nt \in Int /\ tick \in Int
      BY DEF Tick
    <2> QED  BY <1>1, <2>1, TickAssumption DEF Tick, TickMax
  <1>5. TypeOK'
    BY <1>1, <1>2, <1>4 DEF SoftInv, TypeOK, timerVars
  <1> QED  BY <1>2, <1>3, <1>5 DEF SoftInv, Sleep, AsleepWhenNone

\* The rt_schedule with which it goes to sleep.
LEMMA DaemonScheduleStep ==
    ASSUME SoftInv, DaemonSchedule
    PROVE  SoftInv'
  <1> USE Types
  <1>1. /\ DaemonAt("blocked") /\ Goto("check") /\ k' = Schedule(k)
        /\ UNCHANGED <<tick, timerVars, wake, arg, loc, misread>>
    BY DEF DaemonSchedule
  <1>2. /\ Me = Daemon /\ pc[Daemon] = "blocked" /\ pc[Daemon] \notin StartPc
        /\ "check" \in DaemonPc /\ k.lock = 0 /\ pc'[Daemon] = "check"
    BY <1>1 DEF DaemonAt, At, StartPc, DaemonPc, Goto, SoftInv, OnProcessor, LockedInLoop
  <1>3. /\ Scheduler' /\ OnProcessor' /\ DaemonState'
        /\ k' \in KernelState /\ k'.tmr = k.tmr
        /\ k'.stat[Daemon] = "SUSPEND" <=> k.stat[Daemon] = "SUSPEND"
    <2>1. /\ k.prio = BasePrio /\ k.stat[Idle] \in {"READY", "RUNNING"}
          /\ \A t \in k.tmr : t = Daemon /\ k.stat[Daemon] = "SUSPEND"
          /\ k.stat[Daemon] \in {"READY", "RUNNING", "SUSPEND"}
      BY DEF SoftInv, Scheduler, DaemonState, Suspended
    <2> QED  BY <1>1, <1>2, <2>1, AfterSchedule, SoftTimerAssumption
  <1>4. Asleep' <=> Asleep
    BY <1>3 DEF Asleep
  <1>5. /\ Places' /\ pc' \in [Thread -> Pc] /\ arg' \in [Thread -> Timer \cup {ListHead}]
        /\ arg[Daemon] = ListHead
        /\ \A t \in Thread \ {Daemon} : pc'[t] = pc[t]
        /\ Kicked => Kicked'
    BY <1>1, <1>2, <1>4, DaemonPlaces
  <1>6. Cursor' /\ Listing'
    BY <1>1, <1>2, <1>5, NoCallback DEF InCallback, StartPc, timerVars
  <1>7. Sleep'
    BY <1>1, <1>2, <1>4, <1>5 DEF SoftInv, Sleep, AsleepWhenNone, timerVars
  <1>8. TypeOK'
    BY <1>1, <1>3, <1>5 DEF SoftInv, TypeOK, timerVars
  <1> QED  BY <1>3, <1>5, <1>6, <1>7, <1>8 DEF SoftInv

\* rt_enter_critical of the timer thread.
LEMMA LockStep ==
    ASSUME SoftInv, NEW p \in {"lock", "relock"}, DaemonAt(p),
           Goto("loop"), UNCHANGED arg, k' = EnterCritical(k)
    PROVE  /\ Scheduler' /\ OnProcessor' /\ DaemonState' /\ Places'
           /\ k' \in KernelState /\ pc' \in [Thread -> Pc]
           /\ arg' \in [Thread -> Timer \cup {ListHead}] /\ ~ Asleep'
           /\ pc'[Daemon] = "loop" /\ arg'[Daemon] = ListHead
           /\ \A t \in Thread \ {Daemon} : pc'[t] = pc[t] /\ arg'[t] = arg[t]
  <1> USE Types
  <1> DEFINE m == EnterCritical(k)
  <1>1. /\ Me = Daemon /\ pc[Daemon] = p /\ p \notin StartPc /\ "loop" \in DaemonPc
        /\ k.cur = Daemon
    BY DEF DaemonAt, At, DaemonPc, StartPc, Me
  <1>2. k.stat[Daemon] = "RUNNING" /\ ~ Asleep
    BY <1>1, DaemonAwake
  <1>3. k.lock = 0
    BY <1>1 DEF SoftInv, OnProcessor, LockedInLoop
  <1>4. /\ m \in KernelState /\ KernelOK(m)
        /\ m.cur = k.cur /\ m.prio = k.prio
        /\ m.stat = k.stat /\ m.tmr = k.tmr /\ m.lock = 1
    BY <1>3, EnterCriticalEffect
  <1> HIDE DEF m
  <1>5. k' = m
    BY DEF m
  <1>6. ~ Asleep'
    BY <1>2, <1>4, <1>5 DEF Asleep
  <1>7. /\ Places' /\ pc' \in [Thread -> Pc] /\ arg' \in [Thread -> Timer \cup {ListHead}]
        /\ pc'[Daemon] = "loop" /\ arg[Daemon] = ListHead
        /\ \A t \in Thread \ {Daemon} : pc'[t] = pc[t]
    BY <1>1, <1>2, DaemonPlaces
  <1>8. Scheduler'
    BY <1>4, <1>5 DEF SoftInv, Scheduler, Suspended
  <1>9. OnProcessor'
    BY <1>1, <1>2, <1>4, <1>5, <1>7 DEF OnProcessor, LockedInLoop, Me
  <1>10. DaemonState'
    BY <1>2, <1>4, <1>5 DEF DaemonState, Suspended
  <1> QED  BY <1>4, <1>5, <1>6, <1>7, <1>8, <1>9, <1>10

\* rt_exit_critical of the timer thread, with its rt_schedule.
LEMMA UnlockStep ==
    ASSUME SoftInv, DaemonAt("loop"), NEW l \in DaemonPc \ {"loop"},
           Goto(l), UNCHANGED arg, k' = Schedule(ExitCritical(k))
    PROVE  /\ Scheduler' /\ OnProcessor' /\ DaemonState' /\ Places'
           /\ k' \in KernelState /\ pc' \in [Thread -> Pc]
           /\ arg' \in [Thread -> Timer \cup {ListHead}] /\ ~ Asleep'
           /\ pc'[Daemon] = l /\ arg'[Daemon] = ListHead
           /\ \A t \in Thread \ {Daemon} : pc'[t] = pc[t] /\ arg'[t] = arg[t]
  <1> USE Types
  <1> DEFINE m == ExitCritical(k)
  <1>1. Me = Daemon /\ pc[Daemon] = "loop" /\ "loop" \notin StartPc
    BY DEF DaemonAt, At, StartPc
  <1>2. k.stat[Daemon] = "RUNNING" /\ ~ Asleep
    BY <1>1, DaemonAwake
  <1>3. k.lock = 1
    BY <1>1 DEF SoftInv, OnProcessor, LockedInLoop
  <1>4. /\ m \in KernelState /\ KernelOK(m)
        /\ m.cur = k.cur /\ m.prio = k.prio
        /\ m.stat = k.stat /\ m.tmr = k.tmr /\ m.lock = 0
    BY <1>3, ExitCriticalEffect
  <1>5. k' = Schedule(m)
    OBVIOUS
  <1> HIDE DEF m
  <1>6. /\ Places' /\ pc' \in [Thread -> Pc] /\ arg' \in [Thread -> Timer \cup {ListHead}]
        /\ pc'[Daemon] = l /\ arg[Daemon] = ListHead
        /\ \A t \in Thread \ {Daemon} : pc'[t] = pc[t]
    BY <1>1, <1>2, DaemonPlaces
  <1>7. /\ Scheduler' /\ OnProcessor' /\ DaemonState'
        /\ k' \in KernelState /\ k'.tmr = m.tmr
        /\ k'.stat[Daemon] = "SUSPEND" <=> m.stat[Daemon] = "SUSPEND"
    <2>1. /\ m.prio = BasePrio /\ m.stat[Idle] \in {"READY", "RUNNING"}
          /\ \A t \in m.tmr : t = Daemon /\ m.stat[Daemon] = "SUSPEND"
          /\ m.stat[Daemon] = "RUNNING"
      BY <1>2, <1>4 DEF SoftInv, Scheduler, Suspended
    <2>2. /\ m.stat[Daemon] \in {"READY", "RUNNING", "SUSPEND"}
          /\ m.stat[Daemon] = "SUSPEND" => pc'[Daemon] \in {"blocked", "check"}
          /\ pc'[Daemon] # "loop"
      BY <1>6, <2>1
    <2> QED  BY <1>4, <1>5, <2>1, <2>2, AfterSchedule, SoftTimerAssumption
  <1>8. ~ Asleep'
    BY <1>2, <1>4, <1>7 DEF Asleep
  <1> QED  BY <1>6, <1>7, <1>8

\* The walk of the list begins.
LEMMA CheckLockStep ==
    ASSUME SoftInv, CheckLock
    PROVE  SoftInv'
  <1> USE Types
  <1>1. /\ DaemonAt("lock") /\ Goto("loop") /\ k' = EnterCritical(k)
        /\ loc' = [loc EXCEPT !.n = After(ListHead)]
        /\ UNCHANGED <<tick, timerVars, wake, arg, misread>>
    BY DEF CheckLock
  <1>2. /\ Scheduler' /\ OnProcessor' /\ DaemonState' /\ Places'
        /\ k' \in KernelState /\ pc' \in [Thread -> Pc]
        /\ arg' \in [Thread -> Timer \cup {ListHead}] /\ ~ Asleep'
        /\ pc'[Daemon] = "loop" /\ arg'[Daemon] = ListHead
        /\ \A t \in Thread \ {Daemon} : pc'[t] = pc[t] /\ arg'[t] = arg[t]
    BY <1>1, LockStep
  <1>3. After(ListHead) \in ToSet(list) \cup {ListHead} /\ ToSet(list) \subseteq Timer
    <2>1. ListHead \in ToSet(list) \cup {ListHead}
      OBVIOUS
    <2>2. ToSet(list) \subseteq Timer
      BY LenProperties, ElementOfSeq DEF ToSet
    <2> QED  BY <2>1, <2>2, AfterNode
  <1>4. /\ loc'.n = After(ListHead)
        /\ loc' \in [nt : Tick, ct : Tick, n : Timer \cup {ListHead},
                     t : Timer \cup {ListHead}]
    BY <1>1, <1>3
  <1>5. ~ InCallback'
    BY <1>2 DEF InCallback, StartPc
  <1>6. Cursor'
    BY <1>1, <1>2, <1>3, <1>4, <1>5 DEF Cursor, timerVars
  <1>7. Listing'
    BY <1>1, <1>2, <1>5 DEF SoftInv, Listing, Fires, timerVars
  <1>8. TypeOK'
    BY <1>1, <1>2, <1>4 DEF SoftInv, TypeOK, timerVars
  <1> QED  BY <1>2, <1>6, <1>7, <1>8 DEF SoftInv, Sleep, AsleepWhenNone

\* A due timer leaves the list, with the cursor past it already.
LEMMA CheckFireStep ==
    ASSUME SoftInv, CheckFire
    PROVE  SoftInv'
  <1> USE Types
  <1> DEFINE x == loc.n
             l == RemoveFirst(list, x)
  <1>1. /\ DaemonAt("loop") /\ x # ListHead /\ Goto("call")
        /\ loc' = [loc EXCEPT !.n = After(x), !.t = x]
        /\ list' = l /\ k' = Schedule(ExitCritical(k))
        /\ UNCHANGED <<tick, due, active, wake, arg, misread>>
    BY DEF CheckFire, Due
  <1>2. /\ l \in Seq(Timer) /\ Distinct(l) /\ ToSet(l) = ToSet(list) \ {x}
        /\ list = << >> => l = << >>
    BY Unlinked
  <1> HIDE DEF l
  <1>3. x \in ToSet(list) /\ x \in Timer
    BY <1>1 DEF SoftInv, Cursor, DaemonAt, At
  <1>4. "call" \in DaemonPc \ {"loop"}
    BY DEF DaemonPc
  <1>5. /\ Scheduler' /\ OnProcessor' /\ DaemonState' /\ Places'
        /\ k' \in KernelState /\ pc' \in [Thread -> Pc]
        /\ arg' \in [Thread -> Timer \cup {ListHead}] /\ ~ Asleep'
        /\ pc'[Daemon] = "call" /\ arg'[Daemon] = ListHead
        /\ \A t \in Thread \ {Daemon} : pc'[t] = pc[t] /\ arg'[t] = arg[t]
    BY <1>1, <1>4, UnlockStep
  <1>6. /\ After(x) \in ToSet(list) \cup {ListHead} /\ After(x) # x
        /\ ToSet(list) \subseteq Timer
    <2>1. ToSet(list) \subseteq Timer
      BY LenProperties, ElementOfSeq DEF ToSet
    <2> QED  BY <1>1, <1>3, <2>1, AfterNode
  <1>7. /\ loc'.n = After(x) /\ loc'.t = x
        /\ loc' \in [nt : Tick, ct : Tick, n : Timer \cup {ListHead},
                     t : Timer \cup {ListHead}]
    <2> DEFINE y == After(x)
    <2>1. y \in Timer \cup {ListHead}
      BY <1>6
    <2> HIDE DEF y
    <2>2. loc' = [loc EXCEPT !.n = y, !.t = x]
      BY <1>1 DEF y
    <2>3. /\ loc'.n = y /\ loc'.t = x
          /\ loc' \in [nt : Tick, ct : Tick, n : Timer \cup {ListHead},
                       t : Timer \cup {ListHead}]
      BY <1>3, <2>1, <2>2
    <2> QED  BY <2>3 DEF y
  <1>8. Cursor'
    BY <1>1, <1>2, <1>3, <1>5, <1>6, <1>7 DEF Cursor
  <1>9. Listing'
    <2> SUFFICES ASSUME NEW t \in Thread \ {Daemon},
                        pc[t] \in {"arm", "link", "unflag"}
                 PROVE  arg[t] \notin ToSet(list') /\ arg[t] # x
      BY <1>1, <1>2, <1>5, <1>7 DEF Listing, Fires
    <2> QED  BY <1>1, <1>2, <1>3 DEF SoftInv, Listing
  <1>10. TypeOK'
    BY <1>1, <1>2, <1>5, <1>7 DEF SoftInv, TypeOK
  <1> QED  BY <1>5, <1>8, <1>9, <1>10 DEF SoftInv, Sleep, AsleepWhenNone

\* After the callback a periodic timer goes on the list again.
LEMMA CheckRestartStep ==
    ASSUME SoftInv, CheckRestart
    PROVE  SoftInv'
  <1> USE Types
  <1> DEFINE x == loc.t
             d == [due EXCEPT ![x] = (tick + Period[x]) % TickMod]
             r == RemoveFirst(list, x)
             l == Linked(r, d, x)
  <1>1. /\ DaemonAt("relock") /\ k' = EnterCritical(k) /\ Goto("loop")
        /\ UNCHANGED <<tick, wake, arg, loc, misread>>
    BY DEF CheckRestart
  <1>2. /\ Scheduler' /\ OnProcessor' /\ DaemonState' /\ Places'
        /\ k' \in KernelState /\ pc' \in [Thread -> Pc]
        /\ arg' \in [Thread -> Timer \cup {ListHead}] /\ ~ Asleep'
        /\ pc'[Daemon] = "loop" /\ arg'[Daemon] = ListHead
        /\ \A t \in Thread \ {Daemon} : pc'[t] = pc[t] /\ arg'[t] = arg[t]
    BY <1>1, LockStep
  <1>3. InCallback /\ ~ InCallback'
    BY <1>1, <1>2 DEF InCallback, StartPc, DaemonAt, At
  <1>4. x \in Timer /\ loc.n \in ToSet(list) \cup {ListHead}
    BY <1>3 DEF SoftInv, Cursor
  <1>5. \A t \in Thread \ {Daemon} :
            pc[t] \in {"arm", "link", "unflag"} => arg[t] \notin ToSet(list) /\ arg[t] # x
    BY <1>3 DEF SoftInv, Listing, Fires
  <1>6. /\ list' \in Seq(Timer) /\ Distinct(list')
        /\ ToSet(list) \subseteq ToSet(list') /\ ToSet(list') \subseteq ToSet(list) \cup {x}
        /\ due' \in [Timer -> Tick] /\ active' \in SUBSET Timer
    <2>1. CASE x \in Periodic \cap active
      <3>1. due' = d /\ list' = l /\ UNCHANGED active
        BY <2>1 DEF CheckRestart
      <3>2. r \in Seq(Timer) /\ Distinct(r) /\ ToSet(r) = ToSet(list) \ {x}
        BY Unlinked
      <3> HIDE DEF r
      <3>3. l \in Seq(Timer) /\ Distinct(l) /\ ToSet(l) = ToSet(r) \cup {x}
        BY <1>4, <3>2, LinkedList
      <3> HIDE DEF l
      <3>4. d \in [Timer -> Tick]
        <4>1. tick \in Int /\ Period[x] \in Int
          BY <1>4, SoftTimerAssumption DEF Tick
        <4>2. (tick + Period[x]) % TickMod \in Tick
          BY <4>1, TickAssumption DEF Tick, TickMax
        <4> QED  BY <1>4, <4>2
      <3> HIDE DEF d, x
      <3> QED  BY <3>1, <3>2, <3>3, <3>4
    <2>2. CASE ~ x \in Periodic \cap active
      BY <2>2 DEF CheckRestart
    <2> QED  BY <2>1, <2>2
  <1> HIDE DEF x
  <1>7. Cursor'
    BY <1>1, <1>2, <1>3, <1>4, <1>6 DEF Cursor
  <1>8. Listing'
    <2> SUFFICES ASSUME NEW t \in Thread \ {Daemon},
                        pc[t] \in {"arm", "link", "unflag"}
                 PROVE  arg[t] \notin ToSet(list')
      BY <1>2, <1>3, <1>6 DEF Listing, Fires
    <2> QED  BY <1>5, <1>6
  <1>9. TypeOK'
    BY <1>1, <1>2, <1>6 DEF SoftInv, TypeOK
  <1> QED  BY <1>2, <1>7, <1>8, <1>9 DEF SoftInv, Sleep, AsleepWhenNone

\* The walk ends at a timer that is not due.
LEMMA CheckEndStep ==
    ASSUME SoftInv, CheckEnd
    PROVE  SoftInv'
  <1> USE Types
  <1>1. /\ DaemonAt("loop") /\ Goto("top") /\ k' = Schedule(ExitCritical(k))
        /\ loc' = NoLocals
        /\ UNCHANGED <<tick, timerVars, wake, arg, misread>>
    BY DEF CheckEnd
  <1>2. "top" \in DaemonPc \ {"loop"}
    BY DEF DaemonPc
  <1>3. /\ Scheduler' /\ OnProcessor' /\ DaemonState' /\ Places'
        /\ k' \in KernelState /\ pc' \in [Thread -> Pc]
        /\ arg' \in [Thread -> Timer \cup {ListHead}] /\ ~ Asleep'
        /\ pc'[Daemon] = "top" /\ arg'[Daemon] = ListHead
        /\ \A t \in Thread \ {Daemon} : pc'[t] = pc[t] /\ arg'[t] = arg[t]
    BY <1>1, <1>2, UnlockStep
  <1>4. Cursor' /\ Listing'
    BY <1>1, <1>3, NoCallback DEF InCallback, StartPc, timerVars
  <1>5. loc' \in [nt : Tick, ct : Tick, n : Timer \cup {ListHead},
                  t : Timer \cup {ListHead}]
    <2>1. 0 \in Tick
      BY TickAssumption DEF Tick, TickMax
    <2> QED  BY <1>1, <2>1 DEF NoLocals
  <1>6. TypeOK'
    BY <1>1, <1>3, <1>5 DEF SoftInv, TypeOK, timerVars
  <1> QED  BY <1>3, <1>4, <1>6 DEF SoftInv, Sleep, AsleepWhenNone

-----------------------------------------------------------------------------
(* The invariant *)

LEMMA SoftInvInit == Init => SoftInv
  <1> SUFFICES ASSUME Init PROVE SoftInv
    OBVIOUS
  <1>1. /\ Idle \in Thread /\ Daemon \in Thread /\ Daemon # Idle
        /\ BasePrio \in [Thread -> Prio] /\ BasePrio[Idle] \in Prio
        /\ \A t \in Thread : BasePrio[t] \in Prio
    BY KernelAssumption, SoftTimerAssumption
  <1> DEFINE s == [t \in Thread |-> CASE t = Daemon -> "RUNNING"
                                      [] t = Idle -> "READY"
                                      [] OTHER -> "SUSPEND"]
             r == [p \in Prio |-> IF p = BasePrio[Idle] THEN <<Idle>> ELSE << >>]
  <1>2. /\ k.cur = Daemon /\ k.prio = BasePrio /\ k.lock = 0 /\ k.tmr = {}
        /\ k.stat = s /\ k.rq = r /\ k.grp = {BasePrio[Idle]}
        /\ k.err = [t \in Thread |-> "EOK"]
        /\ DOMAIN k = {"cur", "stat", "prio", "err", "rq", "grp", "tmr", "lock"}
    BY DEF Init
  <1>3. /\ s \in [Thread -> Stat]
        /\ s[Daemon] = "RUNNING" /\ s[Idle] = "READY"
        /\ \A t \in Thread \ {Daemon, Idle} : s[t] = "SUSPEND"
    BY <1>1 DEF Stat
  <1>4. /\ r \in [Prio -> Seq(Thread)] /\ r[BasePrio[Idle]] = <<Idle>>
        /\ \A p \in Prio : p # BasePrio[Idle] => r[p] = << >>
    <2>1. <<Idle>> \in Seq(Thread) /\ << >> \in Seq(Thread)
      BY <1>1
    <2> QED  BY <1>1, <2>1
  <1>5. ToSet(<<Idle>>) = {Idle} /\ ToSet(<< >>) = {} /\ <<Idle>> # << >>
        /\ Distinct(<<Idle>>) /\ Distinct(<< >>)
    BY DEF ToSet, Distinct
  <1> HIDE DEF s, r
  <1>6. k \in KernelState
    <2>1. [t \in Thread |-> "EOK"] \in [Thread -> Err]
      BY DEF Err
    <2>2. k = [cur |-> Daemon, prio |-> BasePrio, stat |-> s,
               err |-> [t \in Thread |-> "EOK"], rq |-> r,
               grp |-> {BasePrio[Idle]}, tmr |-> {}, lock |-> 0]
      BY DEF Init, s, r
    <2> QED  BY <1>1, <1>3, <1>4, <2>1, <2>2 DEF KernelState
  <1>7. KernelOK(k)
    <2>1. ReadyListed(k)
      <3> SUFFICES ASSUME NEW p \in Prio, NEW t \in Thread
                   PROVE  t \in ToSet(r[p]) <=> s[t] = "READY" /\ BasePrio[t] = p
        BY <1>2 DEF ReadyListed
      <3>1. s[t] = "READY" <=> t = Idle
        BY <1>1, <1>3
      <3>2. t \in ToSet(r[p]) <=> t = Idle /\ p = BasePrio[Idle]
        BY <1>4, <1>5
      <3> QED  BY <3>1, <3>2
    <2>2. ReadyDistinct(k)
      BY <1>2, <1>4, <1>5 DEF ReadyDistinct
    <2>3. GroupExact(k)
      BY <1>1, <1>2, <1>4, <1>5 DEF GroupExact
    <2>4. OneRunning(k)
      BY <1>1, <1>2, <1>3 DEF OneRunning
    <2> QED  BY <2>1, <2>2, <2>3, <2>4 DEF KernelOK
  <1>8. /\ pc[Daemon] = "top" /\ \A t \in Thread \ {Daemon} : pc[t] = "run"
        /\ \A t \in Thread : arg[t] = ListHead
        /\ pc \in [Thread -> Pc] /\ arg \in [Thread -> Timer \cup {ListHead}]
    BY <1>1 DEF Init, Pc, DaemonPc
  <1>9. TypeOK
    <2>1. 0 \in Tick
      BY TickAssumption DEF Tick, TickMax
    <2>2. /\ tick = 0 /\ list = << >> /\ due = [x \in Timer |-> 0] /\ active = {}
          /\ wake = 0 /\ misread = FALSE
          /\ loc = [nt |-> 0, ct |-> 0, n |-> ListHead, t |-> ListHead]
      BY DEF Init, NoLocals
    <2>3. /\ list \in Seq(Timer) /\ due \in [Timer -> Tick]
          /\ loc \in [nt : Tick, ct : Tick, n : Timer \cup {ListHead},
                      t : Timer \cup {ListHead}]
      BY <2>1, <2>2
    <2> QED  BY <1>6, <1>8, <2>1, <2>2, <2>3 DEF TypeOK
  <1>10. Scheduler
    BY <1>2, <1>3, <1>7 DEF Scheduler
  <1>11. OnProcessor
    BY <1>1, <1>2, <1>3, <1>8 DEF OnProcessor, LockedInLoop, Me
  <1>12. DaemonState
    BY <1>2, <1>3 DEF DaemonState, Suspended
  <1>13. Places
    BY <1>1, <1>8 DEF Places, PlaceOf, StartPc, DaemonPc
  <1>14. Cursor
    BY <1>1, <1>8 DEF Cursor, InCallback, StartPc
  <1>15. Listing
    BY <1>5, <1>8 DEF Init, Listing
  <1>16. Sleep
    BY <1>2, <1>3, <1>8 DEF Sleep, AsleepWhenNone, Asleep
  <1> QED
    BY <1>9, <1>10, <1>11, <1>12, <1>13, <1>14, <1>15, <1>16 DEF SoftInv

LEMMA SoftInvNext ==
    ASSUME OwnedFromBelow, SoftInv, [Next]_vars
    PROVE  SoftInv'
  <1>1. CASE UserStep
    BY <1>1, StartBeginStep, StopBeginStep, RestStep DEF UserStep
  <1>2. CASE CallStep
    BY <1>2, StartArmStep, StartLinkStep, StartKickStep, ResumeTestStep,
       ResumeUnlinkStep, ResumeInsertStep, StartScheduleStep, StopEndStep
       DEF CallStep
  <1>3. CASE DaemonStep
    BY <1>3, NextTestStep, NextPeekStep, SuspendSelfStep, NextDeltaStep, DelayStep,
       DaemonScheduleStep, CheckTickStep, CheckLockStep, CheckFireStep,
       CallbackReturnStep, CheckAgainStep, CheckRestartStep, CheckEndStep
       DEF DaemonStep
  <1>4. CASE \E t \in Thread : IsrWake(t)
    BY <1>4, IsrWakeStep
  <1>5. CASE TickIncrease
    BY <1>5, TickStep
  <1>6. CASE UNCHANGED vars
    <2>1. UNCHANGED <<k, tick, list, due, active, wake, pc, arg, loc, misread>>
      BY <1>6 DEF vars
    <2>2. Scheduler' /\ OnProcessor' /\ DaemonState' /\ (Asleep' <=> Asleep)
      BY <2>1 DEF SoftInv, Scheduler, OnProcessor, DaemonState, LockedInLoop,
                  Suspended, DaemonAt, At, Me, Asleep
    <2>3. TypeOK'
      BY <2>1 DEF SoftInv, TypeOK
    <2> QED  BY <2>1, <2>2, <2>3, SameTimers DEF SoftInv
  <1> QED  BY <1>1, <1>2, <1>3, <1>4, <1>5, <1>6 DEF Next

\* The invariant, for timers that one thread below the timer thread uses.
THEOREM SoftTimerInvariant ==
    ASSUME OwnedFromBelow
    PROVE  Spec => []SoftInv
  <1>1. SoftInv /\ [Next]_vars => SoftInv'
    BY SoftInvNext
  <1> QED  BY <1>1, SoftInvInit, PTL DEF Spec

\* Between any two sections of the timer code, and for every interrupt between
\* them, the ready lists are intact, and the scheduler is locked exactly while
\* the timer thread walks its list.
THEOREM SoftTimerConsistent ==
    ASSUME OwnedFromBelow
    PROVE  Spec => []Consistent
  <1>1. SoftInv => Consistent
    BY DEF SoftInv, Consistent, Scheduler, KernelConsistent, OnProcessor
  <1> QED  BY <1>1, SoftTimerInvariant, PTL

\* The timer thread never sleeps for good beside a timer that is on its list,
\* unless the first timeout is RT_TICK_MAX.
THEOREM SoftTimerAsleepWhenNone ==
    ASSUME OwnedFromBelow
    PROVE  Spec => []AsleepWhenNone
  <1>1. SoftInv => AsleepWhenNone
    BY DEF SoftInv, Sleep
  <1> QED  BY <1>1, SoftTimerInvariant, PTL

\* Only a due timer's step leads from the walk of the list to a callback.
LEMMA FiresFromList ==
    ASSUME SoftInv, [Next]_vars, pc[Daemon] = "loop", pc'[Daemon] = "call"
    PROVE  loc.n \in ToSet(list)
  <1>1. Me = Daemon /\ At("loop")
    BY DEF SoftInv, OnProcessor, At
  <1>2. ~ UNCHANGED pc
    OBVIOUS
  <1>3. ~ UserStep
    BY <1>1 DEF UserStep, StartBegin, MayUse, StopBegin, Rest, At
  <1>4. ~ CallStep
    BY <1>1 DEF CallStep, StartArm, StartLink, StartKick, ResumeTest, ResumeUnlink,
                ResumeInsert, StartSchedule, StopEnd, At
  <1>5. ~ (TickIncrease \/ (\E t \in Thread : IsrWake(t)) \/ UNCHANGED vars)
    BY <1>2 DEF TickIncrease, IsrWake, vars
  <1>6. DaemonStep
    BY <1>3, <1>4, <1>5 DEF Next
  <1>7. CheckFire \/ CheckEnd
    BY <1>1, <1>6 DEF DaemonStep, DaemonAt, At, NextTest, NextPeek, SuspendSelf, NextDelta,
                      Delay, DaemonSchedule, CheckTick, CheckLock, CallbackReturn,
                      CheckAgain, CheckRestart
  <1>8. ~ CheckEnd
    <2>1. pc \in [Thread -> Pc] /\ Daemon \in Thread
      BY Types
    <2> QED  BY <1>1, <2>1 DEF CheckEnd, Goto
  <1>9. loc.n # ListHead
    BY <1>7, <1>8 DEF CheckFire, Due
  <1> QED  BY <1>9 DEF SoftInv, Cursor

\* The walk of the list calls only timers that are on it, whatever its callbacks
\* and the interrupts do to the list between two looks.
THEOREM SoftTimerFiresListed ==
    ASSUME OwnedFromBelow
    PROVE  Spec => FiresListed
  <1>1. SoftInv /\ [Next]_vars =>
            [pc[Daemon] = "loop" /\ pc'[Daemon] = "call" => loc.n \in ToSet(list)]_vars
    BY FiresFromList
  <1> QED  BY <1>1, SoftTimerInvariant, PTL DEF Spec, FiresListed

-----------------------------------------------------------------------------
(* The list and the flags *)

\* Only periodic timers restart themselves in their callback.  A one-shot timer
\* that does is on the list again when rt_soft_timer_check clears its flag.
RestartsPeriodic == Restarting \subseteq Periodic

\* The owner took x off the list and has not cleared its flag.
Stopping(x) == \E t \in Thread \ {Daemon} : arg[t] = x /\ pc[t] = "unflag"

\* The list and the flags agree; what a callback has done to its own timer.
Flags ==
    /\ \A x \in Timer : (x \in ToSet(list) <=> x \in active) \/ Fires(x) \/ Stopping(x)
    /\ \A t \in Thread \ {Daemon} : pc[t] \in {"arm", "link"} => arg[t] \notin active
    /\ pc[Daemon] = "kick" => loc.t \in ToSet(list) /\ loc.t \in active
    /\ pc[Daemon] \in {"called", "relock"} /\ loc.t \in ToSet(list) =>
           loc.t \in Restarting /\ loc.t \in active

\* A step that changes neither list nor flags.
LEMMA FlagsSame ==
    ASSUME Flags, UNCHANGED <<list, active>>,
           \A x \in Timer : Fires(x) => Fires(x)',
           \A t \in Thread \ {Daemon} :
               /\ pc[t] = "unflag" => pc'[t] = "unflag" /\ arg'[t] = arg[t]
               /\ pc'[t] \in {"arm", "link"} => pc[t] \in {"arm", "link"} /\ arg'[t] = arg[t],
           pc'[Daemon] = "kick" => pc[Daemon] = "kick" /\ loc'.t = loc.t,
           pc'[Daemon] \in {"called", "relock"} /\ loc'.t \in ToSet(list) =>
               loc'.t \in Restarting /\ loc'.t \in active
    PROVE  Flags'
  <1>1. \A x \in Timer : Stopping(x) => Stopping(x)'
    BY DEF Stopping
  <1>2. \A x \in Timer : (x \in ToSet(list') <=> x \in active') \/ Fires(x)' \/ Stopping(x)'
    BY <1>1 DEF Flags
  <1> QED  BY <1>2 DEF Flags

\* A step of the scheduler or the tick.
LEMMA FlagsStill ==
    ASSUME Flags, UNCHANGED <<list, active, pc, arg, loc>>
    PROVE  Flags'
  BY DEF Flags, Fires, InCallback, Stopping

\* Where the current thread is and what a Goto leaves.
LEMMA Going ==
    ASSUME SoftInv, NEW l \in Pc, Goto(l)
    PROVE  /\ Me \in Thread /\ pc'[Me] = l
           /\ \A t \in Thread : t # Me => pc'[t] = pc[t]
  BY Types DEF Goto, Me

LEMMA StartBeginFlags ==
    ASSUME OwnedFromBelow, SoftInv, Flags, NEW x \in Timer, StartBegin(x)
    PROVE  Flags'
  <1> USE Types
  <1>1. /\ MayUse(x) /\ list' = RemoveFirst(list, x) /\ Goto("arm") /\ active' = active \ {x}
        /\ arg' = [arg EXCEPT ![Me] = x]
        /\ UNCHANGED <<k, tick, due, wake, loc, misread>>
    BY DEF StartBegin
  <1>2. ToSet(list') = ToSet(list) \ {x}
    BY <1>1, Unlinked
  <1>3. /\ Me \in Thread /\ pc'[Me] = "arm" /\ arg'[Me] = x
        /\ \A t \in Thread : t # Me => pc'[t] = pc[t] /\ arg'[t] = arg[t]
    BY <1>1, Going DEF Pc, StartPc
  <1>4. pc[Me] \in {"run", "call"}
    BY <1>1 DEF MayUse, At
  <1>5. \A y \in Timer : Stopping(y) => Stopping(y)'
    BY <1>3, <1>4 DEF Stopping
  <1>6. \A y \in Timer : Fires(y) => Fires(y)'
    BY <1>1, <1>3 DEF Fires, InCallback, StartPc
  <1>7. \A t \in Thread \ {Daemon} : pc'[t] \in {"arm", "link"} => arg'[t] \notin active'
    BY <1>1, <1>3 DEF Flags
  <1>8. \A y \in Timer : (y \in ToSet(list') <=> y \in active') \/ Fires(y)' \/ Stopping(y)'
    BY <1>1, <1>2, <1>5, <1>6 DEF Flags
  <1>9. pc'[Daemon] \notin {"kick", "called", "relock"}
    <2>1. CASE Me = Daemon
      BY <1>3, <2>1
    <2>2. CASE Me # Daemon
      <3>1. Acting
        BY <1>1, <2>2, CallInDaemon DEF MayUse, Acting
      <3> QED  BY <1>3, <2>2, <3>1, OwnerRuns
    <2> QED  BY <2>1, <2>2
  <1> QED  BY <1>7, <1>8, <1>9 DEF Flags

LEMMA StartArmFlags ==
    ASSUME SoftInv, Flags, StartArm
    PROVE  Flags'
  <1> USE Types
  <1>1. /\ At("arm") /\ Goto("link")
        /\ UNCHANGED <<list, active, arg, loc>>
    BY DEF StartArm
  <1>2. /\ Me \in Thread /\ pc'[Me] = "link" /\ pc[Me] = "arm"
        /\ \A t \in Thread : t # Me => pc'[t] = pc[t]
    BY <1>1, Going DEF Pc, StartPc, At
  <1>3. \A x \in Timer : Fires(x) => Fires(x)'
    BY <1>1, <1>2 DEF Fires, InCallback, StartPc
  <1>4. pc'[Daemon] \in {"kick", "called", "relock"} => pc[Daemon] = pc'[Daemon]
    BY <1>2
  <1> QED  BY <1>1, <1>2, <1>3, <1>4, FlagsSame DEF Flags

LEMMA StartLinkFlags ==
    ASSUME OwnedFromBelow, SoftInv, Flags, StartLink
    PROVE  Flags'
  <1> USE Types
  <1> DEFINE x == arg[Me]
  <1>1. /\ At("link") /\ Goto("kick") /\ list' = Linked(list, due, x)
        /\ active' = active \cup {x}
        /\ UNCHANGED <<k, tick, due, wake, arg, loc, misread>>
    BY DEF StartLink
  <1>2. /\ Me \in Thread /\ pc'[Me] = "kick" /\ pc[Me] = "link"
        /\ \A t \in Thread : t # Me => pc'[t] = pc[t]
    BY <1>1, Going DEF Pc, StartPc, At
  <1>3. x \in Timer
    BY <1>2 DEF SoftInv, Places, StartPc
  <1>4. ToSet(list') = ToSet(list) \cup {x}
    BY <1>1, <1>3, LinkedList
  <1>5. \A y \in Timer : (Fires(y) => Fires(y)') /\ (Stopping(y) => Stopping(y)')
    BY <1>1, <1>2 DEF Fires, InCallback, StartPc, Stopping
  <1>6. \A y \in Timer : (y \in ToSet(list') <=> y \in active') \/ Fires(y)' \/ Stopping(y)'
    BY <1>1, <1>4, <1>5 DEF Flags
  <1>7. CASE Me = Daemon
    <2>1. x = loc.t /\ InCallback
      BY <1>2, <1>3, <1>7 DEF SoftInv, Cursor, InCallback, StartPc
    <2>2. \A t \in Thread \ {Daemon} : pc'[t] \in {"arm", "link"} => arg'[t] \notin active'
      BY <1>1, <1>2, <1>7, <2>1 DEF Flags, SoftInv, Listing, Fires
    <2>3. loc'.t \in ToSet(list') /\ loc'.t \in active' /\ pc'[Daemon] = "kick"
      BY <1>1, <1>2, <1>4, <1>7, <2>1
    <2> QED  BY <1>6, <2>2, <2>3 DEF Flags
  <1>8. CASE Me # Daemon
    <2>1. Acting
      BY <1>2 DEF Acting, StartPc
    <2>2. pc'[Daemon] \notin {"kick", "called", "relock"}
      BY <1>2, <1>8, <2>1, OwnerRuns
    <2>3. \A t \in Thread \ {Daemon} : pc'[t] \notin {"arm", "link"}
      <3> SUFFICES ASSUME NEW t \in Thread \ {Daemon}, t # Me
                   PROVE  pc[t] \notin StartPc
        BY <1>2 DEF StartPc
      <3> QED  BY <1>2, <1>8, <2>1, OnlyOwner
    <2> QED  BY <1>6, <2>2, <2>3 DEF Flags
  <1> QED  BY <1>7, <1>8

\* The other steps of rt_timer_start.
LEMMA StartRestFlags ==
    ASSUME OwnedFromBelow, SoftInv, Flags,
           StartKick \/ ResumeTest \/ ResumeUnlink \/ ResumeInsert \/ StartSchedule
    PROVE  Flags'
  <1> USE Types
  <1>1. /\ pc[Me] \in {"kick", "resume", "unlink", "insert", "pend"}
        /\ UNCHANGED <<list, active, loc>>
        /\ \A t \in Thread : t # Me => arg'[t] = arg[t]
    BY DEF StartKick, ResumeTest, ResumeUnlink, ResumeInsert, StartSchedule, At,
           timerVars, Return, ReturnIf
  <1>2. PICK l \in {"called", "run", "resume", "unlink", "pend", "insert"} :
            Goto(l) /\ (l = "called" => StartKick \/ StartSchedule)
    BY DEF StartKick, ResumeTest, ResumeUnlink, ResumeInsert, StartSchedule, Return, ReturnIf
  <1>3. /\ Me \in Thread /\ pc'[Me] = l
        /\ \A t \in Thread : t # Me => pc'[t] = pc[t]
    BY <1>2, Going DEF Pc, StartPc, DaemonPc
  <1>4. CASE Me # Daemon
    <2>1. pc'[Daemon] = pc[Daemon]
      BY <1>3, <1>4
    <2>2. \A x \in Timer : Fires(x) => Fires(x)'
      BY <1>1, <2>1 DEF Fires, InCallback
    <2>3. l \notin {"arm", "link"} /\ pc[Me] # "unflag"
      BY <1>1
    <2> QED  BY <1>1, <1>3, <2>1, <2>2, <2>3, FlagsSame DEF Flags
  <1>5. CASE Me = Daemon
    <2>1. pc[Daemon] = "kick"
      BY <1>1, <1>5 DEF SoftInv, Places, DaemonPc
    <2>2. StartKick
      BY <1>5, <2>1 DEF ResumeTest, ResumeUnlink, ResumeInsert, StartSchedule, At
    <2>3. k.stat[Daemon] = "RUNNING"
      BY <1>5, <2>1, DaemonAwake
    <2>4. pc'[Daemon] = "called"
      BY <1>5, <2>2, <2>3 DEF StartKick, ReturnIf, Goto
    <2>5. \A x \in Timer : Fires(x) => Fires(x)'
      BY <1>1, <2>4 DEF Fires, InCallback
    <2>6. loc.t \in Restarting /\ loc.t \in active
      BY <2>1 DEF SoftInv, Cursor, Places, StartPc, Flags
    <2> QED  BY <1>1, <1>3, <1>5, <2>4, <2>5, <2>6, FlagsSame
  <1> QED  BY <1>4, <1>5


LEMMA StopBeginFlags ==
    ASSUME OwnedFromBelow, SoftInv, Flags, NEW x \in Timer, StopBegin(x)
    PROVE  Flags'
  <1> USE Types
  <1>1. /\ At("run") /\ Owner[x] = Me /\ list' = RemoveFirst(list, x) /\ Goto("unflag")
        /\ arg' = [arg EXCEPT ![Me] = x] /\ UNCHANGED <<active, loc>>
    BY DEF StopBegin
  <1>2. ToSet(list') = ToSet(list) \ {x}
    BY <1>1, Unlinked
  <1>3. /\ Me \in Thread /\ Me # Daemon /\ pc[Me] = "run"
        /\ pc'[Me] = "unflag" /\ arg'[Me] = x
        /\ \A t \in Thread : t # Me => pc'[t] = pc[t] /\ arg'[t] = arg[t]
    BY <1>1, Going, SoftTimerAssumption DEF Pc, StartPc, At
  <1>4. pc'[Daemon] \in {"blocked", "check"}
    <2>1. Acting
      BY <1>1 DEF Acting
    <2> QED  BY <1>3, <2>1, OwnerRuns
  <1>5. \A y \in Timer : Fires(y) => Fires(y)'
    BY <1>1, <1>3 DEF Fires, InCallback
  <1>6. \A y \in Timer : Stopping(y) => Stopping(y)'
    BY <1>3 DEF Stopping
  <1>7. Stopping(x)'
    BY <1>3 DEF Stopping
  <1>8. \A y \in Timer : (y \in ToSet(list') <=> y \in active') \/ Fires(y)' \/ Stopping(y)'
    BY <1>1, <1>2, <1>5, <1>6, <1>7 DEF Flags
  <1>9. \A t \in Thread \ {Daemon} : pc'[t] \in {"arm", "link"} => arg'[t] \notin active'
    BY <1>1, <1>3 DEF Flags
  <1> QED  BY <1>4, <1>8, <1>9 DEF Flags

\* The second section of rt_timer_stop makes the flag agree with the list.
LEMMA StopEndFlags ==
    ASSUME OwnedFromBelow, SoftInv, Flags, StopEnd
    PROVE  Flags'
  <1> USE Types
  <1> DEFINE x == arg[Me]
  <1>1. /\ pc[Me] = "unflag" /\ active' = active \ {x} /\ Return
        /\ UNCHANGED <<list, loc>>
    BY DEF StopEnd, At
  <1>2. Me \in Thread /\ Me # Daemon
    BY <1>1 DEF SoftInv, Places, DaemonPc, Me
  <1>3. /\ Goto("run") /\ arg' = [arg EXCEPT ![Me] = ListHead]
    BY <1>1, <1>2 DEF Return, ReturnIf
  <1>4. /\ pc'[Me] = "run"
        /\ \A t \in Thread : t # Me => pc'[t] = pc[t] /\ arg'[t] = arg[t]
    BY <1>3, Going DEF Pc
  <1>5. x \notin ToSet(list)
    BY <1>1, <1>2 DEF SoftInv, Listing
  <1>6. pc'[Daemon] \in {"blocked", "check"}
    <2>1. Acting
      BY <1>1 DEF Acting, StartPc
    <2> QED  BY <1>2, <1>4, <2>1, OwnerRuns
  <1>7. \A y \in Timer : Fires(y) => Fires(y)'
    BY <1>1, <1>2, <1>4 DEF Fires, InCallback
  <1>8. \A y \in Timer : Stopping(y) => y = x \/ Stopping(y)'
    BY <1>4 DEF Stopping
  <1>9. \A y \in Timer : (y \in ToSet(list') <=> y \in active') \/ Fires(y)' \/ Stopping(y)'
    BY <1>1, <1>5, <1>7, <1>8 DEF Flags
  <1>10. \A t \in Thread \ {Daemon} : pc'[t] \in {"arm", "link"} => arg'[t] \notin active'
    BY <1>1, <1>4 DEF Flags
  <1> HIDE DEF x
  <1> QED  BY <1>6, <1>9, <1>10 DEF Flags

\* Where the timer thread goes, nobody else does.
LEMMA DaemonGoes ==
    ASSUME SoftInv, Me = Daemon, NEW l \in DaemonPc, Goto(l), UNCHANGED arg
    PROVE  /\ pc'[Daemon] = l
           /\ \A t \in Thread \ {Daemon} : pc'[t] = pc[t] /\ arg'[t] = arg[t]
  <1>1. l \in Pc
    BY DEF Pc
  <1> QED  BY <1>1, Going

\* The timer thread outside of a callback touches neither list nor flags.
LEMMA OutsideFlags ==
    ASSUME SoftInv, Flags,
           NextTest \/ NextPeek \/ SuspendSelf \/ NextDelta \/ Delay
           \/ DaemonSchedule \/ CheckTick \/ CheckLock \/ CheckEnd
    PROVE  Flags'
  <1>1. /\ Me = Daemon
        /\ pc[Daemon] \in {"top", "peek", "suspend", "now", "delay", "blocked", "check",
                           "lock", "loop"}
        /\ UNCHANGED <<list, active, arg>>
    BY DEF NextTest, NextPeek, SuspendSelf, NextDelta, Delay, DaemonSchedule, CheckTick,
           CheckLock, CheckEnd, DaemonAt, At, timerVars
  <1>2. PICK l \in {"suspend", "peek", "now", "delay", "check", "blocked", "lock",
                    "loop", "top"} : Goto(l)
    BY DEF NextTest, NextPeek, SuspendSelf, NextDelta, Delay, DaemonSchedule, CheckTick,
           CheckLock, CheckEnd
  <1>3. /\ pc'[Daemon] = l
        /\ \A t \in Thread \ {Daemon} : pc'[t] = pc[t] /\ arg'[t] = arg[t]
    BY <1>1, <1>2, DaemonGoes DEF DaemonPc
  <1>4. \A x \in Timer : ~ Fires(x)
    BY <1>1 DEF Fires, InCallback, StartPc
  <1>5. /\ \A x \in Timer : Fires(x) => Fires(x)'
        /\ \A t \in Thread \ {Daemon} :
               /\ pc[t] = "unflag" => pc'[t] = "unflag" /\ arg'[t] = arg[t]
               /\ pc'[t] \in {"arm", "link"} => pc[t] \in {"arm", "link"} /\ arg'[t] = arg[t]
        /\ pc'[Daemon] \notin {"kick", "called", "relock"}
    BY <1>2, <1>3, <1>4
  <1> QED  BY <1>1, <1>5, FlagsSame


\* The timer that fires is nobody's business until rt_soft_timer_check is back.
LEMMA CheckFireFlags ==
    ASSUME SoftInv, Flags, CheckFire
    PROVE  Flags'
  <1> USE Types
  <1> DEFINE x == loc.n
  <1>1. /\ DaemonAt("loop") /\ Goto("call") /\ list' = RemoveFirst(list, x)
        /\ loc' = [loc EXCEPT !.n = After(x), !.t = x]
        /\ UNCHANGED <<active, arg>>
    BY DEF CheckFire
  <1>2. ToSet(list') = ToSet(list) \ {x}
    BY <1>1, Unlinked
  <1>3. /\ pc[Daemon] = "loop" /\ pc'[Daemon] = "call" /\ loc'.t = x
        /\ \A t \in Thread \ {Daemon} : pc'[t] = pc[t] /\ arg'[t] = arg[t]
    BY <1>1, DaemonGoes DEF DaemonPc, DaemonAt, At
  <1>4. \A y \in Timer : ~ Fires(y) /\ (Stopping(y) => Stopping(y)')
    BY <1>3 DEF Fires, InCallback, StartPc, Stopping
  <1>5. \A y \in Timer : y = x => Fires(y)'
    BY <1>3 DEF Fires, InCallback
  <1>6. \A y \in Timer : (y \in ToSet(list') <=> y \in active') \/ Fires(y)' \/ Stopping(y)'
    BY <1>1, <1>2, <1>4, <1>5 DEF Flags
  <1> QED  BY <1>1, <1>3, <1>6 DEF Flags

\* The callback returns.
LEMMA CallbackFlags ==
    ASSUME SoftInv, Flags, CallbackReturn \/ CheckAgain
    PROVE  Flags'
  <1>1. /\ Me = Daemon /\ pc[Daemon] \in {"call", "called"}
        /\ loc'.t = loc.t /\ UNCHANGED <<list, active, arg>>
    BY Types DEF CallbackReturn, CheckAgain, DaemonAt, At, timerVars
  <1>2. PICK l \in {"called", "relock"} : Goto(l)
    BY DEF CallbackReturn, CheckAgain
  <1>3. /\ pc'[Daemon] = l
        /\ \A t \in Thread \ {Daemon} : pc'[t] = pc[t] /\ arg'[t] = arg[t]
    BY <1>1, <1>2, DaemonGoes DEF DaemonPc
  <1>4. \A x \in Timer : Fires(x) => Fires(x)'
    BY <1>1, <1>2, <1>3 DEF Fires, InCallback
  <1>5. loc.t \in ToSet(list) => loc.t \in Restarting /\ loc.t \in active
    BY <1>1 DEF Flags, SoftInv, Cursor
  <1> QED  BY <1>1, <1>2, <1>3, <1>4, <1>5, FlagsSame

\* The timer that fired is on the list again and has its flag, or neither.
LEMMA CheckRestartFlags ==
    ASSUME RestartsPeriodic, SoftInv, Flags, CheckRestart
    PROVE  Flags'
  <1> USE Types
  <1> DEFINE x == loc.t
             d == [due EXCEPT ![x] = (tick + Period[x]) % TickMod]
             r == RemoveFirst(list, x)
             l == Linked(r, d, x)
  <1>1. /\ DaemonAt("relock") /\ Goto("loop") /\ UNCHANGED <<arg, loc>>
    BY DEF CheckRestart
  <1>2. /\ pc[Daemon] = "relock" /\ pc'[Daemon] = "loop"
        /\ \A t \in Thread \ {Daemon} : pc'[t] = pc[t] /\ arg'[t] = arg[t]
    BY <1>1, DaemonGoes DEF DaemonPc, DaemonAt, At
  <1>3. x \in Timer /\ \A y \in Timer : Fires(y) => y = x
    BY <1>2 DEF SoftInv, Cursor, InCallback, Fires
  <1>4. /\ ToSet(list') \ {x} = ToSet(list) \ {x}
        /\ active' \ {x} = active \ {x} /\ active' \subseteq active
        /\ x \in ToSet(list') <=> x \in active'
    <2>1. CASE x \in Periodic \cap active
      <3>1. list' = l /\ UNCHANGED active
        BY <2>1 DEF CheckRestart
      <3>2. r \in Seq(Timer) /\ ToSet(r) = ToSet(list) \ {x}
        BY Unlinked
      <3> HIDE DEF r, d
      <3>3. ToSet(l) = ToSet(r) \cup {x}
        BY <1>3, <3>2, LinkedList
      <3> HIDE DEF l, x
      <3> QED  BY <2>1, <3>1, <3>2, <3>3
    <2>2. CASE ~ x \in Periodic \cap active
      <3>1. active' = active \ {x} /\ UNCHANGED list
        BY <2>2 DEF CheckRestart
      <3>2. x \notin ToSet(list)
        BY <1>2, <2>2 DEF Flags, RestartsPeriodic
      <3> QED  BY <3>1, <3>2
    <2> QED  BY <2>1, <2>2
  <1> HIDE DEF x
  <1>5. \A y \in Timer : Stopping(y) => Stopping(y)'
    BY <1>2 DEF Stopping
  <1>6. \A y \in Timer : (y \in ToSet(list') <=> y \in active') \/ Stopping(y)'
    <2> SUFFICES ASSUME NEW y \in Timer
                 PROVE  (y \in ToSet(list') <=> y \in active') \/ Stopping(y)'
      OBVIOUS
    <2>1. CASE y = x
      BY <1>4, <2>1
    <2>2. CASE y # x
      BY <1>3, <1>4, <1>5, <2>2 DEF Flags
    <2> QED  BY <2>1, <2>2
  <1> QED  BY <1>2, <1>4, <1>6 DEF Flags

LEMMA FlagsInit == Init => Flags
  <1> SUFFICES ASSUME Init PROVE Flags
    OBVIOUS
  <1>1. list = << >> /\ active = {} /\ ToSet(list) = {}
    BY DEF Init, ToSet
  <1>2. /\ pc[Daemon] = "top" /\ \A t \in Thread \ {Daemon} : pc[t] = "run"
    BY SoftTimerAssumption DEF Init
  <1> QED  BY <1>1, <1>2 DEF Flags

LEMMA FlagsNext ==
    ASSUME OwnedFromBelow, RestartsPeriodic, SoftInv, Flags, [Next]_vars
    PROVE  Flags'
  <1>1. CASE UserStep
    <2>1. CASE Rest
      BY <2>1, FlagsStill DEF Rest, timerVars
    <2> QED  BY <1>1, <2>1, StartBeginFlags, StopBeginFlags DEF UserStep
  <1>2. CASE CallStep
    BY <1>2, StartArmFlags, StartLinkFlags, StartRestFlags, StopEndFlags DEF CallStep
  <1>3. CASE DaemonStep
    BY <1>3, OutsideFlags, CheckFireFlags, CallbackFlags, CheckRestartFlags DEF DaemonStep
  <1>4. CASE (\E t \in Thread : IsrWake(t)) \/ TickIncrease \/ UNCHANGED vars
    BY <1>4, FlagsStill DEF IsrWake, TickIncrease, vars, timerVars
  <1> QED  BY <1>1, <1>2, <1>3, <1>4 DEF Next

\* A timer is on the list exactly while its flag says so, outside of the windows
\* between the sections of rt_timer_start, rt_timer_stop and the callback's
\* return: for every number of timers that one thread below the timer thread
\* uses, when only periodic timers start themselves in their callback.
THEOREM SoftTimerListedActive ==
    ASSUME OwnedFromBelow, RestartsPeriodic
    PROVE  Spec => []ListedActive
  <1>1. Init => SoftInv /\ Flags
    BY SoftInvInit, FlagsInit
  <1>2. SoftInv /\ Flags /\ [Next]_vars => (SoftInv /\ Flags)'
    BY SoftInvNext, FlagsNext
  <1>3. SoftInv /\ Flags => ListedActive
    <2> SUFFICES ASSUME SoftInv, Flags, NEW x \in Timer, Fires(x) \/ Stopping(x)
                 PROVE  Busy(x)
      BY DEF ListedActive, SoftInv, Listing, Flags
    <2> QED  BY DEF Fires, InCallback, Stopping, Busy, StartPc
  <1> QED  BY <1>1, <1>2, <1>3, PTL DEF Spec

-----------------------------------------------------------------------------
(* Ticks around the current one *)

\* By how much the tick v lies ahead of the tick t, negative when it has passed.
Off(v, t) ==
    LET z == IF v >= t THEN v - t ELSE v - t + TickMod
    IN  IF z <= TickMax \div 2 THEN z ELSE z - TickMod

LEMMA HalfTick ==
    /\ TickMod \in Int /\ TickMod > 4 /\ TickMax = TickMod - 1
    /\ TickMax \div 2 \in Int /\ TickMax \div 2 >= 2
    /\ 2 * (TickMax \div 2) <= TickMax /\ TickMax < 2 * (TickMax \div 2) + 2
  BY TickAssumption DEF TickMax

\* A remainder is known by its range.
LEMMA ModIs ==
    ASSUME NEW a \in Int, NEW r \in Tick, a = r \/ a = r + TickMod \/ a = r - TickMod
    PROVE  a % TickMod = r
  <1>1. TickMod \in Nat /\ TickMod > 0 /\ r \in Int /\ 0 <= r /\ r < TickMod
    BY TickAssumption DEF Tick, TickMax
  <1>2. a = r + 0 * TickMod \/ a = r + 1 * TickMod \/ a = r + (-1) * TickMod
    BY <1>1
  <1> QED  BY <1>1, <1>2

\* The distance, and nothing else, leads from t to v.
LEMMA OffForm ==
    ASSUME NEW v \in Tick, NEW t \in Tick
    PROVE  /\ Off(v, t) \in Int
           /\ - (TickMax \div 2) - 1 <= Off(v, t) /\ Off(v, t) <= TickMax \div 2
           /\ \/ v = t + Off(v, t)
              \/ v = t + Off(v, t) + TickMod
              \/ v = t + Off(v, t) - TickMod
  BY HalfTick DEF Off, Tick

LEMMA OffIs ==
    ASSUME NEW v \in Tick, NEW t \in Tick, NEW o \in Int,
           - (TickMax \div 2) <= o, o <= TickMax \div 2,
           v = t + o \/ v = t + o + TickMod \/ v = t + o - TickMod
    PROVE  Off(v, t) = o
  BY HalfTick DEF Off, Tick

\* The comparison of two ticks that lie less than half the range apart is the
\* comparison of their distances.
LEMMA WithinOff ==
    ASSUME NEW u \in Tick, NEW v \in Tick, NEW t \in Tick,
           Off(u, t) - Off(v, t) < TickMax \div 2,
           Off(v, t) - Off(u, t) < TickMax \div 2
    PROVE  /\ Within(u, v) <=> Off(u, t) >= Off(v, t)
           /\ u = v <=> Off(u, t) = Off(v, t)
  <1> DEFINE a == Off(u, t)
             b == Off(v, t)
             h == TickMax \div 2
             d == IF a >= b THEN a - b ELSE a - b + TickMod
  <1>1. /\ a \in Int /\ - h - 1 <= a /\ a <= h
        /\ u = t + a \/ u = t + a + TickMod \/ u = t + a - TickMod
    BY OffForm
  <1>2. /\ b \in Int /\ - h - 1 <= b /\ b <= h
        /\ v = t + b \/ v = t + b + TickMod \/ v = t + b - TickMod
    BY OffForm
  <1>3. a - b < h /\ b - a < h
    OBVIOUS
  <1> HIDE DEF a, b
  <1>4. u \in Int /\ v \in Int /\ t \in Int /\ 0 <= u /\ u < TickMod /\ 0 <= v /\ v < TickMod
    BY HalfTick DEF Tick
  <1>5. d \in Tick
    BY <1>1, <1>2, <1>3, HalfTick DEF Tick
  <1>6. u - v = d \/ u - v = d + TickMod \/ u - v = d - TickMod
    BY <1>1, <1>2, <1>3, <1>4, HalfTick
  <1>7. u - v \in Int
    BY <1>4
  <1>8. (u - v) % TickMod = d
    BY <1>5, <1>6, <1>7, ModIs
  <1>9. d < h <=> a >= b
    BY <1>1, <1>2, <1>3, HalfTick
  <1>10. u = v <=> a = b
    BY <1>1, <1>2, <1>3, <1>4, HalfTick
  <1> QED  BY <1>8, <1>9, <1>10 DEF Within, a, b, h

\* The same of a tick to which a few are added.
LEMMA WithinShifted ==
    ASSUME NEW u \in Tick, NEW v \in Tick, NEW t \in Tick, NEW m \in Nat,
           m <= TickMax \div 2,
           Off(u, t) - Off(v, t) + m >= 0, Off(u, t) - Off(v, t) + m < TickMax \div 2
    PROVE  Within(u + m, v)
  <1> DEFINE a == Off(u, t)
             b == Off(v, t)
             h == TickMax \div 2
             d == a - b + m
  <1>1. /\ u = t + a \/ u = t + a + TickMod \/ u = t + a - TickMod
        /\ v = t + b \/ v = t + b + TickMod \/ v = t + b - TickMod
    BY OffForm
  <1>2. d >= 0 /\ d < h
    OBVIOUS
  <1> HIDE DEF a, b
  <1>3. u \in Int /\ v \in Int /\ t \in Int /\ 0 <= u /\ u < TickMod /\ 0 <= v /\ v < TickMod
    BY HalfTick DEF Tick
  <1>4. a \in Int /\ b \in Int
    BY OffForm DEF a, b
  <1>5. d \in Tick
    BY <1>2, <1>4, HalfTick DEF Tick
  <1>6. (u + m) - v = d \/ (u + m) - v = d + TickMod \/ (u + m) - v = d - TickMod
    BY <1>1, <1>2, <1>3, <1>4, HalfTick
  <1>7. ((u + m) - v) % TickMod = d
    <2>1. (u + m) - v \in Int
      BY <1>3
    <2> HIDE DEF d
    <2> QED  BY <1>5, <1>6, <2>1, ModIs
  <1> QED  BY <1>2, <1>7 DEF Within, h

\* A timeout a few ticks ahead.
LEMMA OffAdd ==
    ASSUME NEW t \in Tick, NEW n \in Nat, n <= TickMax \div 2
    PROVE  (t + n) % TickMod \in Tick /\ Off((t + n) % TickMod, t) = n
  <1>1. t \in Int /\ 0 <= t /\ t < TickMod
    BY HalfTick DEF Tick
  <1>2. PICK v \in Tick : t + n = v \/ t + n = v + TickMod
    <2>1. n \in Int /\ 0 <= n /\ n < TickMod
      BY HalfTick
    <2>2. CASE t + n < TickMod
      <3>1. t + n \in Tick /\ t + n = t + n
        BY <1>1, <2>1, <2>2, HalfTick DEF Tick
      <3> QED  BY <3>1
    <2>3. CASE t + n >= TickMod
      <3>1. t + n - TickMod \in Tick /\ t + n = t + n - TickMod + TickMod
        BY <1>1, <2>1, <2>3, HalfTick DEF Tick
      <3> QED  BY <3>1
    <2> QED  BY <1>1, <2>1, <2>2, <2>3, HalfTick
  <1>3. (t + n) % TickMod = v
    <2>1. t + n \in Int
      BY <1>1
    <2> QED  BY <1>2, <2>1, ModIs
  <1>4. Off(v, t) = n
    BY <1>1, <1>2, OffIs, HalfTick
  <1> QED  BY <1>3, <1>4

\* The tick itself.
LEMMA OffSelf == ASSUME NEW t \in Tick PROVE Off(t, t) = 0
  BY HalfTick DEF Off, Tick

\* The next tick.
LEMMA OffNext ==
    ASSUME NEW v \in Tick, NEW t \in Tick, Off(v, t) > - (TickMax \div 2)
    PROVE  (t + 1) % TickMod \in Tick /\ Off(v, (t + 1) % TickMod) = Off(v, t) - 1
  <1>1. t \in Int /\ 0 <= t /\ t < TickMod
    BY HalfTick DEF Tick
  <1>2. PICK n \in Tick : n = IF t + 1 < TickMod THEN t + 1 ELSE t + 1 - TickMod
    BY <1>1, HalfTick DEF Tick
  <1>3. (t + 1) % TickMod = n
    <2>1. t + 1 \in Int /\ (t + 1 = n \/ t + 1 = n + TickMod)
      BY <1>1, <1>2, HalfTick
    <2> QED  BY <2>1, ModIs
  <1> DEFINE o == Off(v, t)
  <1>4. /\ o \in Int /\ - (TickMax \div 2) < o /\ o <= TickMax \div 2
        /\ v = t + o \/ v = t + o + TickMod \/ v = t + o - TickMod
    BY OffForm
  <1> HIDE DEF o
  <1>5. Off(v, n) = o - 1
    <2>1. PICK p \in Int : p = o - 1
      BY <1>4
    <2>2. - (TickMax \div 2) <= p /\ p <= TickMax \div 2
      BY <1>4, <2>1, HalfTick
    <2>3. n \in Int /\ v \in Int /\ 0 <= v /\ v < TickMod /\ 0 <= n /\ n < TickMod
      BY HalfTick DEF Tick
    <2>4. v = n + p \/ v = n + p + TickMod \/ v = n + p - TickMod
      BY <1>1, <1>2, <1>4, <2>1, <2>2, <2>3, HalfTick
    <2> QED  BY <2>1, <2>2, <2>4, OffIs
  <1> QED  BY <1>3, <1>5 DEF o

\* What the tick does not pass over.
LEMMA OffLag ==
    ASSUME NEW v \in Tick, NEW t \in Tick, - (TickMax \div 2) <= Off(v, t),
           (t - v) % TickMod \notin MaxLag .. TickMax \div 2
    PROVE  Off(v, t) > - MaxLag
  <1> DEFINE o == Off(v, t)
  <1>1. /\ o \in Int /\ - (TickMax \div 2) <= o
        /\ v = t + o \/ v = t + o + TickMod \/ v = t + o - TickMod
    BY OffForm
  <1> HIDE DEF o
  <1>2. MaxLag \in Int /\ MaxLag >= 1 /\ t \in Int /\ v \in Int
    BY SoftTimerAssumption DEF Tick
  <1>3. ASSUME o <= - MaxLag PROVE FALSE
    <2>1. PICK d \in Tick : d = - o
      BY <1>1, <1>2, <1>3, HalfTick DEF Tick
    <2>2. t - v = d \/ t - v = d + TickMod \/ t - v = d - TickMod
      BY <1>1, <1>2, <2>1, HalfTick
    <2>3. (t - v) % TickMod = d
      BY <1>2, <2>1, <2>2, ModIs
    <2> QED  BY <1>1, <1>2, <1>3, <2>1, <2>3, HalfTick DEF o
  <1> QED  BY <1>1, <1>2, <1>3 DEF o

\* The delta to a tick that lies ahead.
LEMMA OffDelta ==
    ASSUME NEW v \in Tick, NEW t \in Tick, 0 <= Off(v, t)
    PROVE  (v - t) % TickMod = Off(v, t)
  <1> DEFINE o == Off(v, t)
  <1>1. /\ o \in Int /\ o <= TickMax \div 2 /\ 0 <= o
        /\ v = t + o \/ v = t + o + TickMod \/ v = t + o - TickMod
    BY OffForm
  <1> HIDE DEF o
  <1>2. o \in Tick /\ v \in Int /\ t \in Int
    BY <1>1, HalfTick DEF Tick
  <1>3. v - t \in Int /\ (v - t = o \/ v - t = o + TickMod \/ v - t = o - TickMod)
    BY <1>1, <1>2, HalfTick
  <1> QED  BY <1>2, <1>3, ModIs DEF o

-----------------------------------------------------------------------------
(* The order of the list *)

\* How far ahead of the tick t the timeouts d lie.
Aheads(d, t) == [x \in Timer |-> Off(d[x], t)]

\* While the timeouts on a list and that of x lie within less than half the
\* range of the tick, rt_timer_start keeps the list in order.
LEMMA LinkedInOrder ==
    ASSUME NEW l \in Seq(Timer), NEW d \in [Timer -> Tick], NEW t \in Tick, NEW x \in Timer,
           ByUrgency(l, Aheads(d, t)),
           \A y \in ToSet(l) : /\ Off(d[y], t) - Off(d[x], t) < TickMax \div 2
                               /\ Off(d[x], t) - Off(d[y], t) < TickMax \div 2
    PROVE  ByUrgency(Linked(l, d, x), Aheads(d, t))
  <1> DEFINE P == {j \in 1 .. Len(l) : d[l[j]] # d[x] /\ Within(d[l[j]], d[x])}
             i == IF P # {} THEN Min(P) ELSE 0
  <1>1. PICK a : a = Aheads(d, t)
    OBVIOUS
  <1>2. \A y \in Timer : a[y] \in Int /\ a[y] = Off(d[y], t)
    BY <1>1, OffForm DEF Aheads
  <1>3. Linked(l, d, x) = IF i = 0 THEN Append(l, x) ELSE InsertAt(l, i, x)
    BY DEF Linked, SelectInSeq
  <1>4. P = {j \in 1 .. Len(l) : a[x] < a[l[j]]}
    <2> SUFFICES ASSUME NEW j \in 1 .. Len(l)
                 PROVE  d[l[j]] # d[x] /\ Within(d[l[j]], d[x]) <=> a[x] < a[l[j]]
      OBVIOUS
    <2>1. PICK y \in Timer : y = l[j] /\ y \in ToSet(l)
      BY LenProperties, ElementOfSeq DEF ToSet
    <2>2. d[y] \in Tick /\ d[x] \in Tick
      OBVIOUS
    <2>3. /\ Within(d[y], d[x]) <=> Off(d[y], t) >= Off(d[x], t)
          /\ d[y] = d[x] <=> Off(d[y], t) = Off(d[x], t)
      BY <2>1, <2>2, WithinOff
    <2>4. a[y] \in Int /\ a[x] \in Int /\ a[y] = Off(d[y], t) /\ a[x] = Off(d[x], t)
      BY <1>2
    <2> QED  BY <2>1, <2>3, <2>4
  <1>5. \A y \in Timer : a[y] \in Int
    BY <1>2
  <1>6. ByUrgency(l, a)
    BY <1>1
  <1>7. LET Q == {j \in 1 .. Len(l) : a[x] < a[l[j]]}
            m == IF Q # {} THEN Min(Q) ELSE 0
        IN  ByUrgency(IF m = 0 THEN Append(l, x) ELSE InsertAt(l, m, x), a)
    BY <1>5, <1>6, InsertInOrder
  <1> HIDE DEF P
  <1> QED  BY <1>1, <1>3, <1>4, <1>7

\* The first timer of a list is the one that is due first.
LEMMA FirstLeast ==
    ASSUME NEW l \in Seq(Timer), l # << >>, NEW a, \A y \in Timer : a[y] \in Int,
           ByUrgency(l, a)
    PROVE  l[1] \in ToSet(l) /\ l[1] \in Timer /\ \A y \in ToSet(l) : a[l[1]] <= a[y]
  <1>1. Len(l) \in Nat /\ Len(l) > 0 /\ DOMAIN l = 1 .. Len(l)
    BY EmptySeq, LenProperties
  <1>2. l[1] \in ToSet(l) /\ l[1] \in Timer
    BY <1>1, ElementOfSeq DEF ToSet
  <1>3. ASSUME NEW y \in ToSet(l) PROVE a[l[1]] <= a[y]
    <2>1. PICK j \in 1 .. Len(l) : l[j] = y
      BY <1>1 DEF ToSet
    <2>2. CASE j = 1
      BY <1>2, <2>1, <2>2
    <2>3. CASE j # 1
      BY <1>1, <2>1, <2>3 DEF ByUrgency
    <2> QED  BY <2>2, <2>3
  <1> QED  BY <1>2, <1>3

\* The order is that of the timeouts on the list alone.
LEMMA OrderAgrees ==
    ASSUME NEW l \in Seq(Timer), NEW a, NEW b, \A y \in ToSet(l) : b[y] = a[y],
           ByUrgency(l, a)
    PROVE  ByUrgency(l, b)
  <1>1. \A i \in 1 .. Len(l) : l[i] \in ToSet(l)
    BY LenProperties DEF ToSet
  <1>2. \A i \in 1 .. Len(l) : b[l[i]] = a[l[i]]
    BY <1>1
  <1> QED  BY <1>2 DEF ByUrgency

-----------------------------------------------------------------------------
(* The spread of the timeouts *)

\* No period is longer than P, and the timeouts on the list, which lie P ahead
\* to P and MaxLag behind the tick, span less than half of its range.
ShortPeriods(P) ==
    /\ P \in Nat \ {0} /\ \A x \in Timer : Period[x] <= P
    /\ 2 * P + MaxLag < TickMax \div 2

Ahead == Aheads(due, tick)

\* The list is in the order of the timeouts, none of which lies far from the tick.
Spread(P) ==
    /\ ByUrgency(list, Ahead)
    /\ \A x \in ToSet(list) : Ahead[x] \in - (P + MaxLag) .. P
    /\ \A t \in Thread : pc[t] = "link" => Ahead[arg[t]] \in - MaxLag .. P

\* What the timer thread has read of the list on its way to rt_thread_delay is
\* true still.
Planned(P) ==
    /\ pc[Daemon] \in {"peek", "now", "delay"} => list # << >>
    /\ pc[Daemon] = "now" => loc.nt = due[list[1]]
    /\ pc[Daemon] = "delay" => /\ Off(loc.ct, tick) \in - MaxLag .. 0
                               /\ loc.nt \in 0 .. P
                               /\ Ahead[list[1]] = Off(loc.ct, tick) + loc.nt

\* The delay ends before any timeout on the list is far behind.
InTime(P) ==
    Daemon \in k.tmr =>
        /\ Off(wake, tick) \in 0 .. P
        /\ \A x \in ToSet(list) : /\ Ahead[x] >= Off(wake, tick) - P - MaxLag
                                  /\ Ahead[x] >= 1 - P - MaxLag
        /\ list # << >> => Ahead[list[1]] >= Off(wake, tick) - MaxLag \/ Kicked

Timing(P) == Spread(P) /\ Planned(P) /\ InTime(P)

LEMMA Sizes ==
    ASSUME NEW P, ShortPeriods(P)
    PROVE  /\ P \in Int /\ P >= 1 /\ MaxLag \in Int /\ MaxLag >= 1
           /\ 2 * P + MaxLag < TickMax \div 2 /\ TickMax \div 2 \in Int
           /\ \A x \in Timer : Period[x] \in 1 .. P /\ Period[x] <= TickMax \div 2
  BY HalfTick, SoftTimerAssumption DEF ShortPeriods

LEMMA AheadInt ==
    ASSUME SoftInv
    PROVE  /\ \A x \in Timer : Ahead[x] = Off(due[x], tick) /\ Ahead[x] \in Int
           /\ \A x \in ToSet(list) : x \in Timer
           /\ Off(wake, tick) \in Int /\ Off(loc.ct, tick) \in Int
  <1> USE Types
  <1>1. \A x \in ToSet(list) : x \in Timer
    BY LenProperties, ElementOfSeq DEF ToSet
  <1> QED  BY <1>1, OffForm DEF Ahead, Aheads

-----------------------------------------------------------------------------
(* The order and the delay, step by step *)

\* A timer thread that is in its delay is suspended where it suspended itself.
LEMMA DelayedWhere ==
    ASSUME SoftInv, Daemon \in k.tmr
    PROVE  k.stat[Daemon] = "SUSPEND" /\ pc[Daemon] \in {"blocked", "check"}
  BY DEF SoftInv, Scheduler, DaemonState, Suspended

\* A step that leaves the list and the timeouts alone.
LEMMA SameTiming ==
    ASSUME NEW P, Timing(P), UNCHANGED <<list, due, tick>>, Planned(P)',
           \A t \in Thread : pc'[t] = "link" => pc[t] = "link" /\ arg'[t] = arg[t],
           Daemon \in k'.tmr => Daemon \in k.tmr /\ UNCHANGED wake /\ (Kicked => Kicked')
    PROVE  Timing(P)'
  <1>1. Spread(P)'
    BY DEF Timing, Spread, Ahead, Aheads
  <1>2. InTime(P)'
    BY DEF Timing, InTime, Ahead, Aheads
  <1> QED  BY <1>1, <1>2 DEF Timing

\* A step that takes a timer off the list.
LEMMA ShrinkTiming ==
    ASSUME SoftInv, NEW P, Timing(P), NEW x, list' = RemoveFirst(list, x),
           UNCHANGED <<due, tick, wake>>,
           pc'[Daemon] \notin {"peek", "now", "delay"},
           \A t \in Thread : pc'[t] = "link" => pc[t] = "link" /\ arg'[t] = arg[t],
           Daemon \in k'.tmr => Daemon \in k.tmr /\ (Kicked => Kicked')
    PROVE  Timing(P)'
  <1> USE Types, AheadInt
  <1>1. /\ list' \in Seq(Timer) /\ ToSet(list') = ToSet(list) \ {x}
        /\ list = << >> => list' = << >>
    BY Unlinked
  <1>2. Ahead' = Ahead
    BY DEF Ahead, Aheads
  <1>3. ByUrgency(list', Ahead)
    BY RemoveFirstInOrder DEF Timing, Spread
  <1>4. Spread(P)'
    BY <1>1, <1>2, <1>3 DEF Timing, Spread
  <1>5. Planned(P)'
    BY DEF Planned
  <1>6. InTime(P)'
    <2> SUFFICES ASSUME Daemon \in k'.tmr, list' # << >>,
                        ~ Kicked'
                 PROVE  Ahead[list'[1]] >= Off(wake, tick) - MaxLag
      BY <1>1, <1>2 DEF Timing, InTime
    <2>1. list # << >> /\ Ahead[list[1]] >= Off(wake, tick) - MaxLag
      BY <1>1 DEF Timing, InTime
    <2>2. list[1] \in Timer /\ \A y \in ToSet(list) : Ahead[list[1]] <= Ahead[y]
      BY <2>1, FirstLeast DEF Timing, Spread
    <2>3. list'[1] \in ToSet(list')
      BY <1>1, <1>3, FirstLeast
    <2>4. list'[1] \in ToSet(list)
      BY <1>1, <2>3
    <2> QED  BY <2>1, <2>2, <2>4, SoftTimerAssumption
  <1> QED  BY <1>4, <1>5, <1>6 DEF Timing

\* What an insertion makes of a list in order.
LEMMA LinkSpread ==
    ASSUME NEW P, ShortPeriods(P), NEW l \in Seq(Timer), NEW d \in [Timer -> Tick],
           NEW t \in Tick, NEW x \in Timer, ByUrgency(l, Aheads(d, t)),
           \A y \in ToSet(l) : Aheads(d, t)[y] \in - (P + MaxLag) .. P,
           Aheads(d, t)[x] \in - (P + MaxLag) .. P
    PROVE  /\ Linked(l, d, x) \in Seq(Timer)
           /\ ByUrgency(Linked(l, d, x), Aheads(d, t))
           /\ \A y \in ToSet(Linked(l, d, x)) : Aheads(d, t)[y] \in - (P + MaxLag) .. P
  <1>1. Linked(l, d, x) \in Seq(Timer) /\ ToSet(Linked(l, d, x)) = ToSet(l) \cup {x}
    BY LinkedList
  <1>2. \A y \in ToSet(l) : y \in Timer
    BY LenProperties, ElementOfSeq DEF ToSet
  <1>3. \A y \in ToSet(l) \cup {x} :
            /\ Off(d[y], t) \in Int /\ Off(d[y], t) <= P
            /\ - (P + MaxLag) <= Off(d[y], t)
    <2> SUFFICES ASSUME NEW y \in ToSet(l) \cup {x}
                 PROVE  /\ Off(d[y], t) \in Int /\ Off(d[y], t) <= P
                        /\ - (P + MaxLag) <= Off(d[y], t)
      OBVIOUS
    <2>1. y \in Timer /\ Aheads(d, t)[y] = Off(d[y], t)
      BY <1>2 DEF Aheads
    <2>2. Off(d[y], t) \in - (P + MaxLag) .. P
      BY <2>1
    <2> QED  BY <2>2, Sizes
  <1>4. \A y \in ToSet(l) : /\ Off(d[y], t) - Off(d[x], t) < TickMax \div 2
                            /\ Off(d[x], t) - Off(d[y], t) < TickMax \div 2
    <2> HIDE DEF ToSet
    <2> SUFFICES ASSUME NEW y \in ToSet(l)
                 PROVE  /\ Off(d[y], t) - Off(d[x], t) < TickMax \div 2
                        /\ Off(d[x], t) - Off(d[y], t) < TickMax \div 2
      OBVIOUS
    <2> QED  BY <1>3, Sizes
  <1>5. ByUrgency(Linked(l, d, x), Aheads(d, t))
    BY <1>4, LinkedInOrder
  <1> QED  BY <1>1, <1>5

Kicks == {"kick", "resume", "unlink", "insert"}

\* Somebody stays about to resume the timer thread.
LEMMA KickedStays ==
    ASSUME SoftInv, NEW l \in Pc, Goto(l), pc[Me] \in Kicks => l \in Kicks, Kicked
    PROVE  Kicked'
  <1>1. /\ Me \in Thread /\ pc'[Me] = l
        /\ \A t \in Thread : t # Me => pc'[t] = pc[t]
    BY Going
  <1>2. PICK t \in Thread : pc[t] \in Kicks
    BY DEF Kicked, Kicks
  <1>3. pc'[t] \in Kicks
    BY <1>1, <1>2
  <1> QED  BY <1>3 DEF Kicked, Kicks

LEMMA StartBeginTiming ==
    ASSUME OwnedFromBelow, SoftInv, NEW P, Timing(P), NEW x \in Timer, StartBegin(x)
    PROVE  Timing(P)'
  <1> USE Types
  <1>1. /\ MayUse(x) /\ list' = RemoveFirst(list, x) /\ Goto("arm")
        /\ arg' = [arg EXCEPT ![Me] = x]
        /\ UNCHANGED <<k, tick, due, wake>>
    BY DEF StartBegin
  <1>2. /\ Me \in Thread /\ pc'[Me] = "arm"
        /\ \A t \in Thread : t # Me => pc'[t] = pc[t] /\ arg'[t] = arg[t]
    BY <1>1, Going DEF Pc, StartPc
  <1>3. pc[Me] \in {"run", "call"}
    BY <1>1 DEF MayUse, At
  <1>4. Kicked => Kicked'
    BY <1>1, <1>3, KickedStays DEF Kicks, Pc, StartPc
  <1>5. pc'[Daemon] \notin {"peek", "now", "delay"}
    <2>1. CASE Me = Daemon
      BY <1>2, <2>1
    <2>2. CASE Me # Daemon
      <3>1. Acting
        BY <1>1, <2>2, CallInDaemon DEF MayUse, Acting
      <3> QED  BY <1>2, <2>2, <3>1, OwnerRuns
    <2> QED  BY <2>1, <2>2
  <1>6. \A t \in Thread : pc'[t] = "link" => pc[t] = "link" /\ arg'[t] = arg[t]
    BY <1>2
  <1> QED  BY <1>1, <1>4, <1>5, <1>6, ShrinkTiming

LEMMA StopBeginTiming ==
    ASSUME OwnedFromBelow, SoftInv, NEW P, Timing(P), NEW x \in Timer, StopBegin(x)
    PROVE  Timing(P)'
  <1> USE Types
  <1>1. /\ At("run") /\ Owner[x] = Me /\ list' = RemoveFirst(list, x) /\ Goto("unflag")
        /\ arg' = [arg EXCEPT ![Me] = x]
        /\ UNCHANGED <<k, tick, due, wake>>
    BY DEF StopBegin
  <1>2. /\ Me \in Thread /\ pc[Me] = "run" /\ Me # Daemon /\ pc'[Me] = "unflag"
        /\ \A t \in Thread : t # Me => pc'[t] = pc[t] /\ arg'[t] = arg[t]
    BY <1>1, Going, SoftTimerAssumption DEF Pc, StartPc, At
  <1>3. Kicked => Kicked'
    BY <1>1, <1>2, KickedStays DEF Kicks, Pc, StartPc
  <1>4. pc'[Daemon] \notin {"peek", "now", "delay"}
    <2>1. Acting
      BY <1>1 DEF Acting
    <2> QED  BY <1>2, <2>1, OwnerRuns
  <1>5. \A t \in Thread : pc'[t] = "link" => pc[t] = "link" /\ arg'[t] = arg[t]
    BY <1>2
  <1> QED  BY <1>1, <1>3, <1>4, <1>5, ShrinkTiming

\* The timer that is given its timeout is on no list and nobody else's.
LEMMA StartArmTiming ==
    ASSUME OwnedFromBelow, SoftInv, NEW P, ShortPeriods(P), Timing(P), StartArm
    PROVE  Timing(P)'
  <1> USE Types
  <1> DEFINE x == arg[Me]
  <1>1. /\ At("arm") /\ Goto("link")
        /\ due' = [due EXCEPT ![x] = (tick + Period[x]) % TickMod]
        /\ UNCHANGED <<k, tick, list, wake, arg, loc>>
    BY DEF StartArm
  <1>2. /\ Me \in Thread /\ pc[Me] = "arm" /\ pc'[Me] = "link"
        /\ \A t \in Thread : t # Me => pc'[t] = pc[t]
    BY <1>1, Going DEF Pc, StartPc, At
  <1>3. x \in Timer
    BY <1>2 DEF SoftInv, Places, StartPc
  <1>4. Off(due'[x], tick) \in 0 .. P
    <2>1. Period[x] \in 1 .. P /\ Period[x] <= TickMax \div 2
      BY <1>3, Sizes
    <2>2. Period[x] \in Nat
      BY <2>1
    <2>3. Off((tick + Period[x]) % TickMod, tick) = Period[x]
      BY <2>1, <2>2, OffAdd
    <2>4. due'[x] = (tick + Period[x]) % TickMod
      BY <1>1, <1>3
    <2> QED  BY <2>1, <2>3, <2>4
  <1>5. /\ x \notin ToSet(list)
        /\ \A t \in Thread : pc[t] = "link" => arg[t] # x
        /\ pc[Daemon] \notin {"peek", "now", "delay"}
    <2>1. CASE Me = Daemon
      <3>1. x = loc.t /\ pc[Daemon] = "arm" /\ InCallback
        BY <1>2, <1>3, <2>1 DEF SoftInv, Cursor, InCallback, StartPc
      <3>2. x \notin ToSet(list)
        BY <3>1 DEF SoftInv, Cursor
      <3>3. \A t \in Thread : pc[t] = "link" => arg[t] # x
        BY <3>1 DEF SoftInv, Listing, Fires
      <3> QED  BY <3>1, <3>2, <3>3
    <2>2. CASE Me # Daemon
      <3>1. Acting
        BY <1>2 DEF Acting, StartPc
      <3>2. pc[Daemon] \in {"blocked", "check"}
        BY <2>2, <3>1, OwnerRuns
      <3>3. x \notin ToSet(list)
        BY <1>2, <2>2 DEF SoftInv, Listing
      <3>4. \A t \in Thread \ {Daemon} : pc[t] \in StartPc => t = Me
        BY <1>2, <2>2, <3>1, OnlyOwner
      <3>5. \A t \in Thread : pc[t] # "link"
        BY <1>2, <3>2, <3>4 DEF StartPc
      <3> QED  BY <3>2, <3>3, <3>5
    <2> QED  BY <2>1, <2>2
  <1>6. \A y \in Timer : y # x => Ahead'[y] = Ahead[y]
    BY <1>1 DEF Ahead, Aheads
  <1>7. Ahead'[x] \in 0 .. P
    BY <1>1, <1>3, <1>4 DEF Ahead, Aheads
  <1>8. \A y \in ToSet(list) : y \in Timer /\ y # x
    BY <1>5, AheadInt
  <1> HIDE DEF x
  <1>9. Spread(P)'
    <2>1. ByUrgency(list, Ahead')
      <3>1. \A y \in ToSet(list) : Ahead'[y] = Ahead[y]
        BY <1>6, <1>8
      <3>2. ByUrgency(list, Ahead)
        BY DEF Timing, Spread
      <3> QED  BY <3>1, <3>2, OrderAgrees
    <2>2. \A y \in ToSet(list) : Ahead'[y] \in - (P + MaxLag) .. P
      BY <1>6, <1>8 DEF Timing, Spread
    <2>3. ASSUME NEW t \in Thread, pc'[t] = "link" PROVE Ahead'[arg[t]] \in - MaxLag .. P
      <3>1. CASE t = Me
        <4>1. Ahead'[arg[t]] \in 0 .. P
          BY <1>7, <3>1 DEF x
        <4> QED  BY <4>1, Sizes
      <3>2. CASE t # Me
        <4>1. pc[t] = "link" /\ arg[t] # x
          BY <1>2, <1>5, <2>3, <3>2
        <4>2. arg[t] \in Timer
          BY <4>1 DEF SoftInv, Places, StartPc
        <4> QED  BY <1>6, <4>1, <4>2 DEF Timing, Spread
      <3> QED  BY <3>1, <3>2
    <2> QED  BY <1>1, <2>1, <2>2, <2>3 DEF Spread
  <1>10. pc'[Daemon] \notin {"peek", "now", "delay"}
    BY <1>2, <1>5
  <1>11. Planned(P)'
    BY <1>10 DEF Planned
  <1>12. Kicked => Kicked'
    BY <1>1, <1>2, KickedStays DEF Kicks, Pc, StartPc
  <1>13. InTime(P)'
    <2>1. \A y \in ToSet(list) : Ahead'[y] = Ahead[y]
      BY <1>6, <1>8
    <2>2. list # << >> => list[1] \in ToSet(list)
      BY AheadInt, FirstLeast DEF Timing, Spread
    <2> QED  BY <1>1, <1>12, <2>1, <2>2 DEF Timing, InTime
  <1> QED  BY <1>9, <1>11, <1>13 DEF Timing

\* The timer that goes on the list is at most MaxLag ticks behind.
LEMMA StartLinkTiming ==
    ASSUME OwnedFromBelow, SoftInv, NEW P, ShortPeriods(P), Timing(P), StartLink
    PROVE  Timing(P)'
  <1> USE Types
  <1> DEFINE x == arg[Me]
  <1>1. /\ At("link") /\ Goto("kick") /\ list' = Linked(list, due, x)
        /\ UNCHANGED <<k, tick, due, wake, arg>>
    BY DEF StartLink
  <1>2. /\ Me \in Thread /\ pc[Me] = "link" /\ pc'[Me] = "kick"
        /\ \A t \in Thread : t # Me => pc'[t] = pc[t]
    BY <1>1, Going DEF Pc, StartPc, At
  <1>3. x \in Timer /\ Ahead[x] \in - MaxLag .. P
    BY <1>2 DEF SoftInv, Places, StartPc, Timing, Spread
  <1>4. Ahead[x] \in - (P + MaxLag) .. P
    <2>1. PICK o : o = Ahead[x] /\ o \in - MaxLag .. P
      BY <1>3
    <2> QED  BY <2>1, Sizes
  <1> HIDE DEF x
  <1>5. /\ ByUrgency(list', Ahead)
        /\ \A y \in ToSet(list') : Ahead[y] \in - (P + MaxLag) .. P
    BY <1>1, <1>3, <1>4, LinkSpread DEF Timing, Spread, Ahead
  <1>6. ToSet(list') = ToSet(list) \cup {x}
    BY <1>1, <1>3, LinkedList
  <1>7. Ahead' = Ahead
    BY <1>1 DEF Ahead, Aheads
  <1>8. Spread(P)'
    BY <1>1, <1>2, <1>5, <1>7 DEF Timing, Spread
  <1>9. Planned(P)'
    <2>1. CASE Me = Daemon
      BY <1>2, <2>1 DEF Planned
    <2>2. CASE Me # Daemon
      <3>1. Acting
        BY <1>2 DEF Acting, StartPc
      <3>2. pc'[Daemon] \in {"blocked", "check"}
        BY <1>2, <2>2, <3>1, OwnerRuns
      <3> QED  BY <3>2 DEF Planned
    <2> QED  BY <2>1, <2>2
  <1>10. InTime(P)'
    <2> SUFFICES ASSUME Daemon \in k.tmr
                 PROVE  /\ Off(wake, tick) \in 0 .. P
                        /\ \A y \in ToSet(list) \cup {x} :
                               /\ Ahead[y] >= Off(wake, tick) - P - MaxLag
                               /\ Ahead[y] >= 1 - P - MaxLag
                        /\ Kicked'
      BY <1>1, <1>6, <1>7 DEF InTime
    <2>1. Kicked'
      BY <1>2 DEF Kicked
    <2>2. Off(wake, tick) \in 0 .. P
      BY DEF Timing, InTime
    <2>3. Ahead[x] >= Off(wake, tick) - P - MaxLag /\ Ahead[x] >= 1 - P - MaxLag
      <3>1. PICK o : o = Ahead[x] /\ o \in - MaxLag .. P
        BY <1>3
      <3>2. PICK w : w = Off(wake, tick) /\ w \in 0 .. P
        BY <2>2
      <3> QED  BY <3>1, <3>2, Sizes
    <2> QED  BY <2>1, <2>2, <2>3 DEF Timing, InTime
  <1> QED  BY <1>8, <1>9, <1>10 DEF Timing

\* The rest of rt_timer_start and rt_timer_stop.
LEMMA CallRestTiming ==
    ASSUME OwnedFromBelow, SoftInv, NEW P, Timing(P),
           StartKick \/ ResumeTest \/ ResumeUnlink \/ ResumeInsert \/ StartSchedule
           \/ StopEnd
    PROVE  Timing(P)'
  <1> USE Types
  <1>1. /\ pc[Me] \in {"kick", "resume", "unlink", "insert", "pend", "unflag"}
        /\ UNCHANGED <<list, due, tick, loc>>
        /\ \A t \in Thread : t # Me => arg'[t] = arg[t]
    BY DEF StartKick, ResumeTest, ResumeUnlink, ResumeInsert, StartSchedule, StopEnd, At,
           timerVars, Return, ReturnIf
  <1>2. PICK l \in {"called", "run", "resume", "unlink", "pend", "insert"} : Goto(l)
    BY DEF StartKick, ResumeTest, ResumeUnlink, ResumeInsert, StartSchedule, StopEnd,
           Return, ReturnIf
  <1>3. /\ Me \in Thread /\ pc'[Me] = l
        /\ \A t \in Thread : t # Me => pc'[t] = pc[t]
    BY <1>2, Going DEF Pc, StartPc, DaemonPc
  <1>4. \A t \in Thread : pc'[t] = "link" => pc[t] = "link" /\ arg'[t] = arg[t]
    BY <1>1, <1>3
  <1>5. Planned(P)'
    <2>1. CASE Me = Daemon
      BY <1>3, <2>1 DEF Planned
    <2>2. CASE Me # Daemon
      <3>1. pc'[Daemon] = pc[Daemon]
        BY <1>3, <2>2
      <3> QED  BY <1>1, <3>1 DEF Timing, Planned, Ahead, Aheads
    <2> QED  BY <2>1, <2>2
  <1>6. Daemon \in k'.tmr => Daemon \in k.tmr /\ UNCHANGED wake /\ (Kicked => Kicked')
    <2>1. CASE StartKick \/ ResumeTest
      <3>1. UNCHANGED <<k, wake>> /\ pc[Me] \in {"kick", "resume"}
        BY <2>1 DEF StartKick, ResumeTest, At
      <3>2. ASSUME Daemon \in k.tmr PROVE l \in {"resume", "unlink"}
        <4>1. k.stat[Daemon] = "SUSPEND"
          BY <3>2, DelayedWhere
        <4>2. pc'[Me] \in {"resume", "unlink"}
          BY <1>3, <2>1, <4>1 DEF StartKick, ResumeTest, ReturnIf, Goto
        <4> QED  BY <1>3, <4>2
      <3>3. Daemon \in k.tmr => (Kicked => Kicked')
        BY <1>2, <3>2, KickedStays DEF Kicks, Pc, StartPc
      <3> QED  BY <3>1, <3>3
    <2>2. CASE ResumeUnlink
      <3>1. k' = ResumeOff(k, Daemon) /\ pc[Me] = "unlink"
        BY <2>2 DEF ResumeUnlink, At
      <3>2. Me # Daemon /\ Acting
        BY <3>1 DEF SoftInv, Places, DaemonPc, Acting, StartPc
      <3>3. k.stat[Daemon] # "READY"
        BY <3>2, OwnerRuns DEF Suspended
      <3>4. k'.tmr = k.tmr \ {Daemon}
        BY <3>1, <3>3, ResumeOffEffect
      <3> QED  BY <3>4
    <2>3. CASE ResumeInsert
      <3>1. k' = InsertThread(k, Daemon) /\ pc[Me] = "insert"
        BY <2>3 DEF ResumeInsert, At
      <3>2. Me # Daemon
        BY <3>1 DEF SoftInv, Places, DaemonPc
      <3>3. k.stat[Daemon] = "SUSPEND" /\ Daemon \notin k.tmr
        BY <1>3, <3>1, <3>2 DEF SoftInv, Places, PlaceOf, Asleep
      <3>4. QueuesOK(k) /\ k.stat[Daemon] # "READY"
        BY <3>3 DEF KernelOK, QueuesOK
      <3>5. k'.tmr = k.tmr
        BY <3>1, <3>4, InsertThreadQueues
      <3> QED  BY <3>3, <3>5
    <2>4. CASE StartSchedule \/ StopEnd
      <3>1. k' = Schedule(k) \/ k' = k
        BY <2>4 DEF StartSchedule, StopEnd
      <3>2. k'.tmr = k.tmr
        BY <3>1, ScheduleEffect
      <3>3. UNCHANGED wake /\ pc[Me] \in {"pend", "unflag"}
        BY <2>4 DEF StartSchedule, StopEnd, At
      <3>4. Kicked => Kicked'
        BY <1>2, <3>3, KickedStays DEF Kicks, Pc, StartPc, DaemonPc
      <3> QED  BY <3>2, <3>3, <3>4
    <2> QED  BY <2>1, <2>2, <2>3, <2>4
  <1> QED  BY <1>1, <1>4, <1>5, <1>6, SameTiming

\* A thread that waits, and its event.
LEMMA OthersTiming ==
    ASSUME SoftInv, NEW P, Timing(P), Rest \/ \E t \in Thread : IsrWake(t)
    PROVE  Timing(P)'
  <1> USE Types
  <1>1. UNCHANGED <<tick, list, due, wake, pc, arg, loc>>
    BY DEF Rest, IsrWake, timerVars
  <1>2. k'.tmr \subseteq k.tmr
    <2>1. CASE Rest
      <3> DEFINE m == Suspend(k, Me)
      <3>1. Me \in Thread \ {Daemon} /\ k' = Schedule(m)
        BY <2>1 DEF Rest, Me
      <3>2. k.stat[Me] = "RUNNING"
        BY <3>1, RunsWhenActing DEF DaemonAt
      <3>3. m \in KernelState /\ KernelOK(m) /\ m.tmr = k.tmr \ {Me}
        BY <3>1, <3>2, SuspendEffect
      <3> HIDE DEF m
      <3>4. k'.tmr = m.tmr
        BY <3>1, <3>3, ScheduleEffect
      <3> QED  BY <3>3, <3>4
    <2>2. ASSUME NEW t \in Thread, IsrWake(t) PROVE k'.tmr \subseteq k.tmr
      <3> DEFINE m == Resume(k, t)
      <3>1. k.stat[t] = "SUSPEND" /\ k' = Schedule(m)
        BY <2>2 DEF IsrWake
      <3>2. m \in KernelState /\ KernelOK(m) /\ m.tmr = k.tmr \ {t}
        <4>1. k \in KernelState /\ KernelOK(k) /\ t \in Thread
          OBVIOUS
        <4> QED  BY ONLY <3>1, <4>1, ResumeEffect
      <3> HIDE DEF m
      <3>3. k'.tmr = m.tmr
        BY <3>1, <3>2, ScheduleEffect
      <3> QED  BY <3>2, <3>3
    <2> QED  BY <2>1, <2>2
  <1>3. Planned(P)' /\ (Kicked => Kicked')
    BY <1>1 DEF Timing, Planned, Ahead, Aheads, Kicked
  <1> QED  BY <1>1, <1>2, <1>3, SameTiming

\* The timer thread, where it leaves the list alone.
LEMMA DaemonTiming ==
    ASSUME SoftInv, SoftInv', NEW P, Timing(P), Me = Daemon, NEW l \in DaemonPc, Goto(l),
           UNCHANGED <<list, due, tick, arg>>, Planned(P)',
           l \in {"blocked", "check"} =>
               (Daemon \in k'.tmr => Daemon \in k.tmr /\ UNCHANGED wake /\ (Kicked => Kicked'))
    PROVE  Timing(P)'
  <1>1. /\ pc'[Daemon] = l
        /\ \A t \in Thread \ {Daemon} : pc'[t] = pc[t] /\ arg'[t] = arg[t]
    BY DaemonGoes
  <1>2. Daemon \in k'.tmr => pc'[Daemon] \in {"blocked", "check"}
    BY DEF SoftInv, Scheduler, DaemonState, Suspended
  <1>3. Daemon \in k'.tmr => Daemon \in k.tmr /\ UNCHANGED wake /\ (Kicked => Kicked')
    BY <1>1, <1>2
  <1>4. \A t \in Thread : pc'[t] = "link" => pc[t] = "link" /\ arg'[t] = arg[t]
    BY <1>1, Types DEF DaemonPc
  <1> QED  BY <1>3, <1>4, SameTiming

\* Its way to the next round, and through the walk of a list that stays as it is.
LEMMA DaemonRestTiming ==
    ASSUME SoftInv, SoftInv', NEW P, Timing(P),
           SuspendSelf \/ DaemonSchedule \/ CheckTick \/ CheckLock \/ CallbackReturn
           \/ CheckAgain \/ CheckEnd
    PROVE  Timing(P)'
  <1> USE Types
  <1>1. /\ Me = Daemon /\ UNCHANGED <<list, due, tick, wake, arg>>
        /\ pc[Me] \notin Kicks
    BY DEF SuspendSelf, DaemonSchedule, CheckTick, CheckLock, CallbackReturn, CheckAgain,
           CheckEnd, DaemonAt, At, timerVars, Kicks
  <1>2. PICK l \in {"blocked", "check", "lock", "loop", "called", "relock", "top"} :
            Goto(l) /\ (l \in {"blocked", "check"} => SuspendSelf \/ DaemonSchedule)
    BY DEF SuspendSelf, DaemonSchedule, CheckTick, CheckLock, CallbackReturn, CheckAgain,
           CheckEnd
  <1>3. l \in DaemonPc /\ l \in Pc
    BY DEF DaemonPc, Pc
  <1>4. Planned(P)'
    BY <1>1, <1>2, <1>3, DaemonGoes DEF Planned
  <1>5. Kicked => Kicked'
    BY <1>1, <1>2, <1>3, KickedStays
  <1>6. ASSUME l \in {"blocked", "check"} PROVE k'.tmr \subseteq k.tmr
    <2>1. CASE SuspendSelf
      <3>1. k' = Suspend(k, Daemon) /\ pc[Daemon] = "suspend"
        BY <2>1 DEF SuspendSelf, DaemonAt, At
      <3>2. k.stat[Daemon] = "RUNNING"
        BY <1>1, <3>1, DaemonAwake
      <3>3. k'.tmr = k.tmr \ {Daemon}
        BY <3>1, <3>2, SuspendEffect
      <3> QED  BY <3>3
    <2>2. CASE DaemonSchedule
      BY <2>2, ScheduleEffect DEF DaemonSchedule
    <2> QED  BY <1>2, <1>6, <2>1, <2>2
  <1> QED  BY <1>1, <1>2, <1>3, <1>4, <1>5, <1>6, DaemonTiming

\* The look at the list.
LEMMA NextTiming ==
    ASSUME SoftInv, SoftInv', NEW P, Timing(P), NextTest \/ NextPeek
    PROVE  Timing(P)'
  <1> USE Types
  <1>1. Me = Daemon /\ UNCHANGED <<list, due, tick, arg>> /\ pc[Daemon] \in {"top", "peek"}
    BY DEF NextTest, NextPeek, DaemonAt, At, timerVars
  <1>2. CASE NextTest
    <2>1. PICK l \in {"suspend", "peek"} : Goto(l) /\ (l = "peek" => list # << >>)
      BY <1>2 DEF NextTest
    <2>2. l \in DaemonPc /\ pc'[Daemon] = l
      BY <1>1, <2>1, DaemonGoes DEF DaemonPc
    <2>3. Planned(P)'
      BY <1>1, <2>1, <2>2 DEF Planned
    <2> QED  BY <1>1, <2>1, <2>2, <2>3, DaemonTiming
  <1>3. CASE NextPeek
    <2>1. list # << >>
      BY <1>3 DEF NextPeek, DaemonAt, At, Timing, Planned
    <2>2. PICK l \in {"suspend", "now"} : Goto(l) /\ loc'.nt = due[list[1]]
      BY <1>3, <2>1 DEF NextPeek
    <2>3. l \in DaemonPc /\ pc'[Daemon] = l
      BY <1>1, <2>2, DaemonGoes DEF DaemonPc
    <2>4. Planned(P)'
      BY <1>1, <2>1, <2>2, <2>3 DEF Planned
    <2> QED  BY <1>1, <2>2, <2>3, <2>4, DaemonTiming
  <1> QED  BY <1>2, <1>3

\* The delta to the first timeout is how far ahead that is.
LEMMA NextDeltaTiming ==
    ASSUME SoftInv, SoftInv', NEW P, ShortPeriods(P), Timing(P), NextDelta
    PROVE  Timing(P)'
  <1> USE Types
  <1> DEFINE x == list[1]
  <1>1. Me = Daemon /\ pc[Daemon] = "now" /\ UNCHANGED <<k, list, due, tick, wake, arg>>
    BY DEF NextDelta, DaemonAt, At, timerVars
  <1>2. list # << >> /\ loc.nt = due[x]
    BY <1>1 DEF Timing, Planned
  <1>3. x \in Timer /\ x \in ToSet(list)
    BY <1>2, AheadInt, FirstLeast DEF Timing, Spread
  <1> HIDE DEF x
  <1>4. PICK o \in Int : o = Off(due[x], tick) /\ o = Ahead[x] /\ - (P + MaxLag) <= o /\ o <= P
    <2>1. Ahead[x] \in - (P + MaxLag) .. P /\ P \in Int /\ MaxLag \in Int
      BY <1>3, Sizes DEF Timing, Spread
    <2>2. Ahead[x] = Off(due[x], tick) /\ Ahead[x] \in Int
      BY <1>3, AheadInt
    <2> QED  BY ONLY <2>1, <2>2
  <1>5. CASE Within(loc.nt, tick)
    <2>1. Goto("delay") /\ loc' = [loc EXCEPT !.nt = (@ - tick) % TickMod, !.ct = tick]
      BY <1>5 DEF NextDelta
    <2>2. due[x] \in Tick /\ Off(tick, tick) = 0
      BY <1>3, OffSelf
    <2>3. o >= 0
      <3>1. /\ Off(due[x], tick) - Off(tick, tick) < TickMax \div 2
            /\ Off(tick, tick) - Off(due[x], tick) < TickMax \div 2
        BY <1>4, <2>2, Sizes
      <3>2. Within(due[x], tick) <=> Off(due[x], tick) >= Off(tick, tick)
        BY <2>2, <3>1, WithinOff
      <3> QED  BY <1>2, <1>4, <1>5, <2>2, <3>2
    <2>4. (due[x] - tick) % TickMod = o
      BY <1>4, <2>2, <2>3, OffDelta
    <2>5. loc'.nt = o /\ loc'.ct = tick
      BY <1>2, <2>1, <2>4
    <2>6. "delay" \in DaemonPc /\ pc'[Daemon] = "delay"
      BY <1>1, <2>1, DaemonGoes DEF DaemonPc
    <2>7. Ahead' = Ahead
      BY <1>1 DEF Ahead, Aheads
    <2>8. Planned(P)'
      <3>1. Off(loc'.ct, tick) = 0 /\ loc'.nt \in 0 .. P
            /\ Ahead[list[1]] = Off(loc'.ct, tick) + loc'.nt
        BY <1>4, <2>2, <2>3, <2>5, Sizes DEF x
      <3>2. 0 \in - MaxLag .. 0
        BY Sizes
      <3> QED  BY <1>1, <1>2, <2>6, <2>7, <3>1, <3>2 DEF Planned
    <2> QED  BY <1>1, <2>1, <2>6, <2>8, DaemonTiming
  <1>6. CASE ~ Within(loc.nt, tick)
    <2>1. Goto("check")
      BY <1>6 DEF NextDelta
    <2>2. "check" \in DaemonPc /\ pc'[Daemon] = "check"
      BY <1>1, <2>1, DaemonGoes DEF DaemonPc
    <2>3. Planned(P)'
      BY <2>2 DEF Planned
    <2>4. Daemon \notin k'.tmr
      BY <1>1, DelayedWhere
    <2> QED  BY <1>1, <2>1, <2>2, <2>3, <2>4, DaemonTiming
  <1> QED  BY <1>5, <1>6

\* The delay ends when the first timer is due, and at most MaxLag ticks later.
LEMMA DelayTiming ==
    ASSUME SoftInv, NEW P, ShortPeriods(P), Timing(P), Delay
    PROVE  Timing(P)'
  <1> USE Types
  <1>1. /\ Me = Daemon /\ pc[Daemon] = "delay" /\ Goto("blocked")
        /\ wake' = (tick + loc.nt) % TickMod
        /\ UNCHANGED <<list, due, tick, arg>>
    BY DEF Delay, DaemonAt, At, timerVars
  <1>2. /\ pc'[Daemon] = "blocked"
        /\ \A t \in Thread \ {Daemon} : pc'[t] = pc[t] /\ arg'[t] = arg[t]
    BY <1>1, DaemonGoes DEF DaemonPc
  <1>3. Ahead' = Ahead
    BY <1>1 DEF Ahead, Aheads
  <1>4. Spread(P)'
    BY <1>1, <1>2, <1>3 DEF Timing, Spread
  <1>5. Planned(P)'
    BY <1>2 DEF Planned
  <1>6. /\ list # << >> /\ loc.nt \in 0 .. P /\ Off(loc.ct, tick) \in - MaxLag .. 0
        /\ Ahead[list[1]] = Off(loc.ct, tick) + loc.nt
    BY <1>1 DEF Timing, Planned
  <1>7. \A y \in ToSet(list) : Ahead[list[1]] <= Ahead[y] /\ Ahead[y] \in Int
    BY <1>6, AheadInt, FirstLeast DEF Timing, Spread
  <1>8. Off(wake', tick) = loc.nt
    <2>1. loc.nt \in Nat /\ loc.nt <= TickMax \div 2
      BY <1>6, Sizes
    <2> QED  BY <1>1, <2>1, OffAdd
  <1>9. InTime(P)'
    <2>1. PICK o \in - MaxLag .. 0 : o = Off(loc.ct, tick)
      BY <1>6
    <2>2. Ahead[list[1]] >= loc.nt - MaxLag /\ Ahead[list[1]] \in Int
      BY <1>6, <2>1, Sizes
    <2>3. ASSUME NEW y \in ToSet(list)
          PROVE  Ahead[y] >= loc.nt - P - MaxLag /\ Ahead[y] >= 1 - P - MaxLag
      BY <1>6, <1>7, <2>2, Sizes
    <2> QED  BY <1>1, <1>3, <1>6, <1>8, <2>2, <2>3 DEF InTime
  <1> QED  BY <1>4, <1>5, <1>9 DEF Timing

LEMMA CheckFireTiming ==
    ASSUME SoftInv, SoftInv', NEW P, Timing(P), CheckFire
    PROVE  Timing(P)'
  <1>1. /\ Me = Daemon /\ Goto("call") /\ list' = RemoveFirst(list, loc.n)
        /\ UNCHANGED <<due, tick, wake, arg>>
    BY DEF CheckFire, DaemonAt
  <1>2. /\ pc'[Daemon] = "call"
        /\ \A t \in Thread \ {Daemon} : pc'[t] = pc[t] /\ arg'[t] = arg[t]
    BY <1>1, DaemonGoes DEF DaemonPc
  <1>3. Daemon \notin k'.tmr
    BY <1>2 DEF SoftInv, Scheduler, DaemonState, Suspended
  <1>4. \A t \in Thread : pc'[t] = "link" => pc[t] = "link" /\ arg'[t] = arg[t]
    BY <1>2, Types
  <1> QED  BY <1>1, <1>2, <1>3, <1>4, ShrinkTiming

\* A periodic timer is started again before the walk goes on.
LEMMA CheckRestartTiming ==
    ASSUME SoftInv, SoftInv', NEW P, ShortPeriods(P), Timing(P), CheckRestart
    PROVE  Timing(P)'
  <1> USE Types
  <1> DEFINE x == loc.t
             r == RemoveFirst(list, x)
  <1>1. /\ Me = Daemon /\ pc[Daemon] = "relock" /\ Goto("loop")
        /\ UNCHANGED <<tick, wake, arg>>
    BY DEF CheckRestart, DaemonAt, At
  <1>2. /\ "loop" \in DaemonPc /\ pc'[Daemon] = "loop"
        /\ \A t \in Thread \ {Daemon} : pc'[t] = pc[t] /\ arg'[t] = arg[t]
    BY <1>1, DaemonGoes DEF DaemonPc
  <1>3. Planned(P)'
    BY <1>2 DEF Planned
  <1>4. CASE x \notin Periodic \cap active
    <2>1. UNCHANGED <<list, due>>
      BY <1>4 DEF CheckRestart
    <2> QED  BY <1>1, <1>2, <1>3, <2>1, DaemonTiming
  <1>5. CASE x \in Periodic \cap active
    <2>1. /\ due' = [due EXCEPT ![x] = (tick + Period[x]) % TickMod]
          /\ list' = Linked(r, due', x)
      BY <1>5 DEF CheckRestart
    <2>2. x \in Timer /\ \A t \in Thread : pc[t] = "link" => arg[t] # x
      BY <1>1 DEF SoftInv, Cursor, InCallback, Listing, Fires
    <2>3. /\ r \in Seq(Timer) /\ ToSet(r) = ToSet(list) \ {x}
      BY Unlinked
    <2>4. ByUrgency(r, Ahead)
      BY RemoveFirstInOrder DEF Timing, Spread
    <2> HIDE DEF r, x
    <2>5. due' \in [Timer -> Tick] /\ Off(due'[x], tick) = Period[x]
      <3>1. Period[x] \in Nat /\ Period[x] <= TickMax \div 2
        BY <2>2, Sizes
      <3>2. /\ (tick + Period[x]) % TickMod \in Tick
            /\ Off((tick + Period[x]) % TickMod, tick) = Period[x]
        BY <3>1, OffAdd
      <3> QED  BY <2>1, <2>2, <3>2
    <2>6. Ahead' = Aheads(due', tick)
      BY <1>1 DEF Ahead
    <2>7. /\ \A y \in Timer : y # x => Ahead'[y] = Ahead[y]
          /\ Ahead'[x] \in 1 .. P
      BY <2>1, <2>2, <2>5, <2>6, Sizes DEF Ahead, Aheads
    <2>8. \A y \in ToSet(r) : y \in ToSet(list) /\ Ahead'[y] = Ahead[y]
      BY <2>3, <2>7, AheadInt
    <2>9. ByUrgency(r, Ahead')
      BY <2>3, <2>4, <2>8, OrderAgrees
    <2>10. \A y \in ToSet(r) : Ahead'[y] \in - (P + MaxLag) .. P
      BY <2>8 DEF Timing, Spread
    <2>11. Ahead'[x] \in - (P + MaxLag) .. P
      <3>1. PICK o : o = Ahead'[x] /\ o \in 1 .. P
        BY <2>7
      <3> QED  BY <3>1, Sizes
    <2>12. /\ ByUrgency(list', Ahead')
           /\ \A y \in ToSet(list') : Ahead'[y] \in - (P + MaxLag) .. P
      BY <2>1, <2>2, <2>3, <2>5, <2>6, <2>9, <2>10, <2>11, LinkSpread
    <2>13. ASSUME NEW t \in Thread, pc'[t] = "link"
           PROVE  Ahead'[arg'[t]] \in - MaxLag .. P
      <3>1. pc[t] = "link" /\ arg'[t] = arg[t] /\ arg[t] \in Timer
        BY <1>1, <1>2, <2>13 DEF SoftInv, Places, StartPc
      <3> QED  BY <2>2, <2>7, <3>1 DEF Timing, Spread
    <2>14. Spread(P)'
      BY <2>12, <2>13 DEF Spread
    <2>15. InTime(P)'
      <3>1. Daemon \notin k'.tmr
        BY <1>2 DEF SoftInv, Scheduler, DaemonState, Suspended
      <3> QED  BY <3>1 DEF InTime
    <2> QED  BY <1>3, <2>14, <2>15 DEF Timing
  <1> QED  BY <1>4, <1>5

-----------------------------------------------------------------------------
(* The tick *)

\* No tick in use falls back by more than MaxLag.
LEMMA TickKeeps ==
    ASSUME SoftInv, NEW P, ShortPeriods(P), TickIncrease, NEW v \in TicksInUse, v \in Tick,
           - (P + MaxLag) <= Off(v, tick)
    PROVE  Off(v, tick) > - MaxLag
  <1> USE Types
  <1>1. (tick - v) % TickMod \notin MaxLag .. TickMax \div 2
    BY DEF TickIncrease
  <1>2. Off(v, tick) \in Int
    BY OffForm
  <1>3. - (TickMax \div 2) <= Off(v, tick)
    BY <1>2, Sizes
  <1> QED  BY <1>1, <1>3, OffLag

LEMMA TickTiming ==
    ASSUME SoftInv, NEW P, ShortPeriods(P), Timing(P), TickIncrease
    PROVE  Timing(P)'
  <1> USE Types, AheadInt
  <1>1. /\ tick' = (tick + 1) % TickMod
        /\ UNCHANGED <<list, due, pc, arg, loc>>
    BY DEF TickIncrease, timerVars
  <1>2. tick' \in Tick
    BY <1>1, NextTick
  <1>3. \A v \in Tick : - (P + MaxLag) <= Off(v, tick) => Off(v, tick') = Off(v, tick) - 1
    <2> SUFFICES ASSUME NEW v \in Tick, - (P + MaxLag) <= Off(v, tick)
                 PROVE  Off(v, tick') = Off(v, tick) - 1
      OBVIOUS
    <2>1. Off(v, tick) \in Int
      BY OffForm
    <2>2. Off(v, tick) > - (TickMax \div 2)
      BY <2>1, Sizes
    <2> QED  BY <1>1, <2>2, OffNext
  <1>4. \A x \in Timer : - (P + MaxLag) <= Ahead[x] => Ahead'[x] = Ahead[x] - 1
    <2> SUFFICES ASSUME NEW x \in Timer, - (P + MaxLag) <= Ahead[x]
                 PROVE  Ahead'[x] = Ahead[x] - 1
      OBVIOUS
    <2>1. due[x] \in Tick /\ Ahead[x] = Off(due[x], tick)
      BY DEF Ahead, Aheads
    <2>2. Ahead'[x] = Off(due[x], tick')
      BY <1>1 DEF Ahead, Aheads
    <2> QED  BY <1>3, <2>1, <2>2
  <1>5. ASSUME NEW x \in ToSet(list)
        PROVE  /\ x \in Timer /\ Ahead[x] \in Int /\ - (P + MaxLag) <= Ahead[x] /\ Ahead[x] <= P
               /\ Ahead'[x] = Ahead[x] - 1
               /\ Daemon \notin k.tmr => Ahead[x] > - MaxLag
    <2>1. x \in Timer /\ Ahead[x] \in Int
      OBVIOUS
    <2>2. - (P + MaxLag) <= Ahead[x] /\ Ahead[x] <= P
      BY Sizes DEF Timing, Spread
    <2>3. ASSUME Daemon \notin k.tmr PROVE Ahead[x] > - MaxLag
      <3>1. due[x] \in TicksInUse /\ due[x] \in Tick /\ Ahead[x] = Off(due[x], tick)
        BY <2>1, <2>3 DEF TicksInUse, Ahead, Aheads
      <3> QED  BY <2>2, <3>1, TickKeeps
    <2> QED  BY <1>4, <2>1, <2>2, <2>3
  <1>6. \A x \in ToSet(list) : Ahead'[x] <= P
    <2> SUFFICES ASSUME NEW x \in ToSet(list) PROVE Ahead'[x] <= P
      OBVIOUS
    <2>1. Ahead[x] \in Int /\ Ahead[x] <= P /\ Ahead'[x] = Ahead[x] - 1
      BY <1>5
    <2>2. P \in Int
      BY Sizes
    <2> QED  BY ONLY <2>1, <2>2
  <1>7. \A x \in ToSet(list) : - (P + MaxLag) <= Ahead'[x] /\ Ahead'[x] \in Int
    <2> SUFFICES ASSUME NEW x \in ToSet(list)
                 PROVE  - (P + MaxLag) <= Ahead'[x] /\ Ahead'[x] \in Int
      OBVIOUS
    <2>1. Ahead[x] \in Int /\ Ahead'[x] = Ahead[x] - 1 /\ P \in Int /\ MaxLag \in Int /\ P >= 1
      BY <1>5, Sizes
    <2>2. Ahead[x] >= 1 - P - MaxLag
      <3>1. CASE Daemon \notin k.tmr
        <4>1. Ahead[x] > - MaxLag
          BY <1>5, <3>1
        <4> QED  BY ONLY <2>1, <4>1
      <3>2. CASE Daemon \in k.tmr
        BY <3>2 DEF Timing, InTime
      <3> QED  BY <3>1, <3>2
    <2> QED  BY ONLY <2>1, <2>2
  <1>8. ByUrgency(list, Ahead')
    <2>1. \A i \in 1 .. Len(list) : list[i] \in ToSet(list)
      BY LenProperties DEF ToSet
    <2>2. \A i \in 1 .. Len(list) :
              Ahead[list[i]] \in Int /\ Ahead'[list[i]] = Ahead[list[i]] - 1
      BY <1>5, <2>1
    <2>3. ByUrgency(list, Ahead)
      BY DEF Timing, Spread
    <2> QED  BY ONLY <2>2, <2>3 DEF ByUrgency
  <1>9. ASSUME NEW t \in Thread, pc[t] = "link" PROVE Ahead'[arg[t]] \in - MaxLag .. P
    <2>1. arg[t] \in Timer
      BY <1>9 DEF SoftInv, Places, StartPc
    <2>2. PICK o \in - MaxLag .. P : o = Ahead[arg[t]]
      BY <1>9 DEF Timing, Spread
    <2>3. due[arg[t]] \in TicksInUse /\ due[arg[t]] \in Tick
          /\ Off(due[arg[t]], tick) = o
      BY <1>9, <2>1, <2>2 DEF TicksInUse, Ahead, Aheads
    <2>4. o \in Int /\ - (P + MaxLag) <= o
      BY <2>2, Sizes
    <2>5. o > - MaxLag
      BY <2>3, <2>4, TickKeeps
    <2>6. Ahead'[arg[t]] = o - 1
      BY <1>4, <2>1, <2>2, <2>4
    <2> QED  BY <2>2, <2>4, <2>5, <2>6, Sizes
  <1>10. Spread(P)'
    <2>1. \A x \in ToSet(list) : Ahead'[x] \in - (P + MaxLag) .. P
      <3> SUFFICES ASSUME NEW x \in ToSet(list) PROVE Ahead'[x] \in - (P + MaxLag) .. P
        OBVIOUS
      <3> QED  BY <1>6, <1>7, Sizes
    <2> QED  BY <1>1, <1>8, <1>9, <2>1 DEF Spread
  <1>11. list # << >> => list[1] \in ToSet(list)
    BY FirstLeast DEF Timing, Spread
  <1>12. Planned(P)'
    <2>1. CASE pc[Daemon] # "delay"
      BY <1>1, <2>1 DEF Timing, Planned
    <2>2. CASE pc[Daemon] = "delay"
      <3>1. /\ list # << >> /\ loc.nt \in 0 .. P
            /\ Ahead[list[1]] = Off(loc.ct, tick) + loc.nt
        BY <2>2 DEF Timing, Planned
      <3>2. PICK o \in - MaxLag .. 0 : o = Off(loc.ct, tick)
        BY <2>2 DEF Timing, Planned
      <3>3. loc.ct \in TicksInUse /\ loc.ct \in Tick
        BY <2>2 DEF TicksInUse
      <3>4. o \in Int /\ - (P + MaxLag) <= o
        BY <3>2, Sizes
      <3>5. o > - MaxLag
        BY <3>2, <3>3, <3>4, TickKeeps
      <3>6. Off(loc.ct, tick') = o - 1
        BY <1>3, <3>2, <3>3, <3>4
      <3>7. Ahead'[list[1]] = Ahead[list[1]] - 1
        BY <1>5, <1>11, <3>1
      <3>8. /\ Off(loc.ct, tick') \in - MaxLag .. 0
            /\ Ahead'[list[1]] = Off(loc.ct, tick') + loc.nt
        <4>1. MaxLag \in Int /\ P \in Int
          BY Sizes
        <4>2. loc.nt \in Int
          BY <3>1, <4>1
        <4> QED  BY ONLY <3>1, <3>2, <3>4, <3>5, <3>6, <3>7, <4>1, <4>2
      <3> QED  BY <1>1, <2>2, <3>1, <3>8 DEF Planned
    <2> QED  BY <2>1, <2>2
  <1>13. InTime(P)'
    <2>1. CASE Daemon \notin k.tmr
      <3>1. Daemon \notin k'.tmr
        BY <2>1 DEF TickIncrease
      <3> QED  BY <3>1 DEF InTime
    <2>2. CASE Daemon \in k.tmr /\ Within(tick', wake)
      <3> DEFINE m == Wake(k, Daemon, "ETIMEOUT")
      <3>1. k' = Schedule(m)
        BY <2>2 DEF TickIncrease, Timeout
      <3>2. m \in KernelState /\ KernelOK(m) /\ m.tmr = k.tmr \ {Daemon}
        BY <2>2, DelayedWhere, DelayOver DEF Suspended
      <3> HIDE DEF m
      <3>3. k'.tmr = m.tmr
        BY <3>1, <3>2, ScheduleEffect
      <3> QED  BY <3>2, <3>3 DEF InTime
    <2>3. CASE Daemon \in k.tmr /\ ~ Within(tick', wake)
      <3>1. UNCHANGED <<k, wake>>
        BY <2>3 DEF TickIncrease
      <3>2. PICK w \in 0 .. P : w = Off(wake, tick)
        BY <2>3 DEF Timing, InTime
      <3>3. w \in Int /\ 0 <= w /\ w <= P /\ - (P + MaxLag) <= w
        BY <3>2, Sizes
      <3>4. Off(wake, tick') = w - 1
        BY <1>3, <3>2, <3>3
      <3>5. w - 1 \in 1 .. P
        <4>1. Off(tick', tick') = 0
          BY <1>2, OffSelf
        <4>2. /\ Off(tick', tick') - Off(wake, tick') < TickMax \div 2
              /\ Off(wake, tick') - Off(tick', tick') < TickMax \div 2
          BY <3>3, <3>4, <4>1, Sizes
        <4>3. Within(tick', wake) <=> Off(tick', tick') >= Off(wake, tick')
          BY <1>2, <4>2, WithinOff
        <4>4. w - 1 > 0 /\ P \in Int
          BY <2>3, <3>3, <3>4, <4>1, <4>3, Sizes
        <4> QED  BY ONLY <3>3, <4>4
      <3>6. ASSUME NEW x \in ToSet(list)
            PROVE  Ahead'[x] >= w - 1 - P - MaxLag /\ Ahead'[x] >= 1 - P - MaxLag
        <4>1. Ahead[x] >= w - P - MaxLag
          BY <2>3, <3>2 DEF Timing, InTime
        <4>2. /\ Ahead[x] \in Int /\ Ahead'[x] = Ahead[x] - 1
              /\ P \in Int /\ MaxLag \in Int
          BY <1>5, Sizes
        <4> QED  BY ONLY <3>3, <3>5, <4>1, <4>2
      <3>7. ASSUME list # << >>, ~ Kicked PROVE Ahead'[list[1]] >= w - 1 - MaxLag
        <4>1. Ahead[list[1]] >= w - MaxLag
          BY <2>3, <3>2, <3>7 DEF Timing, InTime
        <4>2. Ahead[list[1]] \in Int /\ Ahead'[list[1]] = Ahead[list[1]] - 1
          BY <1>5, <1>11, <3>7
        <4> QED  BY <3>3, <4>1, <4>2, Sizes
      <3>8. Kicked' <=> Kicked
        BY <1>1 DEF Kicked
      <3> QED  BY <1>1, <3>1, <3>4, <3>5, <3>6, <3>7, <3>8 DEF InTime
    <2> QED  BY <2>1, <2>2, <2>3
  <1> QED  BY <1>10, <1>12, <1>13 DEF Timing

LEMMA TimingInit ==
    ASSUME NEW P, ShortPeriods(P)
    PROVE  Init => Timing(P)
  <1> SUFFICES ASSUME Init PROVE Timing(P)
    OBVIOUS
  <1>1. list = << >> /\ ToSet(list) = {} /\ k.tmr = {} /\ Len(list) = 0
    BY DEF Init, ToSet
  <1>2. pc[Daemon] = "top" /\ \A t \in Thread : pc[t] # "link"
    BY SoftTimerAssumption DEF Init
  <1> QED  BY <1>1, <1>2 DEF Timing, Spread, Planned, InTime, ByUrgency

LEMMA TimingNext ==
    ASSUME OwnedFromBelow, SoftInv, NEW P, ShortPeriods(P), Timing(P), [Next]_vars
    PROVE  Timing(P)'
  <1>1. SoftInv'
    BY SoftInvNext
  <1>2. CASE UserStep
    BY <1>2, StartBeginTiming, StopBeginTiming, OthersTiming DEF UserStep
  <1>3. CASE CallStep
    BY <1>3, StartArmTiming, StartLinkTiming, CallRestTiming DEF CallStep
  <1>4. CASE DaemonStep
    BY <1>1, <1>4, DaemonRestTiming, NextTiming, NextDeltaTiming, DelayTiming,
       CheckFireTiming, CheckRestartTiming DEF DaemonStep
  <1>5. CASE \E t \in Thread : IsrWake(t)
    BY <1>5, OthersTiming
  <1>6. CASE TickIncrease
    BY <1>6, TickTiming
  <1>7. CASE UNCHANGED vars
    BY <1>7 DEF vars, Timing, Spread, Planned, InTime, Ahead, Aheads, Kicked
  <1> QED  BY <1>2, <1>3, <1>4, <1>5, <1>6, <1>7 DEF Next

LEMMA TimingInvariant ==
    ASSUME OwnedFromBelow, NEW P, ShortPeriods(P)
    PROVE  Spec => [](SoftInv /\ Timing(P))
  <1>1. Init => SoftInv /\ Timing(P)
    BY SoftInvInit, TimingInit
  <1>2. SoftInv /\ Timing(P) /\ [Next]_vars => (SoftInv /\ Timing(P))'
    BY SoftInvNext, TimingNext
  <1> QED  BY <1>1, <1>2, PTL DEF Spec

\* rt_timer_start keeps the list in the order of the timeouts, also across the
\* wrap of the tick, when the timers belong to one thread below the timer thread
\* and twice the longest period and the lag stay within half the tick's range.
THEOREM SoftTimerListOrdered ==
    ASSUME OwnedFromBelow, NEW P, ShortPeriods(P)
    PROVE  Spec => []ListOrdered
  <1>1. SoftInv /\ Timing(P) => ListOrdered
    <2> SUFFICES ASSUME SoftInv, Timing(P),
                        NEW i \in DOMAIN list, NEW j \in DOMAIN list, i < j
                 PROVE  Within(due[list[j]], due[list[i]])
      BY DEF ListOrdered, InOrder
    <2> USE Types
    <2>1. i \in 1 .. Len(list) /\ j \in 1 .. Len(list)
      BY LenProperties
    <2>2. PICK x \in Timer : x = list[i] /\ x \in ToSet(list)
      BY AheadInt DEF ToSet
    <2>3. PICK y \in Timer : y = list[j] /\ y \in ToSet(list)
      BY AheadInt DEF ToSet
    <2>4. Ahead[x] <= Ahead[y]
      BY <2>1, <2>2, <2>3 DEF Timing, Spread, ByUrgency
    <2>5. /\ Off(due[x], tick) = Ahead[x] /\ Ahead[x] \in - (P + MaxLag) .. P
          /\ Off(due[y], tick) = Ahead[y] /\ Ahead[y] \in - (P + MaxLag) .. P
      BY <2>2, <2>3, AheadInt DEF Timing, Spread
    <2>6. /\ Off(due[y], tick) - Off(due[x], tick) < TickMax \div 2
          /\ Off(due[x], tick) - Off(due[y], tick) < TickMax \div 2
          /\ Off(due[y], tick) >= Off(due[x], tick)
      BY <2>4, <2>5, Sizes
    <2>7. due[x] \in Tick /\ due[y] \in Tick
      OBVIOUS
    <2>8. Within(due[y], due[x])
      BY <2>6, <2>7, WithinOff
    <2> QED  BY <2>2, <2>3, <2>8
  <1> QED  BY <1>1, TimingInvariant, PTL

\* The timer thread sleeps until its first timer is due and at most MaxLag ticks
\* longer, whatever starts and stops timers in the meantime, or somebody is about
\* to resume it: under the same conditions.
THEOREM SoftTimerWakesInTime ==
    ASSUME OwnedFromBelow, NEW P, ShortPeriods(P)
    PROVE  Spec => []WakesInTime
  <1>1. SoftInv /\ Timing(P) => WakesInTime
    <2> SUFFICES ASSUME SoftInv, Timing(P), Daemon \in k.tmr, list # << >>, ~ Kicked
                 PROVE  Within(due[list[1]] + MaxLag, wake)
      BY DEF WakesInTime
    <2> USE Types
    <2>1. PICK x \in Timer : x = list[1] /\ x \in ToSet(list)
      BY AheadInt, FirstLeast DEF Timing, Spread
    <2>2. /\ Ahead[x] >= Off(wake, tick) - MaxLag /\ Off(wake, tick) \in 0 .. P
          /\ Ahead[x] \in - (P + MaxLag) .. P /\ Off(due[x], tick) = Ahead[x]
      BY <2>1, AheadInt DEF Timing, InTime, Spread
    <2>3. /\ Off(due[x], tick) - Off(wake, tick) + MaxLag >= 0
          /\ Off(due[x], tick) - Off(wake, tick) + MaxLag < TickMax \div 2
          /\ MaxLag \in Nat /\ MaxLag <= TickMax \div 2
      BY <2>2, Sizes
    <2>4. due[x] \in Tick
      OBVIOUS
    <2>5. Within(due[x] + MaxLag, wake)
      BY <2>3, <2>4, WithinShifted
    <2> QED  BY <2>1, <2>5
  <1> QED  BY <1>1, TimingInvariant, PTL
=============================================================================
