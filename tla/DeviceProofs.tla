---------------------------- MODULE DeviceProofs ----------------------------
(***************************************************************************)
(* Lemmas on the hard timers and the heap of module Devices, for any       *)
(* number of timers, ticks, blocks and requests: each step keeps the       *)
(* object's inductive invariant, and the invariant implies what the runs   *)
(* check.  Module ServicesProofs draws the conclusion.                     *)
(***************************************************************************)
EXTENDS Devices, KernelProofs, FiniteSetTheorems

-----------------------------------------------------------------------------
(* Ticks around the current one, and the timer list, of the hard timers *)

LEMMA TimerFacts ==
    /\ HT!TickAssumption /\ HT!HardTimerAssumption
    /\ \A l : /\ HT!ToSet(l) = ToSet(l)
             /\ \A e : HT!RemoveFirst(l, e) = RemoveFirst(l, e)
    /\ \A S : HT!Cardinality(S) = Cardinality(S) /\ HT!SetToSeq(S) = SetToSeq(S)
  <1>1. HT!TickAssumption /\ HT!HardTimerAssumption
    BY DevicesAssumption DEF DevicesAssumption
  <1>2. \A l : HT!ToSet(l) = ToSet(l)
    BY DEF HT!ToSet, ToSet
  <1>3. \A l, e : HT!RemoveFirst(l, e) = RemoveFirst(l, e)
    BY Zenon DEF HT!RemoveFirst, RemoveFirst, HT!RemoveAt, RemoveAt, HT!SelectInSeq,
                 SelectInSeq, HT!Min, Min
  <1>4. \A S : HT!Cardinality(S) = Cardinality(S)
    BY DEF HT!Cardinality, Cardinality
  <1>5. \A f : HT!IsInjective(f) <=> IsInjective(f)
    BY DEF HT!IsInjective, IsInjective
  <1>6. \A S : HT!SetToSeq(S) = SetToSeq(S)
    BY <1>4, <1>5, Zenon DEF HT!SetToSeq, SetToSeq
  <1> QED  BY <1>1, <1>2, <1>3, <1>4, <1>6

\* By how much the tick v lies ahead of the tick t, negative when it has passed.
Off(v, t) ==
    LET z == IF v >= t THEN v - t ELSE v - t + TickMod
    IN  IF z <= HT!TickMax \div 2 THEN z ELSE z - TickMod

LEMMA HalfTick ==
    /\ TickMod \in Int /\ TickMod > 4 /\ HT!TickMax = TickMod - 1
    /\ HT!TickMax \div 2 \in Int /\ HT!TickMax \div 2 >= 2
    /\ 2 * (HT!TickMax \div 2) <= HT!TickMax /\ HT!TickMax < 2 * (HT!TickMax \div 2) + 2
  BY TimerFacts DEF HT!TickAssumption, HT!TickMax

\* A remainder is known by its range.
LEMMA ModIs ==
    ASSUME NEW a \in Int, NEW r \in HT!Tick, a = r \/ a = r + TickMod \/ a = r - TickMod
    PROVE  a % TickMod = r
  <1>1. TickMod \in Nat /\ TickMod > 0 /\ r \in Int /\ 0 <= r /\ r < TickMod
    BY TimerFacts DEF HT!TickAssumption, HT!Tick, HT!TickMax
  <1>2. a = r + 0 * TickMod \/ a = r + 1 * TickMod \/ a = r + (-1) * TickMod
    BY <1>1
  <1> QED  BY <1>1, <1>2

\* The distance, and nothing else, leads from t to v.
LEMMA OffForm ==
    ASSUME NEW v \in HT!Tick, NEW t \in HT!Tick
    PROVE  /\ Off(v, t) \in Int
           /\ - (HT!TickMax \div 2) - 1 <= Off(v, t) /\ Off(v, t) <= HT!TickMax \div 2
           /\ \/ v = t + Off(v, t)
              \/ v = t + Off(v, t) + TickMod
              \/ v = t + Off(v, t) - TickMod
  BY HalfTick DEF Off, HT!Tick

LEMMA OffIs ==
    ASSUME NEW v \in HT!Tick, NEW t \in HT!Tick, NEW o \in Int,
           - (HT!TickMax \div 2) <= o, o <= HT!TickMax \div 2,
           v = t + o \/ v = t + o + TickMod \/ v = t + o - TickMod
    PROVE  Off(v, t) = o
  BY HalfTick DEF Off, HT!Tick

\* The comparison of two ticks that lie no more than half the range apart, u by
\* less ahead of v, is the comparison of their distances.
LEMMA WithinOff ==
    ASSUME NEW u \in HT!Tick, NEW v \in HT!Tick, NEW t \in HT!Tick,
           Off(u, t) - Off(v, t) < HT!TickMax \div 2,
           Off(v, t) - Off(u, t) <= HT!TickMax \div 2
    PROVE  /\ HT!Within(u, v) <=> Off(u, t) >= Off(v, t)
           /\ u = v <=> Off(u, t) = Off(v, t)
  <1> DEFINE a == Off(u, t)
             b == Off(v, t)
             h == HT!TickMax \div 2
             d == IF a >= b THEN a - b ELSE a - b + TickMod
  <1>1. /\ a \in Int /\ - h - 1 <= a /\ a <= h
        /\ u = t + a \/ u = t + a + TickMod \/ u = t + a - TickMod
    BY OffForm
  <1>2. /\ b \in Int /\ - h - 1 <= b /\ b <= h
        /\ v = t + b \/ v = t + b + TickMod \/ v = t + b - TickMod
    BY OffForm
  <1>3. a - b < h /\ b - a <= h
    OBVIOUS
  <1> HIDE DEF a, b
  <1>4. u \in Int /\ v \in Int /\ t \in Int /\ 0 <= u /\ u < TickMod /\ 0 <= v /\ v < TickMod
    BY HalfTick DEF HT!Tick
  <1>5. d \in HT!Tick
    BY <1>1, <1>2, <1>3, HalfTick DEF HT!Tick
  <1>6. u - v = d \/ u - v = d + TickMod \/ u - v = d - TickMod
    BY <1>1, <1>2, <1>3, <1>4, HalfTick
  <1>7. u - v \in Int
    BY <1>4
  <1>8. (u - v) % TickMod = d
    BY <1>5, <1>6, <1>7, ModIs
  <1>9. d < h <=> a >= b
    BY <1>1, <1>2, <1>3, HalfTick
  <1>10. u = v <=> a = b
    BY <1>1, <1>2, <1>3, <1>4, HalfTick
  <1> QED  BY <1>8, <1>9, <1>10 DEF HT!Within, a, b, h

\* A timeout a few ticks ahead.
LEMMA OffAdd ==
    ASSUME NEW t \in HT!Tick, NEW n \in Nat, n <= HT!TickMax \div 2
    PROVE  (t + n) % TickMod \in HT!Tick /\ Off((t + n) % TickMod, t) = n
  <1>1. t \in Int /\ 0 <= t /\ t < TickMod
    BY HalfTick DEF HT!Tick
  <1>2. PICK v \in HT!Tick : t + n = v \/ t + n = v + TickMod
    <2>1. n \in Int /\ 0 <= n /\ n < TickMod
      BY HalfTick
    <2>2. CASE t + n < TickMod
      <3>1. t + n \in HT!Tick /\ t + n = t + n
        BY <1>1, <2>1, <2>2, HalfTick DEF HT!Tick
      <3> QED  BY <3>1
    <2>3. CASE t + n >= TickMod
      <3>1. t + n - TickMod \in HT!Tick /\ t + n = t + n - TickMod + TickMod
        BY <1>1, <2>1, <2>3, HalfTick DEF HT!Tick
      <3> QED  BY <3>1
    <2> QED  BY <1>1, <2>1, <2>2, <2>3, HalfTick
  <1>3. (t + n) % TickMod = v
    <2>1. t + n \in Int
      BY <1>1
    <2> QED  BY <1>2, <2>1, ModIs
  <1>4. Off(v, t) = n
    BY <1>1, <1>2, OffIs, HalfTick
  <1> QED  BY <1>3, <1>4

\* The tick itself.
LEMMA OffSelf == ASSUME NEW t \in HT!Tick PROVE Off(t, t) = 0
  BY HalfTick DEF Off, HT!Tick

\* The next tick.
LEMMA OffNext ==
    ASSUME NEW v \in HT!Tick, NEW t \in HT!Tick, Off(v, t) > - (HT!TickMax \div 2)
    PROVE  (t + 1) % TickMod \in HT!Tick /\ Off(v, (t + 1) % TickMod) = Off(v, t) - 1
  <1>1. t \in Int /\ 0 <= t /\ t < TickMod
    BY HalfTick DEF HT!Tick
  <1>2. PICK n \in HT!Tick : n = IF t + 1 < TickMod THEN t + 1 ELSE t + 1 - TickMod
    BY <1>1, HalfTick DEF HT!Tick
  <1>3. (t + 1) % TickMod = n
    <2>1. t + 1 \in Int /\ (t + 1 = n \/ t + 1 = n + TickMod)
      BY <1>1, <1>2, HalfTick
    <2> QED  BY <2>1, ModIs
  <1> DEFINE o == Off(v, t)
  <1>4. /\ o \in Int /\ - (HT!TickMax \div 2) < o /\ o <= HT!TickMax \div 2
        /\ v = t + o \/ v = t + o + TickMod \/ v = t + o - TickMod
    BY OffForm
  <1> HIDE DEF o
  <1>5. Off(v, n) = o - 1
    <2>1. PICK p \in Int : p = o - 1
      BY <1>4
    <2>2. - (HT!TickMax \div 2) <= p /\ p <= HT!TickMax \div 2
      BY <1>4, <2>1, HalfTick
    <2>3. n \in Int /\ v \in Int /\ 0 <= v /\ v < TickMod /\ 0 <= n /\ n < TickMod
      BY HalfTick DEF HT!Tick
    <2>4. v = n + p \/ v = n + p + TickMod \/ v = n + p - TickMod
      BY <1>1, <1>2, <1>4, <2>1, <2>2, <2>3, HalfTick
    <2> QED  BY <2>1, <2>2, <2>4, OffIs
  <1> QED  BY <1>3, <1>5 DEF o

\* What the tick does not pass over.
LEMMA OffLag ==
    ASSUME NEW v \in HT!Tick, NEW t \in HT!Tick, - (HT!TickMax \div 2) <= Off(v, t),
           (t - v) % TickMod \notin MaxLag .. HT!TickMax \div 2
    PROVE  Off(v, t) > - MaxLag
  <1> DEFINE o == Off(v, t)
  <1>1. /\ o \in Int /\ - (HT!TickMax \div 2) <= o
        /\ v = t + o \/ v = t + o + TickMod \/ v = t + o - TickMod
    BY OffForm
  <1> HIDE DEF o
  <1>2. MaxLag \in Int /\ MaxLag >= 1 /\ t \in Int /\ v \in Int
    BY TimerFacts DEF HT!HardTimerAssumption, HT!Tick
  <1>3. ASSUME o <= - MaxLag PROVE FALSE
    <2>1. PICK d \in HT!Tick : d = - o
      BY <1>1, <1>2, <1>3, HalfTick DEF HT!Tick
    <2>2. t - v = d \/ t - v = d + TickMod \/ t - v = d - TickMod
      BY <1>1, <1>2, <2>1, HalfTick
    <2>3. (t - v) % TickMod = d
      BY <1>2, <2>1, <2>2, ModIs
    <2> QED  BY <1>1, <1>2, <1>3, <2>1, <2>3, HalfTick DEF o
  <1> QED  BY <1>1, <1>2, <1>3 DEF o

\* rt_timer_start inserts somewhere.
LEMMA LinkedForm ==
    ASSUME NEW l \in Seq(Timer), NEW d, NEW x \in Timer
    PROVE  \/ HT!Linked(l, d, x) = Append(l, x)
           \/ \E i \in 1 .. Len(l) : HT!Linked(l, d, x) = InsertAt(l, i, x)
  <1> DEFINE P == {j \in 1 .. Len(l) : d[l[j]] # d[x] /\ HT!Within(d[l[j]], d[x])}
             i == IF P # {} THEN Min(P) ELSE 0
  <1>1. HT!Linked(l, d, x) = IF i = 0 THEN Append(l, x) ELSE InsertAt(l, i, x)
    BY Zenon DEF HT!Linked, HT!SelectInSeq, HT!Min, Min, HT!InsertAt, InsertAt
  <1>2. i = 0 \/ i \in 1 .. Len(l)
    <2>1. CASE P = {}
      BY <2>1
    <2>2. CASE P # {}
      <3>1. P \in SUBSET (1 .. Len(l)) /\ P # {}
        BY <2>2
      <3> HIDE DEF P
      <3>2. Min(P) \in P
        BY <3>1, SelectPosition
      <3> QED  BY <3>1, <3>2, Zenon
    <2> QED  BY <2>1, <2>2
  <1> HIDE DEF i
  <1> QED  BY <1>1, <1>2

\* It adds one timer, once.
LEMMA LinkedList ==
    ASSUME NEW l \in Seq(Timer), NEW d, NEW x \in Timer
    PROVE  /\ HT!Linked(l, d, x) \in Seq(Timer)
           /\ ToSet(HT!Linked(l, d, x)) = ToSet(l) \cup {x}
           /\ Distinct(l) /\ x \notin ToSet(l) => Distinct(HT!Linked(l, d, x))
  <1>1. CASE HT!Linked(l, d, x) = Append(l, x)
    BY <1>1, AppendList
  <1>2. ASSUME NEW i \in 1 .. Len(l), HT!Linked(l, d, x) = InsertAt(l, i, x)
        PROVE  /\ HT!Linked(l, d, x) \in Seq(Timer)
               /\ ToSet(HT!Linked(l, d, x)) = ToSet(l) \cup {x}
               /\ Distinct(l) /\ x \notin ToSet(l) => Distinct(HT!Linked(l, d, x))
    BY <1>2, InsertAtList
  <1> QED  BY <1>1, <1>2, LinkedForm

\* How far ahead of the tick t the timeouts d lie.
Aheads(d, t) == [x \in Timer |-> Off(d[x], t)]

\* While the timeouts on a list and that of x lie within less than half the
\* range of the tick, rt_timer_start keeps the list in order.
LEMMA LinkedInOrder ==
    ASSUME NEW l \in Seq(Timer), NEW d \in [Timer -> HT!Tick], NEW t \in HT!Tick, NEW x \in Timer,
           ByUrgency(l, Aheads(d, t)),
           \A y \in ToSet(l) : /\ Off(d[y], t) - Off(d[x], t) < HT!TickMax \div 2
                               /\ Off(d[x], t) - Off(d[y], t) <= HT!TickMax \div 2
    PROVE  ByUrgency(HT!Linked(l, d, x), Aheads(d, t))
  <1> DEFINE P == {j \in 1 .. Len(l) : d[l[j]] # d[x] /\ HT!Within(d[l[j]], d[x])}
             i == IF P # {} THEN Min(P) ELSE 0
  <1>1. PICK a : a = Aheads(d, t)
    OBVIOUS
  <1>2. \A y \in Timer : a[y] \in Int /\ a[y] = Off(d[y], t)
    BY <1>1, OffForm DEF Aheads
  <1>3. HT!Linked(l, d, x) = IF i = 0 THEN Append(l, x) ELSE InsertAt(l, i, x)
    BY Zenon DEF HT!Linked, HT!SelectInSeq, HT!Min, Min, HT!InsertAt, InsertAt
  <1>4. P = {j \in 1 .. Len(l) : a[x] < a[l[j]]}
    <2> SUFFICES ASSUME NEW j \in 1 .. Len(l)
                 PROVE  d[l[j]] # d[x] /\ HT!Within(d[l[j]], d[x]) <=> a[x] < a[l[j]]
      OBVIOUS
    <2>1. PICK y \in Timer : y = l[j] /\ y \in ToSet(l)
      BY LenProperties, ElementOfSeq DEF ToSet
    <2>2. d[y] \in HT!Tick /\ d[x] \in HT!Tick
      OBVIOUS
    <2>3. /\ HT!Within(d[y], d[x]) <=> Off(d[y], t) >= Off(d[x], t)
          /\ d[y] = d[x] <=> Off(d[y], t) = Off(d[x], t)
      BY <2>1, <2>2, WithinOff
    <2>4. a[y] \in Int /\ a[x] \in Int /\ a[y] = Off(d[y], t) /\ a[x] = Off(d[x], t)
      BY <1>2
    <2> QED  BY <2>1, <2>3, <2>4
  <1>5. \A y \in Timer : a[y] \in Int
    BY <1>2
  <1>6. ByUrgency(l, a)
    BY <1>1
  <1>7. LET Q == {j \in 1 .. Len(l) : a[x] < a[l[j]]}
            m == IF Q # {} THEN Min(Q) ELSE 0
        IN  ByUrgency(IF m = 0 THEN Append(l, x) ELSE InsertAt(l, m, x), a)
    BY <1>5, <1>6, InsertInOrder, Zenon
  <1> HIDE DEF P
  <1> QED  BY <1>1, <1>3, <1>4, <1>7

\* The first timer of a list is the one that is due first.
LEMMA FirstLeast ==
    ASSUME NEW l \in Seq(Timer), l # << >>, NEW a, \A y \in Timer : a[y] \in Int,
           ByUrgency(l, a)
    PROVE  l[1] \in ToSet(l) /\ l[1] \in Timer /\ \A y \in ToSet(l) : a[l[1]] <= a[y]
  <1>1. Len(l) \in Nat /\ Len(l) > 0 /\ DOMAIN l = 1 .. Len(l)
    BY EmptySeq, LenProperties
  <1>2. l[1] \in ToSet(l) /\ l[1] \in Timer
    BY <1>1, ElementOfSeq DEF ToSet
  <1>3. ASSUME NEW y \in ToSet(l) PROVE a[l[1]] <= a[y]
    <2>1. PICK j \in 1 .. Len(l) : l[j] = y
      BY <1>1 DEF ToSet
    <2>2. CASE j = 1
      BY <1>2, <2>1, <2>2
    <2>3. CASE j # 1
      BY <1>1, <2>1, <2>3 DEF ByUrgency
    <2> QED  BY <2>2, <2>3
  <1> QED  BY <1>2, <1>3

\* The order is that of the timeouts on the list alone.
LEMMA OrderAgrees ==
    ASSUME NEW l \in Seq(Timer), NEW a, NEW b, \A y \in ToSet(l) : b[y] = a[y],
           ByUrgency(l, a)
    PROVE  ByUrgency(l, b)
  <1>1. \A i \in 1 .. Len(l) : l[i] \in ToSet(l)
    BY LenProperties DEF ToSet
  <1>2. \A i \in 1 .. Len(l) : b[l[i]] = a[l[i]]
    BY <1>1
  <1> QED  BY <1>2 DEF ByUrgency


-----------------------------------------------------------------------------
(* The hard timers, for any timers, threads, callbacks and range of the tick *)

\* The most by which a timeout lies ahead of the tick.
Furthest == (HT!TickMax \div 2) - MaxLag - 1

\* No timer is in the hands of two threads, and one that is started is stopped.
TimerHands ==
    /\ \A t \in Task : timer_at[t] = "run" <=> timer_arg[t] = Nil
    /\ \A t, u \in Task : t # u /\ timer_arg[t] = timer_arg[u] => timer_arg[t] = Nil
    /\ \A t \in Task : timer_at[t] \in {"arm", "link"} => timer_arg[t] \notin activated

TimerListed ==
    /\ Distinct(rt_timer_list)
    /\ \A x \in Timer : x \in ToSet(rt_timer_list) <=> x \in activated /\ ~ HT!Stopping(x)

\* The list is in order, and all timeouts on it lie ahead of the tick, but for
\* those that were computed before the tick and listed after it.
TimerSpread ==
    /\ ByUrgency(rt_timer_list, Aheads(timeout_tick, tick))
    /\ \A x \in ToSet(rt_timer_list) :
          /\ - MaxLag <= Off(timeout_tick[x], tick) /\ Off(timeout_tick[x], tick) <= Furthest
          /\ x \notin fresh => 1 <= Off(timeout_tick[x], tick)
    /\ \A t \in Task : timer_at[t] = "link" =>
          /\ - MaxLag <= Off(timeout_tick[timer_arg[t]], tick)
          /\ Off(timeout_tick[timer_arg[t]], tick) <= Furthest

\* The inductive invariant.
TimersInv == HT!TypeOK /\ TimerHands /\ TimerListed /\ TimerSpread

LEMMA TimerSizes ==
    /\ MaxLag \in Int /\ MaxLag >= 1 /\ Furthest \in Int /\ Furthest >= 1
    /\ Furthest + MaxLag + 1 = HT!TickMax \div 2
    /\ \A d \in Time : d \in Nat /\ 1 <= d /\ d <= Furthest
    /\ Nil \notin Timer /\ IsFiniteSet(Timer) /\ Cardinality(Timer) \in Nat
  <1>1. /\ MaxLag \in Int /\ MaxLag >= 1 /\ Time # {}
        /\ \A d \in Time : d \in Nat /\ d >= 1 /\ d + MaxLag < HT!TickMax \div 2
    BY TimerFacts DEF HT!HardTimerAssumption
  <1>2. Furthest \in Int /\ Furthest + MaxLag + 1 = HT!TickMax \div 2
    BY <1>1, HalfTick DEF Furthest
  <1>3. \A d \in Time : d \in Nat /\ 1 <= d /\ d <= Furthest
    BY <1>1, <1>2, HalfTick
  <1>4. Nil \notin Timer /\ IsFiniteSet(Timer)
    <2>1. HT!IsFiniteSet(Timer) /\ Nil \notin Timer
      BY TimerFacts DEF HT!HardTimerAssumption
    <2> QED  BY <2>1 DEF HT!IsFiniteSet, IsFiniteSet
  <1>5. Furthest >= 1
    <2>1. PICK d : d \in Time
      BY <1>1
    <2> QED  BY <1>2, <1>3, <2>1
  <1> QED  BY <1>1, <1>2, <1>3, <1>4, <1>5, FS_CardinalityType

LEMMA TimersTypes ==
    ASSUME TimersInv
    PROVE  /\ tick \in HT!Tick /\ rt_timer_list \in Seq(Timer)
           /\ timeout_tick \in [Timer -> HT!Tick] /\ init_tick \in [Timer -> Time]
           /\ activated \in SUBSET Timer /\ fresh \in SUBSET Timer
           /\ timer_at \in [Task -> {"run", "arm", "link", "remove", "unflag"}]
           /\ timer_arg \in [Task -> Timer \cup {Nil}]
           /\ Distinct(rt_timer_list) /\ ToSet(rt_timer_list) \subseteq activated
           /\ \A x \in Timer : /\ init_tick[x] \in Nat /\ 1 <= init_tick[x]
                               /\ init_tick[x] <= Furthest
           /\ \A t \in Task : timer_at[t] # "run" => timer_arg[t] \in Timer
  <1>1. /\ tick \in HT!Tick /\ rt_timer_list \in Seq(Timer)
        /\ timeout_tick \in [Timer -> HT!Tick] /\ init_tick \in [Timer -> Time]
        /\ activated \in SUBSET Timer /\ fresh \in SUBSET Timer
        /\ timer_at \in [Task -> {"run", "arm", "link", "remove", "unflag"}]
        /\ timer_arg \in [Task -> Timer \cup {Nil}]
    BY DEF TimersInv, HT!TypeOK
  <1>2. Distinct(rt_timer_list) /\ ToSet(rt_timer_list) \subseteq activated
    <2>1. \A x \in ToSet(rt_timer_list) : x \in Timer
      BY <1>1, LenProperties, ElementOfSeq DEF ToSet
    <2> QED  BY <2>1 DEF TimersInv, TimerListed
  <1>3. \A x \in Timer : init_tick[x] \in Time
    BY <1>1
  <1>4. \A t \in Task : timer_at[t] # "run" => timer_arg[t] \in Timer
    BY <1>1 DEF TimersInv, TimerHands
  <1> QED  BY <1>1, <1>2, <1>3, <1>4, TimerSizes

LEMMA TimersInvImplies == TimersInv => HT!TimersConsistent
  <1> SUFFICES ASSUME TimersInv PROVE HT!TimersConsistent
    OBVIOUS
  <1> USE TimersTypes
  <1>1. HT!ListedActive
    <2> DEFINE l == rt_timer_list
    <2>1. l \in Seq(Timer) /\ Distinct(l) /\ Len(l) \in Nat /\ DOMAIN l = 1 .. Len(l)
      BY LenProperties
    <2>2. Cardinality(ToSet(l)) = Len(l)
      <3>1. l \in [1 .. Len(l) -> Timer]
        BY <2>1, ElementOfSeq
      <3>2. l \in Bijection(1 .. Len(l), ToSet(l))
        BY <2>1, <3>1 DEF Bijection, Injection, Surjection, IsInjective, Distinct, ToSet
      <3>3. IsFiniteSet(1 .. Len(l)) /\ Cardinality(1 .. Len(l)) = Len(l)
        <4>1. /\ IsFiniteSet(1 .. Len(l))
              /\ Cardinality(1 .. Len(l)) = IF 1 > Len(l) THEN 0 ELSE Len(l) - 1 + 1
          BY <2>1, FS_Interval
        <4> QED  BY <2>1, <4>1
      <3> HIDE DEF l
      <3> QED  BY <3>2, <3>3, FS_Bijection, Zenon DEF ExistsBijection
    <2> HIDE DEF l
    <2> QED  BY <2>2, TimerFacts DEF HT!ListedActive, TimersInv, TimerListed, l
  <1>2. \A x \in ToSet(rt_timer_list) : x \in Timer
    OBVIOUS
  <1>3. \A x \in Timer : /\ timeout_tick[x] \in HT!Tick
                         /\ Aheads(timeout_tick, tick)[x] = Off(timeout_tick[x], tick)
                         /\ Off(timeout_tick[x], tick) \in Int
    BY OffForm DEF Aheads
  <1>4. HT!InOrder(rt_timer_list, timeout_tick)
    <2> SUFFICES ASSUME NEW i \in DOMAIN rt_timer_list, NEW j \in DOMAIN rt_timer_list, i < j
                 PROVE  HT!Within(timeout_tick[rt_timer_list[j]], timeout_tick[rt_timer_list[i]])
      BY DEF HT!InOrder
    <2>1. PICK x, y : x = rt_timer_list[i] /\ y = rt_timer_list[j]
      OBVIOUS
    <2>2. x \in ToSet(rt_timer_list) /\ y \in ToSet(rt_timer_list)
      BY <2>1 DEF ToSet
    <2>3. /\ timeout_tick[x] \in HT!Tick /\ timeout_tick[y] \in HT!Tick
          /\ Off(timeout_tick[x], tick) \in Int /\ Off(timeout_tick[y], tick) \in Int
      BY <1>2, <1>3, <2>2, Zenon
    <2>4. Off(timeout_tick[x], tick) <= Off(timeout_tick[y], tick)
      <3>1. DOMAIN rt_timer_list = 1 .. Len(rt_timer_list)
        BY LenProperties
      <3>2. Aheads(timeout_tick, tick)[x] <= Aheads(timeout_tick, tick)[y]
        BY <2>1, <3>1 DEF TimersInv, TimerSpread, ByUrgency
      <3> QED  BY <1>2, <1>3, <2>2, <3>2, Zenon
    <2>5. /\ - MaxLag <= Off(timeout_tick[x], tick) /\ Off(timeout_tick[y], tick) <= Furthest
      BY <2>2 DEF TimersInv, TimerSpread
    <2>6. /\ Off(timeout_tick[y], tick) - Off(timeout_tick[x], tick) < HT!TickMax \div 2
          /\ Off(timeout_tick[x], tick) - Off(timeout_tick[y], tick) <= HT!TickMax \div 2
      BY <2>3, <2>4, <2>5, TimerSizes, HalfTick
    <2>7. HT!Within(timeout_tick[y], timeout_tick[x])
      BY <2>3, <2>4, <2>6, WithinOff, Zenon
    <2> QED  BY <2>1, <2>7
  <1>5. HT!NoneOverdue
    <2> SUFFICES ASSUME NEW x \in ToSet(rt_timer_list), HT!Within(tick, timeout_tick[x]),
                        x \notin fresh
                 PROVE  FALSE
      BY TimerFacts DEF HT!NoneOverdue
    <2>1. /\ timeout_tick[x] \in HT!Tick /\ Off(timeout_tick[x], tick) \in Int
          /\ 1 <= Off(timeout_tick[x], tick) /\ Off(timeout_tick[x], tick) <= Furthest
      BY <1>2, <1>3 DEF TimersInv, TimerSpread
    <2>2. /\ Off(tick, tick) - Off(timeout_tick[x], tick) < HT!TickMax \div 2
          /\ Off(timeout_tick[x], tick) - Off(tick, tick) <= HT!TickMax \div 2
          /\ Off(tick, tick) = 0
      BY <2>1, OffSelf, TimerSizes, HalfTick
    <2>3. HT!Within(tick, timeout_tick[x]) <=> Off(tick, tick) >= Off(timeout_tick[x], tick)
      BY <2>1, <2>2, WithinOff
    <2> QED  BY <2>1, <2>2, <2>3
  <1> QED  BY <1>1, <1>4, <1>5 DEF TimersInv, HT!TimersConsistent

LEMMA TimersInvInit == HT!Init => TimersInv
  <1> SUFFICES ASSUME HT!Init PROVE TimersInv
    OBVIOUS
  <1>1. /\ tick = 0 /\ rt_timer_list = << >> /\ timeout_tick = [x \in Timer |-> 0]
        /\ init_tick = [x \in Timer |-> CHOOSE d \in Time : TRUE]
        /\ activated = {} /\ fresh = {}
        /\ timer_at = [t \in Task |-> "run"] /\ timer_arg = [t \in Task |-> Nil]
    BY DEF HT!Init
  <1>2. 0 \in HT!Tick /\ (CHOOSE d \in Time : TRUE) \in Time
    BY HalfTick, TimerFacts DEF HT!Tick, HT!HardTimerAssumption
  <1>3. HT!TypeOK
    BY <1>1, <1>2 DEF HT!TypeOK
  <1>4. TimerHands
    BY <1>1 DEF TimerHands
  <1>5. TimerListed /\ TimerSpread
    BY <1>1 DEF TimerListed, TimerSpread, Distinct, ToSet, ByUrgency
  <1> QED  BY <1>3, <1>4, <1>5 DEF TimersInv

-----------------------------------------------------------------------------
(* What a round of rt_timer_check does to the list, the timeouts and the flags *)

TimerRecord == [list : Seq(Timer), due : [Timer -> HT!Tick], active : SUBSET Timer]

\* The record s at tick now: the list is in order and holds the active timers but
\* those of X, and only timers that were active have been touched.
Rounding(s, now, X) ==
    /\ s \in TimerRecord
    /\ Distinct(s.list) /\ ByUrgency(s.list, Aheads(s.due, now))
    /\ \A x \in Timer : x \in ToSet(s.list) <=> x \in s.active /\ x \notin X
    /\ s.active \subseteq activated
    /\ \A x \in Timer \ activated : s.due[x] = timeout_tick[x]
    /\ \A x \in ToSet(s.list) : /\ - MaxLag - 1 <= Off(s.due[x], now)
                                /\ Off(s.due[x], now) <= Furthest

LEMMA RecordFields ==
    ASSUME NEW s \in TimerRecord
    PROVE  /\ s.list \in Seq(Timer) /\ s.due \in [Timer -> HT!Tick] /\ s.active \in SUBSET Timer
           /\ \A x \in ToSet(s.list) : x \in Timer
  <1>1. s.list \in Seq(Timer) /\ s.due \in [Timer -> HT!Tick] /\ s.active \in SUBSET Timer
    BY DEF TimerRecord
  <1>2. \A x \in ToSet(s.list) : x \in Timer
    BY <1>1, LenProperties, ElementOfSeq DEF ToSet
  <1> QED  BY <1>1, <1>2

\* A list of timers that is a part of another one.
LEMMA RoundingPart ==
    ASSUME NEW s, NEW now, NEW X, Rounding(s, now, X), NEW r \in TimerRecord, NEW Y,
           r.due = s.due, r.active \subseteq s.active, ToSet(r.list) \subseteq ToSet(s.list),
           Distinct(r.list), ByUrgency(r.list, Aheads(s.due, now)),
           \A x \in Timer : x \in ToSet(r.list) <=> x \in r.active /\ x \notin Y
    PROVE  Rounding(r, now, Y)
  <1>1. r.active \subseteq activated /\ \A x \in Timer \ activated : r.due[x] = timeout_tick[x]
    BY DEF Rounding
  <1>2. \A x \in ToSet(r.list) : /\ - MaxLag - 1 <= Off(r.due[x], now)
                                 /\ Off(r.due[x], now) <= Furthest
    BY DEF Rounding
  <1> QED  BY <1>1, <1>2 DEF Rounding

\* rt_timer_stop in a callback.
LEMMA TryStoppedRounding ==
    ASSUME NEW s, NEW now, NEW X, Rounding(s, now, X), NEW y
    PROVE  /\ Rounding(HT!TryStopped(s, y), now, X)
           /\ ToSet(HT!TryStopped(s, y).list) \subseteq ToSet(s.list)
           /\ HT!TryStopped(s, y).due = s.due
  <1>1. CASE y \notin s.active
    BY <1>1 DEF HT!TryStopped
  <1>2. CASE y \in s.active
    <2> DEFINE l == RemoveFirst(s.list, y)
               a == s.active \ {y}
               r == [s EXCEPT !.list = l, !.active = a]
    <2>1. HT!TryStopped(s, y) = r
      BY <1>2, TimerFacts, Zenon DEF HT!TryStopped, HT!Stopped
    <2>2. s \in TimerRecord
      BY DEF Rounding
    <2>3. s.list \in Seq(Timer) /\ s.active \in SUBSET Timer /\ Distinct(s.list)
      BY <2>2, RecordFields DEF Rounding
    <2>4. l \in Seq(Timer) /\ ToSet(l) = ToSet(s.list) \ {y} /\ Distinct(l)
      BY <2>3, RemoveFirstList
    <2>5. ByUrgency(l, Aheads(s.due, now))
      BY <2>3, RemoveFirstInOrder DEF Rounding
    <2> HIDE DEF l
    <2>6. r \in TimerRecord /\ r.list = l /\ r.active = a /\ r.due = s.due
      BY <2>2, <2>3, <2>4, Zenon DEF TimerRecord
    <2> HIDE DEF r
    <2>7. \A x \in Timer : x \in ToSet(r.list) <=> x \in r.active /\ x \notin X
      BY <2>4, <2>6 DEF Rounding
    <2>8. Rounding(r, now, X)
      BY <2>4, <2>5, <2>6, <2>7, RoundingPart
    <2> QED  BY <2>1, <2>4, <2>6, <2>8
  <1> QED  BY <1>1, <1>2

\* The timers that a callback stops one after the other.
StopStep(s, order, f, i) == IF i = 0 THEN s ELSE HT!TryStopped(f[i - 1], order[i])

StopsExist(s, order, n) == \E f : f = [i \in 0 .. n |-> StopStep(s, order, f, i)]

LEMMA StopsAll ==
    ASSUME NEW s, NEW order, NEW N \in Nat
    PROVE  StopsExist(s, order, N)
  <1> USE DEF StopsExist
  <1> DEFINE Bad == {m \in Nat : ~ \E f : f = [i \in 0 .. m |-> StopStep(s, order, f, i)]}
  <1>1. SUFFICES ASSUME Bad # {} PROVE FALSE
    OBVIOUS
  <1>2. PICK m \in Bad : \A j \in Bad : m <= j
    BY <1>1, LeastNat, Zenon
  <1>3. CASE m = 0
    <2>1. \A g, h : StopStep(s, order, g, 0) = StopStep(s, order, h, 0)
      BY DEF StopStep
    <2> DEFINE f == [i \in 0 .. 0 |-> StopStep(s, order, << >>, i)]
    <2>2. f = [i \in 0 .. 0 |-> StopStep(s, order, f, i)]
      BY <2>1
    <2> QED  BY <1>2, <1>3, <2>2
  <1>4. CASE m # 0
    <2>1. m - 1 \in Nat /\ m - 1 \notin Bad
      BY <1>2, <1>4
    <2>2. PICK f : f = [i \in 0 .. m - 1 |-> StopStep(s, order, f, i)]
      BY <2>1
    <2> DEFINE g == [i \in 0 .. m |-> IF i = m THEN StopStep(s, order, f, i) ELSE f[i]]
    <2>3. ASSUME NEW i \in 0 .. m PROVE StopStep(s, order, g, i) = StopStep(s, order, f, i)
      <3>1. i # 0 => g[i - 1] = f[i - 1]
        BY <2>3
      <3> HIDE DEF g
      <3> QED  BY <3>1 DEF StopStep
    <2>4. \A i \in 0 .. m - 1 : f[i] = StopStep(s, order, f, i)
      BY <2>2
    <2>5. \A i \in 0 .. m : g[i] = StopStep(s, order, g, i)
      BY <1>2, <1>4, <2>3, <2>4
    <2>6. g = [i \in 0 .. m |-> StopStep(s, order, g, i)]
      BY <2>5
    <2> QED  BY <1>2, <2>6, Zenon
  <1> QED  BY <1>3, <1>4

LEMMA CalledRounding ==
    ASSUME NEW s, NEW now, NEW X, Rounding(s, now, X), NEW x \in Timer, NEW off \in SUBSET Timer
    PROVE  /\ Rounding(HT!Called(s, x, off), now, X)
           /\ ToSet(HT!Called(s, x, off).list) \subseteq ToSet(s.list)
           /\ HT!Called(s, x, off).due = s.due
  <1>1. PICK order : order = SetToSeq(Stops[x] \cap off) /\ Len(order) \in Nat
    <2>1. PICK order : order = SetToSeq(Stops[x] \cap off)
      OBVIOUS
    <2>2. IsFiniteSet(Stops[x] \cap off)
      BY TimerSizes, FS_Subset
    <2>3. order \in Seq(Stops[x] \cap off)
      BY <2>1, <2>2, SetInSequence
    <2> QED  BY <2>1, <2>3, LenProperties
  <1> DEFINE n == Len(order)
             P(f) == f = [i \in 0 .. n |-> StopStep(s, order, f, i)]
             g == CHOOSE f : P(f)
  <1>2. HT!Called(s, x, off) = g[n]
    BY <1>1, TimerFacts, Zenon DEF HT!Called, StopStep
  <1>3. P(g)
    <2>1. StopsExist(s, order, n)
      BY <1>1, StopsAll
    <2>2. \E f : P(f)
      BY <2>1 DEF StopsExist
    <2> HIDE DEF P
    <2> QED  BY <2>2
  <1> HIDE DEF g
  <1>4. \A i \in 0 .. n : g[i] = IF i = 0 THEN s ELSE HT!TryStopped(g[i - 1], order[i])
    BY <1>3, Zenon DEF StopStep
  <1> DEFINE Good(r) == /\ Rounding(r, now, X) /\ ToSet(r.list) \subseteq ToSet(s.list)
                        /\ r.due = s.due
             Bad == {i \in 0 .. n : ~ Good(g[i])}
  <1> HIDE DEF P
  <1>5. ASSUME Bad # {} PROVE FALSE
    <2>1. Bad \in SUBSET Nat
      BY <1>1
    <2>2. PICK m \in Bad : \A j \in Bad : m <= j
      BY <1>5, <2>1, LeastNat, Zenon
    <2>3. m # 0
      <3>1. 0 \in 0 .. n
        BY <1>1
      <3>2. g[0] = s
        BY <1>4, <3>1
      <3>3. Good(g[0])
        BY <3>2
      <3> QED  BY <2>2, <3>3
    <2>4. m - 1 \in 0 .. n /\ m - 1 \notin Bad
      <3>1. m \in 0 .. n
        BY <2>2
      <3> HIDE DEF Bad
      <3> QED  BY <1>1, <2>2, <2>3, <3>1
    <2>5. Good(g[m - 1])
      BY <2>4
    <2>6. g[m] = HT!TryStopped(g[m - 1], order[m])
      BY <1>4, <2>2, <2>3
    <2>7. PICK r, y : r = g[m - 1] /\ y = order[m]
      OBVIOUS
    <2>8. Good(HT!TryStopped(r, y))
      <3>1. Rounding(r, now, X) /\ ToSet(r.list) \subseteq ToSet(s.list) /\ r.due = s.due
        BY <2>5, <2>7
      <3>2. /\ Rounding(HT!TryStopped(r, y), now, X)
            /\ ToSet(HT!TryStopped(r, y).list) \subseteq ToSet(r.list)
            /\ HT!TryStopped(r, y).due = r.due
        BY <3>1, TryStoppedRounding
      <3> QED  BY <3>1, <3>2
    <2> QED  BY <2>2, <2>6, <2>7, <2>8
  <1>6. n \in 0 .. n
    BY <1>1
  <1>7. Good(g[n])
    BY <1>5, <1>6
  <1> QED  BY <1>2, <1>7

\* rt_timer_start puts the timer on the list again.
LEMMA StartedList ==
    ASSUME TimersInv, NEW s \in TimerRecord, NEW now \in HT!Tick, NEW x \in Timer,
           Distinct(s.list), ByUrgency(s.list, Aheads(s.due, now)),
           \A y \in ToSet(s.list) : /\ - MaxLag - 1 <= Off(s.due[y], now)
                                    /\ Off(s.due[y], now) <= Furthest
    PROVE  /\ HT!Started(s, x, now) \in TimerRecord
           /\ Distinct(HT!Started(s, x, now).list)
           /\ ToSet(HT!Started(s, x, now).list) = ToSet(s.list) \cup {x}
           /\ HT!Started(s, x, now).active = s.active \cup {x}
           /\ \A y \in Timer \ {x} : HT!Started(s, x, now).due[y] = s.due[y]
           /\ 1 <= Off(HT!Started(s, x, now).due[x], now)
           /\ Off(HT!Started(s, x, now).due[x], now) <= Furthest
           /\ ByUrgency(HT!Started(s, x, now).list, Aheads(HT!Started(s, x, now).due, now))
  <1> DEFINE v == (now + init_tick[x]) % TickMod
             d == [s.due EXCEPT ![x] = v]
             l == RemoveFirst(s.list, x)
             w == HT!Linked(l, d, x)
             r == HT!Started(s, x, now)
  <1>1. s.list \in Seq(Timer) /\ s.due \in [Timer -> HT!Tick] /\ s.active \in SUBSET Timer
    BY RecordFields
  <1>2. v \in HT!Tick /\ 1 <= Off(v, now) /\ Off(v, now) <= Furthest
    <2>1. init_tick[x] \in Nat /\ 1 <= init_tick[x] /\ init_tick[x] <= Furthest
      BY TimersTypes
    <2>2. init_tick[x] <= HT!TickMax \div 2
      BY <2>1, TimerSizes, HalfTick
    <2>3. v \in HT!Tick /\ Off(v, now) = init_tick[x]
      BY <2>1, <2>2, OffAdd
    <2> QED  BY <2>1, <2>3
  <1> HIDE DEF v
  <1>3. /\ d \in [Timer -> HT!Tick] /\ d[x] = v
        /\ \A y \in Timer \ {x} : d[y] = s.due[y]
    BY <1>1, <1>2
  <1>4. l \in Seq(Timer) /\ ToSet(l) = ToSet(s.list) \ {x} /\ Distinct(l)
    BY <1>1, RemoveFirstList
  <1>5. r = [list |-> w, due |-> d, active |-> s.active \cup {x}]
    BY TimerFacts, Zenon DEF HT!Started, v
  <1>6. ByUrgency(l, Aheads(s.due, now))
    BY <1>1, RemoveFirstInOrder
  <1> HIDE DEF d, l
  <1>7. \A y \in ToSet(l) : y \in Timer \ {x} /\ y \in ToSet(s.list)
    BY <1>4, RecordFields
  <1>8. \A y \in ToSet(l) : Aheads(d, now)[y] = Aheads(s.due, now)[y]
    BY <1>3, <1>7 DEF Aheads
  <1>9. ByUrgency(l, Aheads(d, now))
    BY <1>4, <1>6, <1>8, OrderAgrees
  <1>10. ASSUME NEW y \in ToSet(l)
         PROVE  /\ Off(d[y], now) - Off(d[x], now) < HT!TickMax \div 2
                /\ Off(d[x], now) - Off(d[y], now) <= HT!TickMax \div 2
    <2>1. d[y] = s.due[y] /\ d[y] \in HT!Tick /\ d[x] \in HT!Tick
      BY <1>3, <1>7
    <2>2. Off(d[y], now) \in Int /\ Off(d[x], now) \in Int
      BY <2>1, OffForm
    <2>3. - MaxLag - 1 <= Off(d[y], now) /\ Off(d[y], now) <= Furthest
      BY <1>7, <2>1
    <2> QED  BY <1>2, <1>3, <2>2, <2>3, TimerSizes, HalfTick
  <1>11. ByUrgency(w, Aheads(d, now))
    BY <1>3, <1>4, <1>9, <1>10, LinkedInOrder
  <1>12. w \in Seq(Timer) /\ ToSet(w) = ToSet(l) \cup {x} /\ Distinct(w)
    BY <1>4, LinkedList
  <1> HIDE DEF w
  <1>13. r \in TimerRecord
    BY <1>1, <1>3, <1>5, <1>12 DEF TimerRecord
  <1>14. r.list = w /\ r.due = d /\ r.active = s.active \cup {x}
    BY <1>5
  <1>15. ToSet(w) = ToSet(s.list) \cup {x}
    BY <1>4, <1>12
  <1> HIDE DEF r
  <1>16. /\ r \in TimerRecord /\ Distinct(r.list) /\ ToSet(r.list) = ToSet(s.list) \cup {x}
         /\ r.active = s.active \cup {x} /\ \A y \in Timer \ {x} : r.due[y] = s.due[y]
         /\ 1 <= Off(r.due[x], now) /\ Off(r.due[x], now) <= Furthest
         /\ ByUrgency(r.list, Aheads(r.due, now))
    BY <1>2, <1>3, <1>11, <1>12, <1>13, <1>14, <1>15
  <1> QED  BY <1>16 DEF r

\* A periodic timer that was active is started again.
LEMMA StartedRounding ==
    ASSUME TimersInv, NEW s, NEW now \in HT!Tick, NEW X, NEW x \in activated, x \notin X,
           Rounding(s, now, X \cup {x})
    PROVE  /\ Rounding(HT!Started(s, x, now), now, X)
           /\ ToSet(HT!Started(s, x, now).list) = ToSet(s.list) \cup {x}
           /\ \A y \in Timer \ {x} : HT!Started(s, x, now).due[y] = s.due[y]
           /\ 1 <= Off(HT!Started(s, x, now).due[x], now)
  <1>1. x \in Timer /\ activated \in SUBSET Timer
    BY TimersTypes
  <1>2. s \in TimerRecord /\ s.active \subseteq activated
    BY DEF Rounding
  <1>3. PICK r : r = HT!Started(s, x, now)
    OBVIOUS
  <1>4. /\ r \in TimerRecord /\ Distinct(r.list) /\ ToSet(r.list) = ToSet(s.list) \cup {x}
        /\ r.active = s.active \cup {x} /\ \A y \in Timer \ {x} : r.due[y] = s.due[y]
        /\ 1 <= Off(r.due[x], now) /\ Off(r.due[x], now) <= Furthest
        /\ ByUrgency(r.list, Aheads(r.due, now))
    BY <1>1, <1>2, <1>3, StartedList DEF Rounding
  <1>5. \A y \in Timer : y \in ToSet(r.list) <=> y \in r.active /\ y \notin X
    BY <1>4 DEF Rounding
  <1>6. r.active \subseteq activated /\ \A y \in Timer \ activated : r.due[y] = timeout_tick[y]
    BY <1>2, <1>4 DEF Rounding
  <1>7. ASSUME NEW y \in ToSet(r.list)
        PROVE  - MaxLag - 1 <= Off(r.due[y], now) /\ Off(r.due[y], now) <= Furthest
    <2>1. CASE y = x
      BY <1>4, <2>1, TimerSizes, OffForm, RecordFields
    <2>2. CASE y # x
      BY <1>2, <1>4, <2>2, RecordFields DEF Rounding
    <2> QED  BY <2>1, <2>2
  <1>8. Rounding(r, now, X)
    BY <1>4, <1>5, <1>6, <1>7 DEF Rounding
  <1> QED  BY <1>3, <1>4, <1>8

\* The timers of the list that are due.
Late(s, now) == {y \in ToSet(s.list) : Off(s.due[y], now) <= 0}

LEMMA FireRounding ==
    ASSUME TimersInv, NEW s, NEW now \in HT!Tick, NEW X, Rounding(s, now, X),
           s.list # << >>, NEW off \in SUBSET Timer
    PROVE  /\ Rounding(HT!Fire(s, now, off), now, X)
           /\ Late(HT!Fire(s, now, off), now) \subseteq Late(s, now) \ {Head(s.list)}
  <1>1. PICK x : x = Head(s.list)
    OBVIOUS
  <1>2. s \in TimerRecord /\ s.list \in Seq(Timer) /\ Distinct(s.list) /\ s.active \in SUBSET Timer
    BY RecordFields DEF Rounding
  <1>3. /\ x \in Timer /\ x \in ToSet(s.list) /\ x \in s.active /\ x \in activated /\ x \notin X
        /\ Tail(s.list) \in Seq(Timer) /\ ToSet(Tail(s.list)) = ToSet(s.list) \ {x}
        /\ Distinct(Tail(s.list))
    <2>1. /\ x \in Timer /\ x \in ToSet(s.list) /\ Tail(s.list) \in Seq(Timer)
          /\ ToSet(Tail(s.list)) = ToSet(s.list) \ {x} /\ Distinct(Tail(s.list))
      BY <1>1, <1>2, HeadTailList
    <2>2. x \in s.active /\ x \notin X /\ s.active \subseteq activated
      BY <2>1 DEF Rounding
    <2> QED  BY <2>1, <2>2
  <1>4. PICK m : m = [s EXCEPT !.list = Tail(s.list)]
    BY Zenon
  <1>5. m \in TimerRecord /\ m.list = Tail(s.list) /\ m.due = s.due /\ m.active = s.active
    BY <1>2, <1>3, <1>4, Zenon DEF TimerRecord
  <1>6. Rounding(m, now, X \cup {x})
    <2>1. ByUrgency(m.list, Aheads(s.due, now))
      BY <1>2, <1>5, TailInOrder DEF Rounding
    <2>2. \A y \in Timer : y \in ToSet(m.list) <=> y \in m.active /\ y \notin X \cup {x}
      BY <1>3, <1>5 DEF Rounding
    <2>3. ToSet(m.list) \subseteq ToSet(s.list) /\ Distinct(m.list)
      BY <1>3, <1>5
    <2> QED  BY <1>5, <2>1, <2>2, <2>3, RoundingPart
  <1>7. PICK r : r = HT!Called(m, x, off)
    OBVIOUS
  <1>8. /\ Rounding(r, now, X \cup {x}) /\ ToSet(r.list) \subseteq ToSet(m.list)
        /\ r.due = m.due
    BY <1>3, <1>6, <1>7, CalledRounding
  <1>9. r \in TimerRecord
    BY <1>8 DEF Rounding
  <1>10. PICK q : q = HT!Fire(s, now, off)
    OBVIOUS
  <1>11. q = IF x \in Periodic \cap r.active THEN HT!Started(r, x, now)
             ELSE [r EXCEPT !.active = r.active \ {x}]
    BY <1>1, <1>4, <1>7, <1>10 DEF HT!Fire
  <1>12. ToSet(r.list) \subseteq ToSet(s.list) \ {x} /\ r.due = s.due
    BY <1>3, <1>5, <1>8
  <1>13. CASE x \in Periodic \cap r.active
    <2>1. q = HT!Started(r, x, now)
      BY <1>11, <1>13
    <2>2. /\ Rounding(q, now, X) /\ ToSet(q.list) = ToSet(r.list) \cup {x}
          /\ \A y \in Timer \ {x} : q.due[y] = r.due[y]
          /\ 1 <= Off(q.due[x], now)
      <3>1. x \in activated /\ x \notin X /\ Rounding(r, now, X \cup {x})
        BY <1>3, <1>8
      <3>2. /\ Rounding(HT!Started(r, x, now), now, X)
            /\ ToSet(HT!Started(r, x, now).list) = ToSet(r.list) \cup {x}
            /\ \A y \in Timer \ {x} : HT!Started(r, x, now).due[y] = r.due[y]
            /\ 1 <= Off(HT!Started(r, x, now).due[x], now)
        BY <3>1, StartedRounding, Zenon
      <3> QED  BY <2>1, <3>2
    <2>3. q \in TimerRecord /\ Off(q.due[x], now) \in Int
      BY <1>3, <2>2, RecordFields, OffForm DEF Rounding
    <2>4. x \notin Late(q, now)
      BY <2>2, <2>3 DEF Late
    <2>5. ASSUME NEW y \in Late(q, now), y # x PROVE y \in Late(s, now)
      <3>1. y \in ToSet(q.list) /\ Off(q.due[y], now) <= 0
        BY <2>5 DEF Late
      <3>2. y \in ToSet(r.list) /\ y \in Timer
        BY <2>2, <2>3, <2>5, <3>1, RecordFields
      <3>3. q.due[y] = s.due[y]
        BY <1>12, <2>2, <2>5, <3>2
      <3>4. y \in ToSet(s.list)
        BY <1>12, <3>2
      <3> QED  BY <3>1, <3>3, <3>4 DEF Late
    <2> QED  BY <1>1, <1>10, <2>2, <2>4, <2>5
  <1>14. CASE x \notin Periodic \cap r.active
    <2>1. q = [r EXCEPT !.active = r.active \ {x}]
      BY <1>11, <1>14
    <2>2. q \in TimerRecord /\ q.list = r.list /\ q.due = r.due /\ q.active = r.active \ {x}
      BY <1>9, <2>1 DEF TimerRecord
    <2>3. \A y \in Timer : y \in ToSet(q.list) <=> y \in q.active /\ y \notin X
      BY <1>3, <1>8, <2>2 DEF Rounding
    <2>4. Distinct(q.list) /\ ByUrgency(q.list, Aheads(r.due, now))
      BY <1>8, <2>2 DEF Rounding
    <2>5. Rounding(q, now, X)
      BY <1>8, <2>2, <2>3, <2>4, RoundingPart
    <2>6. Late(q, now) \subseteq Late(s, now) \ {x}
      BY <1>12, <2>2 DEF Late
    <2> QED  BY <1>1, <1>10, <2>5, <2>6
  <1> QED  BY <1>13, <1>14

\* A round serves a timer that is due, or there was none.
LEMMA RoundRounding ==
    ASSUME TimersInv, NEW s, NEW now \in HT!Tick, NEW X, Rounding(s, now, X),
           NEW off \in SUBSET Timer
    PROVE  /\ Rounding(HT!Round(s, now, off), now, X)
           /\ \/ Late(HT!Round(s, now, off), now) = {}
              \/ \E e \in Late(s, now) : Late(HT!Round(s, now, off), now) \subseteq Late(s, now) \ {e}
  <1>1. PICK q : q = HT!Round(s, now, off)
    OBVIOUS
  <1>2. s \in TimerRecord /\ s.list \in Seq(Timer) /\ s.due \in [Timer -> HT!Tick]
    BY RecordFields DEF Rounding
  <1>3. CASE s.list = << >>
    <2>1. q = s
      BY <1>1, <1>3 DEF HT!Round
    <2>2. Late(s, now) = {}
      BY <1>2, <1>3, EmptyList, Zenon DEF Late
    <2> QED  BY <1>1, <2>1, <2>2
  <1>4. CASE s.list # << >>
    <2>1. PICK x : x = s.list[1]
      OBVIOUS
    <2>2. \A y \in Timer : /\ Aheads(s.due, now)[y] = Off(s.due[y], now)
                           /\ Off(s.due[y], now) \in Int /\ s.due[y] \in HT!Tick
      BY <1>2, OffForm DEF Aheads
    <2>3. /\ x \in ToSet(s.list) /\ x \in Timer
          /\ \A y \in ToSet(s.list) : Aheads(s.due, now)[x] <= Aheads(s.due, now)[y]
      <3>1. ByUrgency(s.list, Aheads(s.due, now))
        BY DEF Rounding
      <3>2. \A y \in Timer : Aheads(s.due, now)[y] \in Int
        BY <2>2
      <3> QED  BY <1>2, <1>4, <2>1, <3>1, <3>2, FirstLeast
    <2>4. HT!Within(now, s.due[x]) <=> 0 >= Off(s.due[x], now)
      <3>1. PICK v \in HT!Tick : v = s.due[x]
        BY <2>2, <2>3
      <3>2. /\ - MaxLag - 1 <= Off(v, now) /\ Off(v, now) <= Furthest /\ Off(v, now) \in Int
            /\ Off(now, now) = 0
        BY <2>2, <2>3, <3>1, OffSelf DEF Rounding
      <3>3. /\ Off(now, now) - Off(v, now) < HT!TickMax \div 2
            /\ Off(v, now) - Off(now, now) <= HT!TickMax \div 2
        BY <3>2, TimerSizes, HalfTick
      <3>4. HT!Within(now, v) <=> Off(now, now) >= Off(v, now)
        BY <3>3, WithinOff
      <3> QED  BY <3>1, <3>2, <3>4
    <2>5. CASE HT!Within(now, s.due[x])
      <3>1. q = HT!Fire(s, now, off)
        BY <1>1, <1>4, <2>1, <2>5 DEF HT!Round
      <3>2. Head(s.list) = x
        BY <1>2, <1>4, <2>1
      <3>3. x \in Late(s, now)
        BY <2>2, <2>3, <2>4, <2>5 DEF Late
      <3>4. Rounding(q, now, X) /\ Late(q, now) \subseteq Late(s, now) \ {x}
        BY <1>4, <3>1, <3>2, FireRounding
      <3> QED  BY <1>1, <3>3, <3>4
    <2>6. CASE ~ HT!Within(now, s.due[x])
      <3>1. q = s
        BY <1>1, <2>1, <2>6 DEF HT!Round
      <3>2. \A y \in ToSet(s.list) : y \in Timer
        BY <1>2, RecordFields
      <3>3. \A y \in ToSet(s.list) : ~ (Off(s.due[y], now) <= 0)
        <4> SUFFICES ASSUME NEW y \in ToSet(s.list) PROVE ~ (Off(s.due[y], now) <= 0)
          OBVIOUS
        <4>1. Off(s.due[x], now) <= Off(s.due[y], now)
          BY <2>2, <2>3, <3>2
        <4> QED  BY <2>2, <2>3, <2>4, <2>6, <3>2, <4>1
      <3>4. Late(s, now) = {}
        BY <3>3 DEF Late
      <3> QED  BY <1>1, <3>1, <3>4
    <2> QED  BY <2>5, <2>6
  <1> QED  BY <1>3, <1>4

-----------------------------------------------------------------------------
(* rt_timer_check leaves no timer on the list that is due *)

RoundStep(s, now, off, f, i) == IF i = 0 THEN s ELSE HT!Round(f[i - 1], now, off)

RoundsExist(s, now, off, n) == \E f : f = [i \in 0 .. n |-> RoundStep(s, now, off, f, i)]

LEMMA RoundsAll ==
    ASSUME NEW s, NEW now, NEW off, NEW N \in Nat
    PROVE  RoundsExist(s, now, off, N)
  <1> USE DEF RoundsExist
  <1> DEFINE Bad == {m \in Nat : ~ \E f : f = [i \in 0 .. m |-> RoundStep(s, now, off, f, i)]}
  <1>1. SUFFICES ASSUME Bad # {} PROVE FALSE
    OBVIOUS
  <1>2. PICK m \in Bad : \A j \in Bad : m <= j
    BY <1>1, LeastNat, Zenon
  <1>3. CASE m = 0
    <2>1. \A g, h : RoundStep(s, now, off, g, 0) = RoundStep(s, now, off, h, 0)
      BY DEF RoundStep
    <2> DEFINE f == [i \in 0 .. 0 |-> RoundStep(s, now, off, << >>, i)]
    <2>2. f = [i \in 0 .. 0 |-> RoundStep(s, now, off, f, i)]
      BY <2>1
    <2> QED  BY <1>2, <1>3, <2>2
  <1>4. CASE m # 0
    <2>1. m - 1 \in Nat /\ m - 1 \notin Bad
      BY <1>2, <1>4
    <2>2. PICK f : f = [i \in 0 .. m - 1 |-> RoundStep(s, now, off, f, i)]
      BY <2>1
    <2> DEFINE g == [i \in 0 .. m |-> IF i = m THEN RoundStep(s, now, off, f, i) ELSE f[i]]
    <2>3. ASSUME NEW i \in 0 .. m
          PROVE  RoundStep(s, now, off, g, i) = RoundStep(s, now, off, f, i)
      <3>1. i # 0 => g[i - 1] = f[i - 1]
        BY <2>3
      <3> HIDE DEF g
      <3> QED  BY <3>1 DEF RoundStep
    <2>4. \A i \in 0 .. m - 1 : f[i] = RoundStep(s, now, off, f, i)
      BY <2>2
    <2>5. \A i \in 0 .. m : g[i] = RoundStep(s, now, off, g, i)
      BY <1>2, <1>4, <2>3, <2>4
    <2>6. g = [i \in 0 .. m |-> RoundStep(s, now, off, g, i)]
      BY <2>5
    <2> QED  BY <1>2, <2>6, Zenon
  <1> QED  BY <1>3, <1>4

\* There are as many rounds as timers, each of which leaves one less that is due.
LEMMA CheckedRounding ==
    ASSUME TimersInv, NEW s, NEW now \in HT!Tick, NEW X, Rounding(s, now, X),
           NEW off \in SUBSET Timer
    PROVE  Rounding(HT!Checked(s, now, off), now, X) /\ Late(HT!Checked(s, now, off), now) = {}
  <1> DEFINE n == Cardinality(Timer)
             P(f) == f = [i \in 0 .. n |-> RoundStep(s, now, off, f, i)]
             g == CHOOSE f : P(f)
  <1>1. n \in Nat /\ IsFiniteSet(Timer)
    BY TimerSizes
  <1>2. HT!Checked(s, now, off) = g[n]
    BY TimerFacts, Zenon DEF HT!Checked, RoundStep
  <1>3. P(g)
    <2>1. RoundsExist(s, now, off, n)
      BY <1>1, RoundsAll
    <2>2. \E f : P(f)
      BY <2>1 DEF RoundsExist
    <2> HIDE DEF P
    <2> QED  BY <2>2
  <1> HIDE DEF g
  <1>4. \A i \in 0 .. n : g[i] = IF i = 0 THEN s ELSE HT!Round(g[i - 1], now, off)
    BY <1>3, Zenon DEF RoundStep
  <1> HIDE DEF n, P
  <1>5. ASSUME NEW r, Rounding(r, now, X)
        PROVE  /\ Late(r, now) \in SUBSET Timer /\ IsFiniteSet(Late(r, now))
               /\ Cardinality(Late(r, now)) \in Nat /\ Cardinality(Late(r, now)) <= n
    <2>1. r \in TimerRecord
      BY <1>5 DEF Rounding
    <2>2. Late(r, now) \in SUBSET Timer
      BY <2>1, RecordFields DEF Late
    <2> QED  BY <1>1, <2>2, FS_Subset, FS_CardinalityType DEF n
  <1> DEFINE Good(r, i) == Rounding(r, now, X) /\ Cardinality(Late(r, now)) <= n - i
             Bad == {i \in 0 .. n : ~ Good(g[i], i)}
  <1>6. ASSUME NEW r, NEW i \in 1 .. n, Good(r, i - 1)
        PROVE  Good(HT!Round(r, now, off), i)
    <2>1. PICK q : q = HT!Round(r, now, off)
      OBVIOUS
    <2>2. Rounding(r, now, X) /\ Cardinality(Late(r, now)) <= n - (i - 1)
      BY <1>6
    <2>3. /\ Rounding(q, now, X)
          /\ \/ Late(q, now) = {}
             \/ \E e \in Late(r, now) : Late(q, now) \subseteq Late(r, now) \ {e}
      BY <2>1, <2>2, RoundRounding
    <2>4. IsFiniteSet(Late(r, now)) /\ Cardinality(Late(r, now)) \in Nat
      BY <1>5, <2>2
    <2>5. CASE Late(q, now) = {}
      <3>1. Cardinality(Late(q, now)) = 0
        BY <2>5, FS_EmptySet
      <3>2. 0 <= n - i
        BY <1>1
      <3> QED  BY <2>1, <2>3, <3>1, <3>2
    <2>6. CASE \E e \in Late(r, now) : Late(q, now) \subseteq Late(r, now) \ {e}
      <3>1. PICK e \in Late(r, now) : Late(q, now) \subseteq Late(r, now) \ {e}
        BY <2>6
      <3>2. /\ IsFiniteSet(Late(r, now) \ {e})
            /\ Cardinality(Late(r, now) \ {e}) = Cardinality(Late(r, now)) - 1
        BY <2>4, FS_RemoveElement
      <3>3. Cardinality(Late(q, now)) <= Cardinality(Late(r, now) \ {e})
        BY <3>1, <3>2, FS_Subset
      <3>4. Cardinality(Late(q, now)) \in Nat
        BY <1>5, <2>3
      <3>5. Cardinality(Late(q, now)) <= n - i
        BY <1>1, <2>2, <2>4, <3>2, <3>3, <3>4
      <3> QED  BY <2>1, <2>3, <3>5
    <2> QED  BY <2>3, <2>5, <2>6
  <1>7. ASSUME Bad # {} PROVE FALSE
    <2>1. Bad \in SUBSET Nat
      BY <1>1
    <2>2. PICK m \in Bad : \A j \in Bad : m <= j
      BY <1>7, <2>1, LeastNat, Zenon
    <2>3. m \in 0 .. n /\ ~ Good(g[m], m)
      BY <2>2
    <2>4. CASE m = 0
      <3>1. g[0] = s
        BY <1>4, <2>3, <2>4
      <3>2. Cardinality(Late(s, now)) <= n - 0
        BY <1>1, <1>5
      <3> QED  BY <2>3, <2>4, <3>1, <3>2
    <2>5. CASE m # 0
      <3> HIDE DEF Bad
      <3>1. m - 1 \in 0 .. n /\ m - 1 \notin Bad /\ m \in 1 .. n
        BY <1>1, <2>2, <2>3, <2>5
      <3> HIDE DEF Good
      <3>2. Good(g[m - 1], m - 1)
        BY <3>1 DEF Bad
      <3>3. g[m] = HT!Round(g[m - 1], now, off)
        BY <1>4, <2>3, <2>5
      <3>4. Good(HT!Round(g[m - 1], now, off), m)
        BY <1>6, <3>1, <3>2
      <3> QED  BY <2>3, <3>3, <3>4
    <2> QED  BY <2>4, <2>5
  <1>8. Good(g[n], n)
    <2>1. n \in 0 .. n
      BY <1>1
    <2> HIDE DEF Good
    <2> QED  BY <1>7, <2>1
  <1>9. Late(g[n], now) = {}
    <2>1. Rounding(g[n], now, X) /\ Cardinality(Late(g[n], now)) <= n - n
      BY <1>8
    <2>2. IsFiniteSet(Late(g[n], now)) /\ Cardinality(Late(g[n], now)) \in Nat
      BY <1>5, <2>1
    <2>3. Cardinality(Late(g[n], now)) = 0
      BY <1>1, <2>1, <2>2
    <2> QED  BY <2>2, <2>3, FS_EmptySet
  <1> QED  BY <1>2, <1>8, <1>9

-----------------------------------------------------------------------------
(* The steps of the threads and of the handlers that use timers *)

LEMMA ServeIs ==
    ASSUME NEW s, HT!Serve(s)
    PROVE  /\ rt_timer_list' = s.list /\ timeout_tick' = s.due /\ activated' = s.active
           /\ fresh' = (fresh \cup (ToSet(s.list) \ ToSet(rt_timer_list))) \cap ToSet(s.list)
  BY TimerFacts DEF HT!Serve

LEMMA ServiceIs ==
    ASSUME TimersInv
    PROVE  /\ HT!Service \in TimerRecord
           /\ HT!Service.list = rt_timer_list /\ HT!Service.due = timeout_tick
           /\ HT!Service.active = activated
  BY TimersTypes DEF HT!Service, TimerRecord

\* The timers in the hands of threads that do not move.
LEMMA LinkedTimers ==
    ASSUME TimersInv, NEW t \in Task, timer_at[t] = "link"
    PROVE  /\ timer_arg[t] \in Timer /\ timer_arg[t] \notin activated
           /\ timer_arg[t] \notin ToSet(rt_timer_list)
           /\ - MaxLag <= Off(timeout_tick[timer_arg[t]], tick)
           /\ Off(timeout_tick[timer_arg[t]], tick) <= Furthest
           /\ Off(timeout_tick[timer_arg[t]], tick) \in Int
  <1>1. timer_arg[t] \in Timer
    BY TimersTypes
  <1>2. timer_arg[t] \notin activated
    BY DEF TimersInv, TimerHands
  <1>3. timer_arg[t] \notin ToSet(rt_timer_list)
    BY <1>2, TimersTypes
  <1>4. /\ - MaxLag <= Off(timeout_tick[timer_arg[t]], tick)
        /\ Off(timeout_tick[timer_arg[t]], tick) <= Furthest
    BY DEF TimersInv, TimerSpread
  <1>5. Off(timeout_tick[timer_arg[t]], tick) \in Int
    BY <1>1, TimersTypes, OffForm
  <1> QED  BY <1>1, <1>2, <1>3, <1>4, <1>5

\* A timer leaves the list.
LEMMA TimerRemoved ==
    ASSUME TimersInv, NEW x, rt_timer_list' = RemoveFirst(rt_timer_list, x),
           timeout_tick' = timeout_tick, tick' = tick,
           fresh' = (fresh \cup (ToSet(rt_timer_list') \ ToSet(rt_timer_list)))
                        \cap ToSet(rt_timer_list'),
           \A t \in Task : timer_at'[t] = "link" => /\ timer_at[t] = "link"
                                                    /\ timer_arg'[t] = timer_arg[t]
    PROVE  /\ rt_timer_list' \in Seq(Timer) /\ Distinct(rt_timer_list')
           /\ ToSet(rt_timer_list') = ToSet(rt_timer_list) \ {x}
           /\ fresh' \in SUBSET Timer /\ TimerSpread'
  <1>1. rt_timer_list \in Seq(Timer) /\ Distinct(rt_timer_list) /\ fresh \in SUBSET Timer
    BY TimersTypes
  <1>2. /\ rt_timer_list' \in Seq(Timer) /\ Distinct(rt_timer_list')
        /\ ToSet(rt_timer_list') = ToSet(rt_timer_list) \ {x}
    BY <1>1, RemoveFirstList
  <1>3. ByUrgency(rt_timer_list', Aheads(timeout_tick, tick))
    BY <1>1, RemoveFirstInOrder DEF TimersInv, TimerSpread
  <1>4. ByUrgency(rt_timer_list, Aheads(timeout_tick, tick))'
    BY <1>3 DEF Aheads
  <1>5. fresh' = fresh \cap ToSet(rt_timer_list')
    BY <1>2
  <1>6. ASSUME NEW y \in ToSet(rt_timer_list')
        PROVE  /\ - MaxLag <= Off(timeout_tick'[y], tick') /\ Off(timeout_tick'[y], tick') <= Furthest
               /\ y \notin fresh' => 1 <= Off(timeout_tick'[y], tick')
    <2>1. y \in ToSet(rt_timer_list) /\ (y \notin fresh' => y \notin fresh)
      BY <1>2, <1>5
    <2> QED  BY <2>1 DEF TimersInv, TimerSpread
  <1>7. ASSUME NEW t \in Task, timer_at'[t] = "link"
        PROVE  /\ - MaxLag <= Off(timeout_tick'[timer_arg'[t]], tick')
               /\ Off(timeout_tick'[timer_arg'[t]], tick') <= Furthest
    BY <1>7 DEF TimersInv, TimerSpread
  <1>8. TimerSpread'
    BY <1>4, <1>6, <1>7 DEF TimerSpread
  <1>9. fresh' \in SUBSET Timer
    BY <1>1, <1>5
  <1> QED  BY <1>2, <1>8, <1>9


\* The timers that are being stopped.
LEMMA StoppingIs ==
    ASSUME NEW y
    PROVE  /\ HT!Stopping(y) <=> \E t \in Task : timer_at[t] = "unflag" /\ timer_arg[t] = y
           /\ HT!Stopping(y)' <=> \E t \in Task : timer_at'[t] = "unflag" /\ timer_arg'[t] = y
  BY DEF HT!Stopping, HT!At

\* A thread takes the timer x into its hands.
LEMMA TimerTaken ==
    ASSUME TimersInv, NEW t \in Task, timer_at[t] = "run", NEW x \in Timer, HT!Free(x),
           NEW a \in {"arm", "remove"}, HT!Enter(t, a, x),
           activated' \in SUBSET activated, a = "arm" => x \notin activated'
    PROVE  /\ timer_at' \in [Task -> {"run", "arm", "link", "remove", "unflag"}]
           /\ timer_arg' \in [Task -> Timer \cup {Nil}]
           /\ TimerHands' /\ \A y : HT!Stopping(y)' <=> HT!Stopping(y)
           /\ \A u \in Task : timer_at'[u] = "link" => /\ timer_at[u] = "link"
                                                       /\ timer_arg'[u] = timer_arg[u]
  <1>1. /\ timer_at' = [timer_at EXCEPT ![t] = a] /\ timer_arg' = [timer_arg EXCEPT ![t] = x]
        /\ \A u \in Task : timer_arg[u] # x
    BY DEF HT!Enter, HT!Free
  <1>2. /\ timer_at \in [Task -> {"run", "arm", "link", "remove", "unflag"}]
        /\ timer_arg \in [Task -> Timer \cup {Nil}]
    BY TimersTypes
  <1>3. /\ timer_at'[t] = a /\ timer_arg'[t] = x /\ x # Nil
        /\ \A u \in Task \ {t} : timer_at'[u] = timer_at[u] /\ timer_arg'[u] = timer_arg[u]
    BY <1>1, <1>2, TimerSizes
  <1>4. /\ timer_at' \in [Task -> {"run", "arm", "link", "remove", "unflag"}]
        /\ timer_arg' \in [Task -> Timer \cup {Nil}]
    BY <1>1, <1>2
  <1>5. \A u \in Task : timer_at'[u] = "run" <=> timer_arg'[u] = Nil
    BY <1>3 DEF TimersInv, TimerHands
  <1>6. \A u, w \in Task : u # w /\ timer_arg'[u] = timer_arg'[w] => timer_arg'[u] = Nil
    BY <1>1, <1>3 DEF TimersInv, TimerHands
  <1>7. \A u \in Task : timer_at'[u] \in {"arm", "link"} => timer_arg'[u] \notin activated'
    BY <1>3 DEF TimersInv, TimerHands
  <1>8. TimerHands'
    BY <1>5, <1>6, <1>7 DEF TimerHands
  <1>9. \A y : HT!Stopping(y)' <=> HT!Stopping(y)
    BY <1>3, StoppingIs
  <1> QED  BY <1>3, <1>4, <1>8, <1>9

\* A thread goes on with the timer in its hands, or puts it away.
LEMMA TimerMoved ==
    ASSUME TimersInv, NEW t \in Task, timer_at[t] # "run",
           NEW a \in {"run", "link", "unflag"}, HT!Goto(t, a),
           \A u \in Task \ {t} : timer_arg[u] \in activated' => timer_arg[u] \in activated,
           a = "link" => timer_arg[t] \notin activated'
    PROVE  /\ timer_at' \in [Task -> {"run", "arm", "link", "remove", "unflag"}]
           /\ timer_arg' \in [Task -> Timer \cup {Nil}]
           /\ TimerHands'
           /\ timer_at'[t] = a /\ timer_arg'[t] = (IF a = "run" THEN Nil ELSE timer_arg[t])
           /\ \A u \in Task \ {t} : /\ timer_at'[u] = timer_at[u]
                                    /\ timer_arg'[u] = timer_arg[u]
           /\ \A u \in Task \ {t} : timer_arg[u] # timer_arg[t]
  <1>1. /\ timer_at \in [Task -> {"run", "arm", "link", "remove", "unflag"}]
        /\ timer_arg \in [Task -> Timer \cup {Nil}] /\ timer_arg[t] \in Timer
        /\ Nil \notin Timer
    BY TimersTypes, TimerSizes
  <1>2. /\ timer_at' = [timer_at EXCEPT ![t] = a]
        /\ timer_arg' = IF a = "run" THEN [timer_arg EXCEPT ![t] = Nil] ELSE timer_arg
    BY DEF HT!Goto
  <1>3. /\ timer_at'[t] = a /\ timer_arg'[t] = (IF a = "run" THEN Nil ELSE timer_arg[t])
    BY <1>1, <1>2
  <1>4. \A u \in Task \ {t} : timer_at'[u] = timer_at[u] /\ timer_arg'[u] = timer_arg[u]
    BY <1>1, <1>2
  <1>5. timer_at' \in [Task -> {"run", "arm", "link", "remove", "unflag"}]
    BY <1>1, <1>2
  <1>6. timer_arg' \in [Task -> Timer \cup {Nil}]
    BY <1>1, <1>2
  <1>7. \A u \in Task \ {t} : timer_arg[u] # timer_arg[t]
    BY <1>1 DEF TimersInv, TimerHands
  <1>8. \A u \in Task : timer_at'[u] = "run" <=> timer_arg'[u] = Nil
    BY <1>1, <1>3, <1>4 DEF TimersInv, TimerHands
  <1>9. \A u, w \in Task : u # w /\ timer_arg'[u] = timer_arg'[w] => timer_arg'[u] = Nil
    BY <1>1, <1>3, <1>4, <1>7 DEF TimersInv, TimerHands
  <1>10. \A u \in Task : timer_at'[u] \in {"arm", "link"} => timer_arg'[u] \notin activated'
    BY <1>3, <1>4 DEF TimersInv, TimerHands
  <1>11. TimerHands'
    BY <1>8, <1>9, <1>10 DEF TimerHands
  <1> QED  BY <1>3, <1>4, <1>5, <1>6, <1>7, <1>11


LEMMA TypesAgain ==
    ASSUME TimersInv, tick' \in HT!Tick, rt_timer_list' \in Seq(Timer),
           timeout_tick' \in [Timer -> HT!Tick], init_tick' \in [Timer -> Time],
           activated' \in SUBSET Timer, fresh' \in SUBSET Timer,
           timer_at' \in [Task -> {"run", "arm", "link", "remove", "unflag"}],
           timer_arg' \in [Task -> Timer \cup {Nil}],
           TimerHands', TimerListed', TimerSpread'
    PROVE  TimersInv'
  <1>1. HT!TypeOK'
    BY DEF HT!TypeOK
  <1> QED  BY <1>1 DEF TimersInv

LEMMA TimerSetTime ==
    ASSUME TimersInv, NEW t \in Task, NEW x \in Timer, NEW d \in Time, HT!SetTime(t, x, d)
    PROVE  TimersInv'
  <1>1. /\ init_tick' = [init_tick EXCEPT ![x] = d]
        /\ UNCHANGED <<tick, rt_timer_list, timeout_tick, activated, timer_at, timer_arg, fresh>>
    BY DEF HT!SetTime
  <1>2. init_tick' \in [Timer -> Time]
    BY <1>1, TimersTypes
  <1>3. TimerHands' /\ TimerListed' /\ TimerSpread'
    BY <1>1 DEF TimersInv, TimerHands, TimerListed, TimerSpread, HT!Stopping, HT!At, Aheads
  <1> QED  BY <1>1, <1>2, <1>3, TimersTypes, TypesAgain

LEMMA TimerStartBegin ==
    ASSUME TimersInv, NEW t \in Task, NEW x \in Timer, HT!StartBegin(t, x)
    PROVE  TimersInv'
  <1>1. /\ timer_at[t] = "run" /\ HT!Free(x) /\ HT!Enter(t, "arm", x)
        /\ HT!Serve(HT!Stopped(HT!Service, x)) /\ tick' = tick /\ init_tick' = init_tick
    BY DEF HT!StartBegin, HT!At
  <1>2. /\ rt_timer_list' = RemoveFirst(rt_timer_list, x) /\ timeout_tick' = timeout_tick
        /\ activated' = activated \ {x}
        /\ fresh' = (fresh \cup (ToSet(rt_timer_list') \ ToSet(rt_timer_list)))
                        \cap ToSet(rt_timer_list')
    <2>1. PICK r : r = HT!Stopped(HT!Service, x)
      OBVIOUS
    <2>2. r.list = RemoveFirst(rt_timer_list, x) /\ r.due = timeout_tick /\ r.active = activated \ {x}
      BY <2>1, TimerFacts DEF HT!Stopped, HT!Service
    <2>3. HT!Serve(r)
      BY <1>1, <2>1
    <2> QED  BY <2>2, <2>3, ServeIs
  <1>3. activated \in SUBSET Timer
    BY TimersTypes
  <1>4. /\ timer_at' \in [Task -> {"run", "arm", "link", "remove", "unflag"}]
        /\ timer_arg' \in [Task -> Timer \cup {Nil}]
        /\ TimerHands' /\ \A y : HT!Stopping(y)' <=> HT!Stopping(y)
        /\ \A u \in Task : timer_at'[u] = "link" => /\ timer_at[u] = "link"
                                                    /\ timer_arg'[u] = timer_arg[u]
    BY <1>1, <1>2, TimerTaken
  <1>5. /\ rt_timer_list' \in Seq(Timer) /\ Distinct(rt_timer_list')
        /\ ToSet(rt_timer_list') = ToSet(rt_timer_list) \ {x}
        /\ fresh' \in SUBSET Timer /\ TimerSpread'
    BY <1>1, <1>2, <1>4, TimerRemoved
  <1>6. TimerListed'
    BY <1>2, <1>4, <1>5 DEF TimersInv, TimerListed
  <1> QED  BY <1>1, <1>2, <1>3, <1>4, <1>5, <1>6, TimersTypes, TypesAgain

LEMMA TimerStopTest ==
    ASSUME TimersInv, NEW t \in Task, NEW x \in Timer, HT!StopTest(t, x)
    PROVE  TimersInv'
  <1>1. /\ timer_at[t] = "run" /\ HT!Free(x) /\ HT!Enter(t, "remove", x)
        /\ UNCHANGED <<tick, rt_timer_list, timeout_tick, init_tick, activated, fresh>>
    BY DEF HT!StopTest, HT!At
  <1>2. /\ timer_at' \in [Task -> {"run", "arm", "link", "remove", "unflag"}]
        /\ timer_arg' \in [Task -> Timer \cup {Nil}]
        /\ TimerHands' /\ \A y : HT!Stopping(y)' <=> HT!Stopping(y)
        /\ \A u \in Task : timer_at'[u] = "link" => /\ timer_at[u] = "link"
                                                    /\ timer_arg'[u] = timer_arg[u]
    <2>1. activated' \in SUBSET activated
      BY <1>1
    <2> QED  BY <1>1, <2>1, TimerTaken
  <1>3. TimerListed'
    BY <1>1, <1>2 DEF TimersInv, TimerListed
  <1>4. TimerSpread'
    <2>1. ByUrgency(rt_timer_list, Aheads(timeout_tick, tick))'
      BY <1>1 DEF TimersInv, TimerSpread, Aheads
    <2> QED  BY <1>1, <1>2, <2>1 DEF TimersInv, TimerSpread
  <1> QED  BY <1>1, <1>2, <1>3, <1>4, TimersTypes, TypesAgain

LEMMA TimerIsrStop ==
    ASSUME TimersInv, NEW x \in Timer, HT!IsrStop(x)
    PROVE  TimersInv'
  <1>1. /\ HT!Free(x) /\ HT!Serve(HT!Stopped(HT!Service, x))
        /\ UNCHANGED <<tick, init_tick, timer_at, timer_arg>>
    BY DEF HT!IsrStop
  <1>2. /\ rt_timer_list' = RemoveFirst(rt_timer_list, x) /\ timeout_tick' = timeout_tick
        /\ activated' = activated \ {x}
        /\ fresh' = (fresh \cup (ToSet(rt_timer_list') \ ToSet(rt_timer_list)))
                        \cap ToSet(rt_timer_list')
    <2>1. PICK r : r = HT!Stopped(HT!Service, x)
      OBVIOUS
    <2>2. r.list = RemoveFirst(rt_timer_list, x) /\ r.due = timeout_tick /\ r.active = activated \ {x}
      BY <2>1, TimerFacts DEF HT!Stopped, HT!Service
    <2>3. HT!Serve(r)
      BY <1>1, <2>1
    <2> QED  BY <2>2, <2>3, ServeIs
  <1>3. /\ rt_timer_list' \in Seq(Timer) /\ Distinct(rt_timer_list')
        /\ ToSet(rt_timer_list') = ToSet(rt_timer_list) \ {x}
        /\ fresh' \in SUBSET Timer /\ TimerSpread'
    BY <1>1, <1>2, TimerRemoved
  <1>4. \A y : HT!Stopping(y)' <=> HT!Stopping(y)
    BY <1>1, StoppingIs
  <1>5. TimerListed'
    BY <1>2, <1>3, <1>4 DEF TimersInv, TimerListed
  <1>6. TimerHands'
    BY <1>1, <1>2 DEF TimersInv, TimerHands
  <1> QED  BY <1>1, <1>2, <1>3, <1>5, <1>6, TimersTypes, TypesAgain

LEMMA TimerStopRemove ==
    ASSUME TimersInv, NEW t \in Task, HT!StopRemove(t)
    PROVE  TimersInv'
  <1>1. PICK x : x = timer_arg[t]
    OBVIOUS
  <1>2. PICK r : r = [HT!Service EXCEPT !.list = HT!RemoveFirst(HT!Service.list, x)]
    BY Zenon
  <1>3. /\ timer_at[t] = "remove" /\ HT!Serve(r) /\ HT!Goto(t, "unflag")
        /\ tick' = tick /\ init_tick' = init_tick
    BY <1>1, <1>2 DEF HT!StopRemove, HT!At
  <1>4. r.list = RemoveFirst(rt_timer_list, x) /\ r.due = timeout_tick /\ r.active = activated
    BY <1>2, TimerFacts DEF HT!Service
  <1>5. /\ rt_timer_list' = RemoveFirst(rt_timer_list, x) /\ timeout_tick' = timeout_tick
        /\ activated' = activated
        /\ fresh' = (fresh \cup (ToSet(rt_timer_list') \ ToSet(rt_timer_list)))
                        \cap ToSet(rt_timer_list')
    BY <1>3, <1>4, ServeIs
  <1>6. /\ timer_at' \in [Task -> {"run", "arm", "link", "remove", "unflag"}]
        /\ timer_arg' \in [Task -> Timer \cup {Nil}]
        /\ TimerHands' /\ timer_at'[t] = "unflag" /\ timer_arg'[t] = timer_arg[t]
        /\ \A u \in Task \ {t} : timer_at'[u] = timer_at[u] /\ timer_arg'[u] = timer_arg[u]
        /\ \A u \in Task \ {t} : timer_arg[u] # timer_arg[t]
    BY <1>3, <1>5, TimerMoved
  <1>7. /\ rt_timer_list' \in Seq(Timer) /\ Distinct(rt_timer_list')
        /\ ToSet(rt_timer_list') = ToSet(rt_timer_list) \ {x}
        /\ fresh' \in SUBSET Timer /\ TimerSpread'
    <2>1. \A u \in Task : timer_at'[u] = "link" => /\ timer_at[u] = "link"
                                                   /\ timer_arg'[u] = timer_arg[u]
      BY <1>6
    <2> QED  BY <1>3, <1>5, <2>1, TimerRemoved
  <1>8. \A y : HT!Stopping(y)' <=> HT!Stopping(y) \/ y = x
    BY <1>1, <1>3, <1>6, StoppingIs
  <1>9. TimerListed'
    BY <1>5, <1>7, <1>8 DEF TimersInv, TimerListed
  <1> QED  BY <1>3, <1>5, <1>6, <1>7, <1>9, TimersTypes, TypesAgain

LEMMA TimerStopEnd ==
    ASSUME TimersInv, NEW t \in Task, HT!StopEnd(t)
    PROVE  TimersInv'
  <1>1. PICK x : x = timer_arg[t]
    OBVIOUS
  <1>2. /\ timer_at[t] = "unflag" /\ activated' = activated \ {x} /\ HT!Goto(t, "run")
        /\ UNCHANGED <<tick, rt_timer_list, timeout_tick, init_tick, fresh>>
    BY <1>1 DEF HT!StopEnd, HT!At
  <1>3. /\ timer_at' \in [Task -> {"run", "arm", "link", "remove", "unflag"}]
        /\ timer_arg' \in [Task -> Timer \cup {Nil}]
        /\ TimerHands' /\ timer_at'[t] = "run"
        /\ \A u \in Task \ {t} : timer_at'[u] = timer_at[u] /\ timer_arg'[u] = timer_arg[u]
        /\ \A u \in Task \ {t} : timer_arg[u] # timer_arg[t]
    BY <1>2, TimerMoved
  <1>4. \A y : HT!Stopping(y)' <=> HT!Stopping(y) /\ y # x
    BY <1>1, <1>2, <1>3, StoppingIs
  <1>5. HT!Stopping(x)
    BY <1>1, <1>2, StoppingIs
  <1>6. TimerListed'
    BY <1>2, <1>4, <1>5 DEF TimersInv, TimerListed
  <1>7. TimerSpread'
    <2>1. ByUrgency(rt_timer_list, Aheads(timeout_tick, tick))'
      BY <1>2 DEF TimersInv, TimerSpread, Aheads
    <2>2. \A u \in Task : timer_at'[u] = "link" => timer_at[u] = "link" /\ timer_arg'[u] = timer_arg[u]
      BY <1>3
    <2> QED  BY <1>2, <2>1, <2>2 DEF TimersInv, TimerSpread
  <1>8. activated' \in SUBSET Timer
    BY <1>2, TimersTypes
  <1> QED  BY <1>2, <1>3, <1>6, <1>7, <1>8, TimersTypes, TypesAgain

LEMMA TimerStartArm ==
    ASSUME TimersInv, NEW t \in Task, HT!StartArm(t)
    PROVE  TimersInv'
  <1>1. PICK x : x = timer_arg[t]
    OBVIOUS
  <1>2. PICK v : v = (tick + init_tick[x]) % TickMod
    OBVIOUS
  <1>3. /\ timer_at[t] = "arm" /\ timeout_tick' = [timeout_tick EXCEPT ![x] = v]
        /\ HT!Goto(t, "link")
        /\ UNCHANGED <<tick, rt_timer_list, init_tick, activated, fresh>>
    BY <1>1, <1>2 DEF HT!StartArm, HT!At
  <1>4. x \in Timer /\ x \notin activated /\ x \notin ToSet(rt_timer_list)
    <2>1. x \in Timer
      BY <1>1, <1>3, TimersTypes
    <2>2. x \notin activated
      BY <1>1, <1>3 DEF TimersInv, TimerHands
    <2> QED  BY <2>1, <2>2, TimersTypes
  <1>5. v \in HT!Tick /\ 1 <= Off(v, tick) /\ Off(v, tick) <= Furthest /\ Off(v, tick) \in Int
    <2>1. init_tick[x] \in Nat /\ 1 <= init_tick[x] /\ init_tick[x] <= Furthest /\ tick \in HT!Tick
      BY <1>4, TimersTypes
    <2>2. init_tick[x] <= HT!TickMax \div 2
      BY <2>1, TimerSizes, HalfTick
    <2>3. v \in HT!Tick /\ Off(v, tick) = init_tick[x]
      BY <1>2, <2>1, <2>2, OffAdd
    <2> QED  BY <2>1, <2>3
  <1>6. /\ timer_at' \in [Task -> {"run", "arm", "link", "remove", "unflag"}]
        /\ timer_arg' \in [Task -> Timer \cup {Nil}]
        /\ TimerHands' /\ timer_at'[t] = "link" /\ timer_arg'[t] = x
        /\ \A u \in Task \ {t} : timer_at'[u] = timer_at[u] /\ timer_arg'[u] = timer_arg[u]
        /\ \A u \in Task \ {t} : timer_arg[u] # x
    BY <1>1, <1>3, <1>4, TimerMoved
  <1>7. \A y : HT!Stopping(y)' <=> HT!Stopping(y)
    BY <1>3, <1>6, StoppingIs
  <1>8. TimerListed'
    BY <1>3, <1>7 DEF TimersInv, TimerListed
  <1>9. /\ timeout_tick' \in [Timer -> HT!Tick] /\ timeout_tick'[x] = v
        /\ \A y \in Timer \ {x} : timeout_tick'[y] = timeout_tick[y]
    BY <1>3, <1>4, <1>5, TimersTypes
  <1>10. \A y \in ToSet(rt_timer_list) : y \in Timer \ {x} /\ timeout_tick'[y] = timeout_tick[y]
    BY <1>4, <1>9, TimersTypes
  <1>11. ByUrgency(rt_timer_list, Aheads(timeout_tick, tick))'
    <2>1. PICK a, b : a = Aheads(timeout_tick, tick) /\ b = Aheads(timeout_tick', tick)
      OBVIOUS
    <2>2. \A y \in ToSet(rt_timer_list) : b[y] = a[y]
      BY <1>10, <2>1 DEF Aheads
    <2>3. ByUrgency(rt_timer_list, a)
      BY <2>1 DEF TimersInv, TimerSpread
    <2>4. ByUrgency(rt_timer_list, b)
      BY <2>2, <2>3, TimersTypes, OrderAgrees
    <2>5. Aheads(timeout_tick, tick)' = b
      BY <1>3, <2>1 DEF Aheads
    <2> QED  BY <1>3, <2>4, <2>5
  <1>12. \A y \in ToSet(rt_timer_list') :
            /\ - MaxLag <= Off(timeout_tick'[y], tick') /\ Off(timeout_tick'[y], tick') <= Furthest
            /\ y \notin fresh' => 1 <= Off(timeout_tick'[y], tick')
    BY <1>3, <1>10 DEF TimersInv, TimerSpread
  <1>13. ASSUME NEW u \in Task, timer_at'[u] = "link"
         PROVE  /\ - MaxLag <= Off(timeout_tick'[timer_arg'[u]], tick')
                /\ Off(timeout_tick'[timer_arg'[u]], tick') <= Furthest
    <2>1. CASE u = t
      BY <1>3, <1>5, <1>6, <1>9, <2>1, TimerSizes
    <2>2. CASE u # t
      <3>1. timer_at[u] = "link" /\ timer_arg'[u] = timer_arg[u] /\ timer_arg[u] # x
        BY <1>6, <1>13, <2>2
      <3> QED  BY <1>3, <1>9, <3>1, LinkedTimers
    <2> QED  BY <2>1, <2>2
  <1>14. TimerSpread'
    BY <1>11, <1>12, <1>13 DEF TimerSpread
  <1> QED  BY <1>3, <1>6, <1>8, <1>9, <1>14, TimersTypes, TypesAgain

\* A timer joins the list.
LEMMA TimerAdded ==
    ASSUME TimersInv, NEW x \in Timer, tick' = tick,
           rt_timer_list' \in Seq(Timer), Distinct(rt_timer_list'),
           ToSet(rt_timer_list') = ToSet(rt_timer_list) \cup {x},
           ByUrgency(rt_timer_list', Aheads(timeout_tick', tick)),
           \A y \in Timer \ {x} : timeout_tick'[y] = timeout_tick[y],
           Off(timeout_tick'[x], tick) \in Int,
           - MaxLag <= Off(timeout_tick'[x], tick), Off(timeout_tick'[x], tick) <= Furthest,
           1 <= Off(timeout_tick'[x], tick) \/ x \notin ToSet(rt_timer_list),
           fresh' = (fresh \cup (ToSet(rt_timer_list') \ ToSet(rt_timer_list)))
                        \cap ToSet(rt_timer_list'),
           \A t \in Task : timer_at'[t] = "link" => /\ timer_at[t] = "link" /\ timer_arg[t] # x
                                                    /\ timer_arg'[t] = timer_arg[t]
    PROVE  fresh' \in SUBSET Timer /\ TimerSpread'
  <1>1. fresh \in SUBSET Timer /\ ToSet(rt_timer_list) \in SUBSET Timer
    BY TimersTypes
  <1>2. fresh' \in SUBSET Timer
    BY <1>1
  <1>3. ByUrgency(rt_timer_list, Aheads(timeout_tick, tick))'
    BY DEF Aheads
  <1>4. ASSUME NEW y \in ToSet(rt_timer_list')
        PROVE  /\ - MaxLag <= Off(timeout_tick'[y], tick') /\ Off(timeout_tick'[y], tick') <= Furthest
               /\ y \notin fresh' => 1 <= Off(timeout_tick'[y], tick')
    <2>1. CASE y = x
      <3>1. y \notin fresh' => x \in ToSet(rt_timer_list)
        BY <2>1
      <3> QED  BY <2>1, <3>1
    <2>2. CASE y # x
      <3>1. y \in ToSet(rt_timer_list) /\ timeout_tick'[y] = timeout_tick[y]
            /\ (y \notin fresh' => y \notin fresh)
        BY <1>1, <2>2
      <3> QED  BY <3>1 DEF TimersInv, TimerSpread
    <2> QED  BY <2>1, <2>2
  <1>5. ASSUME NEW t \in Task, timer_at'[t] = "link"
        PROVE  /\ - MaxLag <= Off(timeout_tick'[timer_arg'[t]], tick')
               /\ Off(timeout_tick'[timer_arg'[t]], tick') <= Furthest
    <2>1. timer_at[t] = "link" /\ timer_arg[t] # x /\ timer_arg'[t] = timer_arg[t]
      BY <1>5
    <2> QED  BY <2>1, LinkedTimers
  <1>6. TimerSpread'
    BY <1>3, <1>4, <1>5 DEF TimerSpread
  <1> QED  BY <1>2, <1>6

LEMMA TimerStartLink ==
    ASSUME TimersInv, NEW t \in Task, HT!StartLink(t)
    PROVE  TimersInv'
  <1>1. PICK x : x = timer_arg[t]
    OBVIOUS
  <1>2. PICK w : w = HT!Linked(rt_timer_list, timeout_tick, x)
    OBVIOUS
  <1>3. PICK r : r = [HT!Service EXCEPT !.list = HT!Linked(HT!Service.list, timeout_tick, x),
                                        !.active = HT!Service.active \cup {x}]
    OBVIOUS
  <1>4. /\ timer_at[t] = "link" /\ HT!Serve(r) /\ HT!Goto(t, "run")
        /\ tick' = tick /\ init_tick' = init_tick
    BY <1>1, <1>3 DEF HT!StartLink, HT!At
  <1>5. r.list = w /\ r.due = timeout_tick /\ r.active = activated \cup {x}
    BY <1>2, <1>3 DEF HT!Service
  <1>6. /\ rt_timer_list' = w /\ timeout_tick' = timeout_tick /\ activated' = activated \cup {x}
        /\ fresh' = (fresh \cup (ToSet(w) \ ToSet(rt_timer_list))) \cap ToSet(w)
    BY <1>4, <1>5, ServeIs
  <1>7. /\ x \in Timer /\ x \notin activated /\ x \notin ToSet(rt_timer_list)
        /\ - MaxLag <= Off(timeout_tick[x], tick) /\ Off(timeout_tick[x], tick) <= Furthest
        /\ Off(timeout_tick[x], tick) \in Int
    BY <1>1, <1>4, LinkedTimers
  <1>8. /\ rt_timer_list \in Seq(Timer) /\ Distinct(rt_timer_list)
        /\ timeout_tick \in [Timer -> HT!Tick] /\ tick \in HT!Tick
        /\ \A y \in ToSet(rt_timer_list) : y \in Timer
    BY TimersTypes
  <1>9. \A u \in Task \ {t} : timer_arg[u] # x
    BY <1>1, <1>7, TimerSizes DEF TimersInv, TimerHands
  <1>10. /\ timer_at' \in [Task -> {"run", "arm", "link", "remove", "unflag"}]
         /\ timer_arg' \in [Task -> Timer \cup {Nil}]
         /\ TimerHands' /\ timer_at'[t] = "run"
         /\ \A u \in Task \ {t} : timer_at'[u] = timer_at[u] /\ timer_arg'[u] = timer_arg[u]
    <2>1. \A u \in Task \ {t} : timer_arg[u] \in activated' => timer_arg[u] \in activated
      BY <1>6, <1>9
    <2> QED  BY <1>4, <2>1, TimerMoved
  <1>11. w \in Seq(Timer) /\ ToSet(w) = ToSet(rt_timer_list) \cup {x} /\ Distinct(w)
    BY <1>2, <1>7, <1>8, LinkedList
  <1>12. ByUrgency(w, Aheads(timeout_tick, tick))
    <2>1. \A y \in ToSet(rt_timer_list) :
             /\ Off(timeout_tick[y], tick) - Off(timeout_tick[x], tick) < HT!TickMax \div 2
             /\ Off(timeout_tick[x], tick) - Off(timeout_tick[y], tick) <= HT!TickMax \div 2
      <3> SUFFICES ASSUME NEW y \in ToSet(rt_timer_list)
                   PROVE  /\ Off(timeout_tick[y], tick) - Off(timeout_tick[x], tick)
                                < HT!TickMax \div 2
                          /\ Off(timeout_tick[x], tick) - Off(timeout_tick[y], tick)
                                <= HT!TickMax \div 2
        OBVIOUS
      <3>1. Off(timeout_tick[y], tick) \in Int
        BY <1>8, OffForm
      <3>2. - MaxLag <= Off(timeout_tick[y], tick) /\ Off(timeout_tick[y], tick) <= Furthest
        BY DEF TimersInv, TimerSpread
      <3> QED  BY <1>7, <3>1, <3>2, TimerSizes, HalfTick
    <2>2. ByUrgency(rt_timer_list, Aheads(timeout_tick, tick))
      BY DEF TimersInv, TimerSpread
    <2> QED  BY <1>2, <1>7, <1>8, <2>1, <2>2, LinkedInOrder
  <1>13. \A y : HT!Stopping(y)' <=> HT!Stopping(y)
    BY <1>4, <1>10, StoppingIs
  <1>14. ~ HT!Stopping(x)
    BY <1>4, <1>9, StoppingIs
  <1>15. TimerListed'
    BY <1>6, <1>11, <1>13, <1>14 DEF TimersInv, TimerListed
  <1>16. fresh' \in SUBSET Timer /\ TimerSpread'
    <2>1. \A u \in Task : timer_at'[u] = "link" => /\ timer_at[u] = "link" /\ timer_arg[u] # x
                                                   /\ timer_arg'[u] = timer_arg[u]
      BY <1>9, <1>10
    <2>2. ByUrgency(rt_timer_list', Aheads(timeout_tick', tick))
      BY <1>6, <1>12
    <2> QED  BY <1>4, <1>6, <1>7, <1>11, <2>1, <2>2, TimerAdded
  <1>17. activated' \in SUBSET Timer
    BY <1>6, <1>7, TimersTypes
  <1> QED  BY <1>4, <1>6, <1>8, <1>10, <1>11, <1>15, <1>16, <1>17, TimersTypes, TypesAgain

LEMMA TimerIsrStart ==
    ASSUME TimersInv, NEW x \in Timer, HT!IsrStart(x)
    PROVE  TimersInv'
  <1>1. PICK r : r = HT!Started(HT!Service, x, tick)
    OBVIOUS
  <1>2. /\ HT!Free(x) /\ HT!Serve(r) /\ UNCHANGED <<tick, init_tick, timer_at, timer_arg>>
    BY <1>1 DEF HT!IsrStart
  <1>3. \A u \in Task : timer_arg[u] # x
    BY <1>2 DEF HT!Free
  <1>4. /\ tick \in HT!Tick /\ Distinct(rt_timer_list)
        /\ \A y \in ToSet(rt_timer_list) : y \in Timer
        /\ timeout_tick \in [Timer -> HT!Tick]
    BY TimersTypes
  <1>5. PICK s : s = HT!Service
    OBVIOUS
  <1>6. s \in TimerRecord /\ s.list = rt_timer_list /\ s.due = timeout_tick /\ s.active = activated
    BY <1>5, ServiceIs
  <1>7. ByUrgency(s.list, Aheads(s.due, tick))
    BY <1>6 DEF TimersInv, TimerSpread
  <1>8. ASSUME NEW y \in ToSet(s.list)
        PROVE  - MaxLag - 1 <= Off(s.due[y], tick) /\ Off(s.due[y], tick) <= Furthest
    <2>1. Off(s.due[y], tick) \in Int
      BY <1>4, <1>6, OffForm
    <2>2. - MaxLag <= Off(s.due[y], tick) /\ Off(s.due[y], tick) <= Furthest
      BY <1>6 DEF TimersInv, TimerSpread
    <2> QED  BY <2>1, <2>2, TimerSizes
  <1>9. /\ r \in TimerRecord /\ Distinct(r.list) /\ ToSet(r.list) = ToSet(s.list) \cup {x}
        /\ r.active = s.active \cup {x} /\ \A y \in Timer \ {x} : r.due[y] = s.due[y]
        /\ 1 <= Off(r.due[x], tick) /\ Off(r.due[x], tick) <= Furthest
        /\ ByUrgency(r.list, Aheads(r.due, tick))
    <2>1. Distinct(s.list)
      BY <1>4, <1>6
    <2>2. r = HT!Started(s, x, tick)
      BY <1>1, <1>5
    <2>3. s \in TimerRecord
      BY <1>6
    <2>4. /\ HT!Started(s, x, tick) \in TimerRecord
          /\ Distinct(HT!Started(s, x, tick).list)
          /\ ToSet(HT!Started(s, x, tick).list) = ToSet(s.list) \cup {x}
          /\ HT!Started(s, x, tick).active = s.active \cup {x}
          /\ \A y \in Timer \ {x} : HT!Started(s, x, tick).due[y] = s.due[y]
          /\ 1 <= Off(HT!Started(s, x, tick).due[x], tick)
          /\ Off(HT!Started(s, x, tick).due[x], tick) <= Furthest
          /\ ByUrgency(HT!Started(s, x, tick).list, Aheads(HT!Started(s, x, tick).due, tick))
      BY <1>4, <1>7, <1>8, <2>1, <2>3, StartedList, Zenon
    <2> QED  BY <2>2, <2>4
  <1>10. /\ rt_timer_list' = r.list /\ timeout_tick' = r.due /\ activated' = r.active
         /\ fresh' = (fresh \cup (ToSet(r.list) \ ToSet(rt_timer_list))) \cap ToSet(r.list)
    BY <1>2, ServeIs
  <1>11. /\ rt_timer_list' \in Seq(Timer) /\ timeout_tick' \in [Timer -> HT!Tick]
         /\ activated' \in SUBSET Timer
    BY <1>9, <1>10, RecordFields
  <1>12. \A y : HT!Stopping(y)' <=> HT!Stopping(y)
    BY <1>2, StoppingIs
  <1>13. ~ HT!Stopping(x)
    BY <1>3, StoppingIs
  <1>14. TimerListed'
    BY <1>6, <1>9, <1>10, <1>12, <1>13 DEF TimersInv, TimerListed
  <1>15. TimerHands'
    BY <1>2, <1>3, <1>6, <1>9, <1>10 DEF TimersInv, TimerHands
  <1>16. fresh' \in SUBSET Timer /\ TimerSpread'
    <2>1. Off(timeout_tick'[x], tick) \in Int
      BY <1>4, <1>11, OffForm
    <2>2. - MaxLag <= Off(timeout_tick'[x], tick)
      BY <1>9, <1>10, <2>1, TimerSizes
    <2>3. \A u \in Task : timer_at'[u] = "link" => /\ timer_at[u] = "link" /\ timer_arg[u] # x
                                                   /\ timer_arg'[u] = timer_arg[u]
      BY <1>2, <1>3
    <2> QED  BY <1>2, <1>6, <1>9, <1>10, <1>11, <2>1, <2>2, <2>3, TimerAdded
  <1> QED  BY <1>2, <1>11, <1>9, <1>10, <1>14, <1>15, <1>16, TimersTypes, TypesAgain

LEMMA TimerTick ==
    ASSUME TimersInv, HT!TickIncrease
    PROVE  TimersInv'
  <1>1. PICK off \in SUBSET Timer :
           /\ rt_timer_list' = HT!Checked(HT!Service, tick', off).list
           /\ timeout_tick' = HT!Checked(HT!Service, tick', off).due
           /\ activated' = HT!Checked(HT!Service, tick', off).active
    BY DEF HT!TickIncrease
  <1>2. /\ \A v \in HT!Computed : (tick - v) % TickMod \notin MaxLag .. HT!TickMax \div 2
        /\ tick' = (tick + 1) % TickMod /\ fresh' = {}
        /\ UNCHANGED <<init_tick, timer_at, timer_arg>>
    BY DEF HT!TickIncrease
  <1>3. PICK s : s = HT!Service
    OBVIOUS
  <1>4. s \in TimerRecord /\ s.list = rt_timer_list /\ s.due = timeout_tick /\ s.active = activated
    BY <1>3, ServiceIs
  <1>5. /\ tick \in HT!Tick /\ rt_timer_list \in Seq(Timer) /\ Distinct(rt_timer_list)
        /\ \A y \in ToSet(rt_timer_list) : y \in Timer
        /\ timeout_tick \in [Timer -> HT!Tick] /\ activated \in SUBSET Timer
    BY TimersTypes
  <1>6. /\ tick' \in HT!Tick
        /\ \A v \in HT!Tick : Off(v, tick) >= - MaxLag => Off(v, tick') = Off(v, tick) - 1
    <2>1. Off(tick, tick) = 0 /\ Off(tick, tick) > - (HT!TickMax \div 2)
      BY <1>5, OffSelf, HalfTick
    <2>2. tick' \in HT!Tick
      BY <1>2, <1>5, <2>1, OffNext
    <2>3. ASSUME NEW v \in HT!Tick, Off(v, tick) >= - MaxLag
          PROVE  Off(v, tick') = Off(v, tick) - 1
      <3>1. Off(v, tick) > - (HT!TickMax \div 2)
        BY <1>5, <2>3, OffForm, TimerSizes, HalfTick
      <3> QED  BY <1>2, <1>5, <3>1, OffNext
    <2> QED  BY <2>2, <2>3
  <1>7. PICK now \in HT!Tick : now = tick'
    BY <1>6
  <1>8. \A y \in ToSet(s.list) : /\ Off(s.due[y], now) = Off(s.due[y], tick) - 1
                                 /\ Off(s.due[y], tick) \in Int
                                 /\ - MaxLag <= Off(s.due[y], tick)
                                 /\ Off(s.due[y], tick) <= Furthest
    <2> SUFFICES ASSUME NEW y \in ToSet(s.list)
                 PROVE  /\ Off(s.due[y], now) = Off(s.due[y], tick) - 1
                        /\ Off(s.due[y], tick) \in Int /\ - MaxLag <= Off(s.due[y], tick)
                        /\ Off(s.due[y], tick) <= Furthest
      OBVIOUS
    <2>1. - MaxLag <= Off(s.due[y], tick) /\ Off(s.due[y], tick) <= Furthest
      BY <1>4 DEF TimersInv, TimerSpread
    <2>2. s.due[y] \in HT!Tick /\ Off(s.due[y], tick) \in Int
      BY <1>4, <1>5, OffForm
    <2>3. Off(s.due[y], tick) >= - MaxLag
      BY <2>1, <2>2, TimerSizes
    <2> QED  BY <1>6, <1>7, <2>1, <2>2, <2>3
  <1>9. PICK X : X = {y \in Timer : HT!Stopping(y)}
    BY Zenon
  <1>10. Rounding(s, now, X)
    <2>1. Distinct(s.list)
      BY <1>4, <1>5
    <2>2. ByUrgency(s.list, Aheads(s.due, now))
      <3>1. ByUrgency(s.list, Aheads(s.due, tick))
        BY <1>4 DEF TimersInv, TimerSpread
      <3>2. \A i \in 1 .. Len(s.list) : s.list[i] \in ToSet(s.list) /\ s.list[i] \in Timer
        BY <1>4, <1>5, LenProperties DEF ToSet
      <3>3. \A i \in 1 .. Len(s.list) :
               /\ Aheads(s.due, now)[s.list[i]] = Aheads(s.due, tick)[s.list[i]] - 1
               /\ Aheads(s.due, tick)[s.list[i]] \in Int
        BY <1>8, <3>2 DEF Aheads
      <3> QED  BY <3>1, <3>3 DEF ByUrgency
    <2>3. \A y \in Timer : y \in ToSet(s.list) <=> y \in s.active /\ y \notin X
      BY <1>4, <1>9 DEF TimersInv, TimerListed
    <2>4. \A y \in ToSet(s.list) : - MaxLag - 1 <= Off(s.due[y], now) /\ Off(s.due[y], now) <= Furthest
      BY <1>8, TimerSizes
    <2> QED  BY <1>4, <2>1, <2>2, <2>3, <2>4 DEF Rounding
  <1>11. PICK q : q = HT!Checked(s, now, off)
    OBVIOUS
  <1>12. Rounding(q, now, X) /\ Late(q, now) = {}
    BY <1>10, <1>11, CheckedRounding
  <1>13. rt_timer_list' = q.list /\ timeout_tick' = q.due /\ activated' = q.active
    BY <1>1, <1>3, <1>7, <1>11
  <1>14. /\ rt_timer_list' \in Seq(Timer) /\ Distinct(rt_timer_list')
         /\ timeout_tick' \in [Timer -> HT!Tick] /\ activated' \in SUBSET Timer
         /\ activated' \subseteq activated
         /\ \A y \in Timer \ activated : timeout_tick'[y] = timeout_tick[y]
         /\ \A y \in ToSet(rt_timer_list') : y \in Timer
    <2>1. q \in TimerRecord
      BY <1>12 DEF Rounding
    <2> QED  BY <1>12, <1>13, <2>1, RecordFields DEF Rounding
  <1>15. \A y : HT!Stopping(y)' <=> HT!Stopping(y)
    BY <1>2, StoppingIs
  <1>16. TimerListed'
    BY <1>9, <1>12, <1>13, <1>14, <1>15 DEF Rounding, TimerListed
  <1>17. TimerHands'
    BY <1>2, <1>14 DEF TimersInv, TimerHands
  <1>18. TimerSpread'
    <2>1. ByUrgency(rt_timer_list, Aheads(timeout_tick, tick))'
      <3>1. ByUrgency(q.list, Aheads(q.due, now))
        BY <1>12 DEF Rounding
      <3>2. Aheads(timeout_tick, tick)' = Aheads(q.due, now)
        BY <1>7, <1>13 DEF Aheads
      <3> QED  BY <1>13, <3>1, <3>2
    <2>2. ASSUME NEW y \in ToSet(rt_timer_list')
          PROVE  /\ - MaxLag <= Off(timeout_tick'[y], tick')
                 /\ Off(timeout_tick'[y], tick') <= Furthest
                 /\ 1 <= Off(timeout_tick'[y], tick')
      <3>1. Off(timeout_tick'[y], tick') \in Int
        BY <1>6, <1>14, OffForm
      <3>2. ~ (Off(timeout_tick'[y], tick') <= 0)
        BY <1>7, <1>12, <1>13 DEF Late
      <3>3. Off(timeout_tick'[y], tick') <= Furthest
        BY <1>7, <1>12, <1>13 DEF Rounding
      <3> QED  BY <3>1, <3>2, <3>3, TimerSizes
    <2>3. ASSUME NEW t \in Task, timer_at'[t] = "link"
          PROVE  /\ - MaxLag <= Off(timeout_tick'[timer_arg'[t]], tick')
                 /\ Off(timeout_tick'[timer_arg'[t]], tick') <= Furthest
      <3>1. PICK x : x = timer_arg[t]
        OBVIOUS
      <3>2. timer_at[t] = "link" /\ timer_arg'[t] = x
        BY <1>2, <2>3, <3>1
      <3>3. /\ x \in Timer /\ x \notin activated
            /\ - MaxLag <= Off(timeout_tick[x], tick) /\ Off(timeout_tick[x], tick) <= Furthest
            /\ Off(timeout_tick[x], tick) \in Int
        BY <3>1, <3>2, LinkedTimers
      <3>4. timeout_tick'[x] = timeout_tick[x] /\ timeout_tick[x] \in HT!Tick
        BY <1>5, <1>14, <3>3
      <3>5. timeout_tick[x] \in HT!Computed
        BY <3>1, <3>2 DEF HT!Computed, HT!At
      <3>6. Off(timeout_tick[x], tick) > - MaxLag
        <4>1. - (HT!TickMax \div 2) <= Off(timeout_tick[x], tick)
          BY <3>3, TimerSizes, HalfTick
        <4> QED  BY <1>2, <1>5, <3>4, <3>5, <4>1, OffLag
      <3>7. Off(timeout_tick[x], tick') = Off(timeout_tick[x], tick) - 1
        BY <1>6, <3>3, <3>4, <3>6, TimerSizes
      <3> QED  BY <3>2, <3>3, <3>4, <3>6, <3>7, TimerSizes
    <2> QED  BY <2>1, <2>2, <2>3 DEF TimerSpread
  <1>19. fresh' \in SUBSET Timer
    BY <1>2
  <1> QED  BY <1>2, <1>6, <1>14, <1>16, <1>17, <1>18, <1>19, TimersTypes, TypesAgain

LEMMA TimersKeeps ==
    ASSUME TimersInv, [HT!HardTimerNext]_HT!timerVars
    PROVE  TimersInv'
  <1>1. CASE UNCHANGED HT!timerVars
    BY <1>1 DEF HT!timerVars, TimersInv, HT!TypeOK, TimerHands, TimerListed, TimerSpread,
                HT!Stopping, HT!At, Aheads
  <1>2. ASSUME NEW t \in Task, NEW x \in Timer, HT!StartBegin(t, x) PROVE TimersInv'
    BY <1>2, TimerStartBegin
  <1>3. ASSUME NEW t \in Task, NEW x \in Timer, HT!StopTest(t, x) PROVE TimersInv'
    BY <1>3, TimerStopTest
  <1>4. ASSUME NEW t \in Task, NEW x \in Timer, NEW d \in Time, HT!SetTime(t, x, d)
        PROVE  TimersInv'
    BY <1>4, TimerSetTime
  <1>5. ASSUME NEW t \in Task, HT!StartArm(t) PROVE TimersInv'
    BY <1>5, TimerStartArm
  <1>6. ASSUME NEW t \in Task, HT!StartLink(t) PROVE TimersInv'
    BY <1>6, TimerStartLink
  <1>7. ASSUME NEW t \in Task, HT!StopRemove(t) PROVE TimersInv'
    BY <1>7, TimerStopRemove
  <1>8. ASSUME NEW t \in Task, HT!StopEnd(t) PROVE TimersInv'
    BY <1>8, TimerStopEnd
  <1>9. ASSUME NEW x \in Timer, HT!IsrStart(x) \/ HT!IsrStop(x) PROVE TimersInv'
    BY <1>9, TimerIsrStart, TimerIsrStop
  <1>10. CASE HT!TickIncrease
    BY <1>10, TimerTick
  <1> QED  BY <1>1, <1>2, <1>3, <1>4, <1>5, <1>6, <1>7, <1>8, <1>9, <1>10 DEF HT!HardTimerNext

-----------------------------------------------------------------------------
(* The operators of the heap's instance *)

LEMMA HeapSameCardinality ==
    ASSUME NEW A
    PROVE  MH!Cardinality(A) = Cardinality(A)
  BY DEF MH!Cardinality, Cardinality

LEMMA HeapSameLists ==
    ASSUME NEW s
    PROVE  MH!ToSet(s) = ToSet(s) /\ \A e : MH!RemoveFirst(s, e) = RemoveFirst(s, e)
  <1>1. \A e : MH!RemoveFirst(s, e) = RemoveFirst(s, e)
    BY Zenon DEF MH!RemoveFirst, RemoveFirst, MH!RemoveAt, RemoveAt, MH!SelectInSeq,
                 SelectInSeq, MH!Min, Min
  <1>2. MH!ToSet(s) = ToSet(s)
    BY DEF MH!ToSet, ToSet
  <1> QED  BY <1>1, <1>2

\* The list of a set's elements is as long as the set is large.
LEMMA DistinctCount ==
    ASSUME NEW S, NEW s \in Seq(S), Distinct(s)
    PROVE  Len(s) = Cardinality(ToSet(s))
  <1> DEFINE n == Len(s)
             A == ToSet(s)
  <1>1. n \in Nat /\ DOMAIN s = 1 .. n
    BY LenProperties
  <1>2. s \in [1 .. n -> A]
    BY <1>1 DEF ToSet
  <1>3. s \in Surjection(1 .. n, A)
    BY <1>1, <1>2 DEF Surjection, ToSet
  <1>4. s \in Injection(1 .. n, A)
    BY <1>1, <1>2 DEF Injection, IsInjective, Distinct
  <1>5. IsFiniteSet(1 .. n) /\ Cardinality(1 .. n) = IF 1 > n THEN 0 ELSE n - 1 + 1
    BY <1>1, FS_Interval
  <1>6. Cardinality(1 .. n) = n
    BY <1>1, <1>5
  <1> HIDE DEF n, A
  <1>7. Cardinality(A) = Cardinality(1 .. n)
    BY <1>3, <1>4, <1>5, FS_Surjection
  <1> QED  BY <1>6, <1>7 DEF n, A


-----------------------------------------------------------------------------
(* The heap, for any pool, headers, requests and tasks *)

\* The sum is one function of the bound, as the event's scan is.
SumStep(v, sum, i) == IF i = 0 THEN 0 ELSE sum[i - 1] + v[i - 1]

Sums(v, n) == \E f : f = [i \in 0 .. n |-> SumStep(v, f, i)]

LEMMA SumsExist ==
    ASSUME NEW v, NEW N \in Nat
    PROVE  Sums(v, N)
  <1> USE DEF Sums
  <1> DEFINE Bad == {m \in Nat : ~ \E f : f = [i \in 0 .. m |-> SumStep(v, f, i)]}
  <1>1. SUFFICES ASSUME Bad # {} PROVE FALSE
    OBVIOUS
  <1>2. PICK m \in Bad : \A j \in Bad : m <= j
    BY <1>1, LeastNat, Zenon
  <1>3. CASE m = 0
    <2>1. \A g, h : SumStep(v, g, 0) = SumStep(v, h, 0)
      BY DEF SumStep
    <2> DEFINE f == [i \in 0 .. 0 |-> SumStep(v, << >>, i)]
    <2>2. f = [i \in 0 .. 0 |-> SumStep(v, f, i)]
      BY <2>1
    <2> QED  BY <1>2, <1>3, <2>2
  <1>4. CASE m # 0
    <2>1. m - 1 \in Nat /\ m - 1 \notin Bad
      BY <1>2, <1>4
    <2>2. PICK f : f = [i \in 0 .. m - 1 |-> SumStep(v, f, i)]
      BY <2>1
    <2> DEFINE g == [i \in 0 .. m |-> IF i = m THEN SumStep(v, f, i) ELSE f[i]]
    <2>3. ASSUME NEW i \in 0 .. m PROVE SumStep(v, g, i) = SumStep(v, f, i)
      <3>1. i # 0 => g[i - 1] = f[i - 1]
        BY <2>3
      <3> HIDE DEF g
      <3> QED  BY <3>1 DEF SumStep
    <2>4. \A i \in 0 .. m - 1 : f[i] = SumStep(v, f, i)
      BY <2>2
    <2>5. \A i \in 0 .. m : g[i] = SumStep(v, g, i)
      BY <2>3, <2>4
    <2>6. g = [i \in 0 .. m |-> SumStep(v, g, i)]
      BY <2>5
    <2> QED  BY <1>2, <2>6, Zenon
  <1> QED  BY <1>3, <1>4

LEMMA TotalIs ==
    ASSUME NEW v, NEW N \in Nat
    PROVE  \E f : /\ \A i \in 0 .. N : f[i] = SumStep(v, f, i)
                  /\ MH!Total(v, N) = f[N]
  <1> DEFINE P(f) == f = [i \in 0 .. N |-> SumStep(v, f, i)]
             g == CHOOSE f : P(f)
  <1>1. MH!Total(v, N) = (CHOOSE f : f = [i \in 0 .. N |-> IF i = 0 THEN 0 ELSE f[i - 1] + v[i - 1]])[N]
    BY DEF MH!Total
  <1>2. MH!Total(v, N) = g[N]
    BY <1>1 DEF SumStep
  <1>3. \E f : P(f)
    BY SumsExist, Zenon DEF Sums
  <1> HIDE DEF P
  <1>4. P(g)
    BY <1>3
  <1> HIDE DEF g
  <1>5. \A i \in 0 .. N : g[i] = SumStep(v, g, i)
    BY <1>4 DEF P
  <1> QED  BY <1>2, <1>5

LEMMA TotalZero ==
    ASSUME NEW v, NEW N \in Nat, \A i \in 0 .. N - 1 : v[i] = 0
    PROVE  MH!Total(v, N) = 0
  <1>1. PICK f : (\A i \in 0 .. N : f[i] = SumStep(v, f, i)) /\ MH!Total(v, N) = f[N]
    BY TotalIs
  <1> DEFINE Bad == {i \in 0 .. N : f[i] # 0}
  <1>2. SUFFICES ASSUME Bad # {} PROVE FALSE
    BY <1>1
  <1>3. PICK i \in Bad : \A j \in Bad : i <= j
    <2>1. Bad \in SUBSET Nat
      OBVIOUS
    <2> QED  BY <1>2, <2>1, LeastNat, Zenon
  <1>4. i # 0
    BY <1>1, <1>3 DEF SumStep
  <1>5. f[i - 1] = 0 /\ v[i - 1] = 0
    BY <1>3, <1>4
  <1> QED  BY <1>1, <1>3, <1>4, <1>5 DEF SumStep

\* A sum of which one part changes.
LEMMA TotalChange ==
    ASSUME NEW N \in Nat, NEW v, NEW w, NEW p \in 0 .. N - 1,
           \A i \in 0 .. N - 1 : v[i] \in Int /\ w[i] \in Int,
           \A i \in 0 .. N - 1 : i # p => w[i] = v[i]
    PROVE  /\ MH!Total(v, N) \in Int
           /\ MH!Total(w, N) = MH!Total(v, N) + (w[p] - v[p])
  <1>1. PICK f : (\A i \in 0 .. N : f[i] = SumStep(v, f, i)) /\ MH!Total(v, N) = f[N]
    BY TotalIs
  <1>2. PICK g : (\A i \in 0 .. N : g[i] = SumStep(w, g, i)) /\ MH!Total(w, N) = g[N]
    BY TotalIs
  <1> DEFINE Good(i) == f[i] \in Int /\ g[i] = f[i] + (IF p < i THEN w[p] - v[p] ELSE 0)
             Bad == {i \in 0 .. N : ~ Good(i)}
  <1>3. Good(N)
    <2> HIDE DEF Good
    <2>1. SUFFICES ASSUME Bad # {} PROVE FALSE
      OBVIOUS
    <2>2. PICK i \in Bad : \A j \in Bad : i <= j
      <3>1. Bad \in SUBSET Nat
        OBVIOUS
      <3> QED  BY <2>1, <3>1, LeastNat, Zenon
    <2>3. i # 0
      BY <1>1, <1>2, <2>2 DEF SumStep, Good
    <2>4. i - 1 \in 0 .. N - 1 /\ i \in 0 .. N
      BY <2>2, <2>3
    <2>5. Good(i - 1)
      BY <2>2, <2>4
    <2>6. f[i] = f[i - 1] + v[i - 1] /\ g[i] = g[i - 1] + w[i - 1]
      BY <1>1, <1>2, <2>3, <2>4 DEF SumStep
    <2>7. Good(i)
      <3>1. CASE p = i - 1
        BY <2>4, <2>5, <2>6, <3>1 DEF Good
      <3>2. CASE p # i - 1
        BY <2>4, <2>5, <2>6, <3>2 DEF Good
      <3> QED  BY <3>1, <3>2
    <2> QED  BY <2>2, <2>7
  <1> QED  BY <1>1, <1>2, <1>3

LEMMA TotalChanges ==
    ASSUME NEW N \in Nat, NEW v, NEW w, NEW p \in 0 .. N - 1, NEW q \in 0 .. N - 1, p # q,
           \A i \in 0 .. N - 1 : v[i] \in Int /\ w[i] \in Int,
           \A i \in 0 .. N - 1 : i # p /\ i # q => w[i] = v[i]
    PROVE  MH!Total(w, N) = MH!Total(v, N) + (w[p] - v[p]) + (w[q] - v[q])
  <1> DEFINE u == [i \in 0 .. N - 1 |-> IF i = p THEN w[i] ELSE v[i]]
  <1>1. /\ \A i \in 0 .. N - 1 : u[i] \in Int
        /\ \A i \in 0 .. N - 1 : i # p => u[i] = v[i]
        /\ \A i \in 0 .. N - 1 : i # q => w[i] = u[i]
        /\ u[p] = w[p] /\ u[q] = v[q]
    OBVIOUS
  <1> HIDE DEF u
  <1>2. MH!Total(v, N) \in Int /\ MH!Total(u, N) = MH!Total(v, N) + (u[p] - v[p])
    BY <1>1, TotalChange, Zenon
  <1>3. MH!Total(w, N) = MH!Total(u, N) + (w[q] - u[q])
    BY <1>1, TotalChange, Zenon
  <1> QED  BY <1>1, <1>2, <1>3

LEMMA TotalThree ==
    ASSUME NEW N \in Nat, NEW v, NEW w,
           NEW p \in 0 .. N - 1, NEW q \in 0 .. N - 1, NEW r \in 0 .. N - 1,
           p # q, p # r, q # r,
           \A i \in 0 .. N - 1 : v[i] \in Int /\ w[i] \in Int,
           \A i \in 0 .. N - 1 : i # p /\ i # q /\ i # r => w[i] = v[i]
    PROVE  MH!Total(w, N) = MH!Total(v, N) + (w[p] - v[p]) + (w[q] - v[q]) + (w[r] - v[r])
  <1> DEFINE u == [i \in 0 .. N - 1 |-> IF i = p THEN w[i] ELSE v[i]]
  <1>1. /\ \A i \in 0 .. N - 1 : u[i] \in Int
        /\ \A i \in 0 .. N - 1 : i # p => u[i] = v[i]
        /\ \A i \in 0 .. N - 1 : i # q /\ i # r => w[i] = u[i]
        /\ u[p] = w[p] /\ u[q] = v[q] /\ u[r] = v[r]
    OBVIOUS
  <1> HIDE DEF u
  <1>2. MH!Total(v, N) \in Int /\ MH!Total(u, N) = MH!Total(v, N) + (u[p] - v[p])
    BY <1>1, TotalChange, Zenon
  <1>3. MH!Total(w, N) = MH!Total(u, N) + (w[q] - u[q]) + (w[r] - u[r])
    BY <1>1, TotalChanges, ZenonT(40)
  <1> QED  BY <1>1, <1>2, <1>3

LEMMA TotalInt ==
    ASSUME NEW N \in Nat, NEW v, \A i \in 0 .. N - 1 : v[i] \in Int
    PROVE  MH!Total(v, N) \in Int
  <1>1. CASE N = 0
    <2>1. \A i \in 0 .. N - 1 : v[i] = 0
      BY <1>1
    <2> QED  BY <2>1, TotalZero
  <1>2. CASE N # 0
    <2>1. 0 \in 0 .. N - 1
      BY <1>2
    <2> QED  BY <2>1, TotalChange
  <1> QED  BY <1>1, <1>2


-----------------------------------------------------------------------------
(* The ring of blocks, as two functions: the next and the previous header *)

Address == 0 .. MH!Tailer

NextOf(b) == [h \in DOMAIN b |-> b[h].next]

PrevOf(b) == [h \in DOMAIN b |-> b[h].prev]

\* Next is the next header in the order of addresses, and after the last the
\* first; each block has room for its header.
RingOK(D, nx, pv) ==
    /\ {0, MH!Tailer} \subseteq D /\ D \subseteq Address
    /\ nx \in [D -> D] /\ pv \in [D -> D]
    /\ nx[MH!Tailer] = 0
    /\ \A h \in D : pv[nx[h]] = h /\ nx[pv[h]] = h
    /\ \A h \in D : h # MH!Tailer => h + Header <= nx[h]
    /\ \A h, x \in D : h # MH!Tailer => x <= h \/ nx[h] <= x

LEMMA HeapSizes ==
    ASSUME MH!MemHeapAssumption
    PROVE  /\ Header \in Nat /\ Header > 0 /\ Mini \in Nat /\ Mini > 0
           /\ PoolSize \in Nat /\ MH!Tailer \in Nat /\ MH!Tailer = PoolSize - Header
           /\ MH!Tailer > Header
           /\ \A n \in Request : n \in Nat /\ n >= Mini
  BY DEF MH!MemHeapAssumption, MH!Tailer

\* The block behind h joins it.
LEMMA Joined ==
    ASSUME MH!MemHeapAssumption, NEW D, NEW nx, NEW pv, RingOK(D, nx, pv),
           NEW h \in D, h # MH!Tailer, nx[h] # MH!Tailer,
           NEW n, NEW p,
           n = [x \in D \ {nx[h]} |-> IF x = h THEN nx[nx[h]] ELSE nx[x]],
           p = [x \in D \ {nx[h]} |-> IF x = nx[nx[h]] THEN h ELSE pv[x]]
    PROVE  /\ RingOK(D \ {nx[h]}, n, p)
           /\ n[h] = nx[nx[h]] /\ h < nx[h] /\ nx[h] < nx[nx[h]] /\ nx[nx[h]] \in D
  <1> DEFINE r == nx[h]
             e == nx[r]
             E == D \ {r}
             T == MH!Tailer
  <1>0. Header \in Nat /\ Header > 0 /\ T \in Nat
    BY HeapSizes
  <1>a. r \in D /\ e \in D /\ D \subseteq 0 .. T /\ 0 \in D /\ T \in D
    BY Zenon DEF RingOK, Address
  <1>b. h + Header <= r /\ r + Header <= e
    BY <1>a, Zenon DEF RingOK
  <1> USE <1>0
  <1>1. /\ r \in D /\ e \in D /\ D \subseteq 0 .. T /\ h \in Nat /\ r \in Nat /\ e \in Nat
        /\ h + Header <= r /\ r + Header <= e /\ 0 \in D /\ T \in D
    <2> HIDE DEF T, r, e
    <2> QED  BY <1>a, <1>b
  <1>2. h < r /\ r < e /\ h # e /\ r # 0 /\ h \in E /\ e \in E /\ 0 \in E /\ T \in E
    BY <1>1
  <1>3. \A x \in D : nx[x] \in D /\ pv[x] \in D /\ pv[nx[x]] = x /\ nx[pv[x]] = x
    BY DEF RingOK
  <1>4. n = [x \in E |-> IF x = h THEN e ELSE nx[x]] /\ p = [x \in E |-> IF x = e THEN h ELSE pv[x]]
    OBVIOUS
  <1>5. /\ \A x, y \in D : x # T => y <= x \/ nx[x] <= y
        /\ \A x \in D : x # T => x + Header <= nx[x]
        /\ nx[T] = 0
    BY DEF RingOK
  <1> HIDE DEF r, e, E, T
  <1>6. nx[h] = r /\ nx[r] = e /\ \A x : x \in E <=> x \in D /\ x # r
    BY DEF r, e, E
  <1>7. \A x \in E : x # h => nx[x] # r /\ (x # e => pv[x] # r)
    <2> SUFFICES ASSUME NEW x \in E, x # h PROVE nx[x] # r /\ (x # e => pv[x] # r)
      OBVIOUS
    <2>1. x \in D /\ pv[nx[x]] = x /\ nx[pv[x]] = x /\ pv[r] = h
      BY <1>1, <1>3, <1>6, Zenon
    <2> QED  BY <1>6, <2>1
  <1>8. n \in [E -> E] /\ p \in [E -> E]
    BY <1>2, <1>3, <1>4, <1>6, <1>7
  <1>9. ASSUME NEW x \in E PROVE p[n[x]] = x /\ n[p[x]] = x
    <2>1. CASE x = h
      <3>1. n[x] = e /\ p[e] = h
        BY <1>2, <1>4, <2>1
      <3>2. p[x] = pv[h] /\ pv[h] \in E /\ pv[h] # h /\ nx[pv[h]] = h
        BY <1>1, <1>2, <1>3, <1>4, <1>6, <1>7, <1>9, <2>1
      <3> QED  BY <1>4, <2>1, <3>1, <3>2
    <2>2. CASE x # h /\ x = e
      <3>1. pv[e] = r /\ pv[nx[e]] = e /\ nx[e] \in D /\ nx[e] # r /\ r # e
        BY <1>1, <1>2, <1>3, <1>6, <1>7, <2>2
      <3>2. nx[e] \in E /\ nx[e] # e
        BY <1>6, <3>1
      <3>3. n[e] = nx[e] /\ p[nx[e]] = e /\ p[e] = h /\ n[h] = e
        BY <1>2, <1>4, <2>2, <3>1, <3>2
      <3> QED  BY <2>2, <3>3
    <2>3. CASE x # h /\ x # e
      <3>1. /\ x \in D /\ nx[x] \in D /\ pv[x] \in D /\ pv[nx[x]] = x /\ nx[pv[x]] = x
            /\ nx[x] # r /\ pv[x] # r /\ pv[e] = r /\ x # r
        BY <1>1, <1>3, <1>6, <1>7, <1>9, <2>3, Zenon
      <3>2. nx[x] \in E /\ pv[x] \in E /\ nx[x] # e /\ pv[x] # h
        BY <1>6, <3>1
      <3>3. n[x] = nx[x] /\ p[nx[x]] = pv[nx[x]] /\ p[x] = pv[x] /\ n[pv[x]] = nx[pv[x]]
        BY <1>4, <1>9, <2>3, <3>2
      <3> QED  BY <3>1, <3>3
    <2> QED  BY <2>1, <2>2, <2>3
  <1>10. n[T] = 0
    BY <1>2, <1>4, <1>5, h # MH!Tailer DEF T
  <1>11. ASSUME NEW x \in E, x # T
         PROVE  x + Header <= n[x] /\ \A y \in E : y <= x \/ n[x] <= y
    <2>1. CASE x = h
      <3>1. \A y \in E : y <= h \/ e <= y
        <4> SUFFICES ASSUME NEW y \in E PROVE y <= h \/ e <= y
          OBVIOUS
        <4>1. y <= h \/ r <= y
          BY <1>5, <1>6, <1>11, <2>1
        <4>2. r # T
          BY <1>6 DEF T
        <4>3. y <= r \/ e <= y
          BY <1>1, <1>5, <1>6, <4>2, Zenon
        <4>4. y \in D /\ y # r
          BY <1>6
        <4>5. y \in Nat
          BY <1>1, <4>4
        <4> QED  BY <1>1, <4>1, <4>3, <4>4, <4>5
      <3> QED  BY <1>1, <1>4, <2>1, <3>1
    <2>2. CASE x # h
      BY <1>4, <1>5, <1>6, <1>11, <2>2
    <2> QED  BY <2>1, <2>2
  <1>12. {0, T} \subseteq E /\ E \subseteq 0 .. T
    BY <1>1, <1>2, <1>6
  <1>13. RingOK(E, n, p)
    <2>1. \A x \in E : p[n[x]] = x /\ n[p[x]] = x
      BY <1>9, Zenon
    <2>2. \A x \in E : x # T => x + Header <= n[x]
      BY <1>11, Zenon
    <2>3. \A x, y \in E : x # T => y <= x \/ n[x] <= y
      BY <1>11, Zenon
    <2> QED  BY <1>8, <1>10, <1>12, <2>1, <2>2, <2>3, Zenon DEF RingOK, T, Address
  <1>14. n[h] = e
    BY <1>2, <1>4
  <1> QED  BY <1>1, <1>2, <1>13, <1>14 DEF r, e, E

\* A block is split at a.
LEMMA Parted ==
    ASSUME MH!MemHeapAssumption, NEW D, NEW nx, NEW pv, RingOK(D, nx, pv),
           NEW h \in D, h # MH!Tailer, NEW a \in Int, h + Header <= a, a + Header <= nx[h],
           NEW n, NEW p,
           n = [x \in D \cup {a} |-> IF x = a THEN nx[h] ELSE IF x = h THEN a ELSE nx[x]],
           p = [x \in D \cup {a} |-> IF x = a THEN h ELSE IF x = nx[h] THEN a ELSE pv[x]]
    PROVE  RingOK(D \cup {a}, n, p) /\ a \notin D /\ n[h] = a /\ n[a] = nx[h]
  <1> DEFINE e == nx[h]
             E == D \cup {a}
             T == MH!Tailer
  <1>0. Header \in Nat /\ Header > 0 /\ T \in Nat
    BY HeapSizes
  <1> USE <1>0
  <1>1. /\ e \in D /\ D \subseteq 0 .. T /\ h \in Nat /\ e \in Nat /\ e <= T
        /\ 0 \in D /\ T \in D
    <2>1. e \in D /\ D \subseteq 0 .. T /\ 0 \in D /\ T \in D
      BY DEF RingOK, Address
    <2> HIDE DEF T, e
    <2> QED  BY <2>1
  <1>d. \A x \in D : x \in Nat /\ x <= T
    <2> SUFFICES ASSUME NEW x \in D PROVE x \in Nat /\ x <= T
      OBVIOUS
    <2>1. x \in 0 .. T
      BY <1>1
    <2> QED  BY <2>1
  <1>2. h < a /\ a < e /\ a \in Nat /\ a # 0 /\ a < T
    BY <1>1
  <1>3. \A x \in D : nx[x] \in D /\ pv[x] \in D /\ pv[nx[x]] = x /\ nx[pv[x]] = x
    BY DEF RingOK
  <1>4. /\ n = [x \in E |-> IF x = a THEN e ELSE IF x = h THEN a ELSE nx[x]]
        /\ p = [x \in E |-> IF x = a THEN h ELSE IF x = e THEN a ELSE pv[x]]
    OBVIOUS
  <1>5. /\ \A x, y \in D : x # T => y <= x \/ nx[x] <= y
        /\ \A x \in D : x # T => x + Header <= nx[x]
        /\ nx[T] = 0 /\ h # T
    BY DEF RingOK
  <1>6. /\ nx[h] = e /\ (\A x : x \in E <=> x \in D \/ x = a)
        /\ h + Header <= a /\ a + Header <= e
    OBVIOUS
  <1> HIDE DEF e, E, T
  <1>7. a \notin D
    BY <1>1, <1>2, <1>5, <1>6
  <1>8. n \in [E -> E] /\ p \in [E -> E]
    BY <1>1, <1>3, <1>4, <1>6
  <1>9. ASSUME NEW x \in E PROVE p[n[x]] = x /\ n[p[x]] = x
    <2>1. CASE x = a
      BY <1>1, <1>2, <1>4, <1>6, <1>7, <2>1
    <2>2. CASE x = h
      <3>1. n[x] = a /\ p[a] = h
        BY <1>1, <1>4, <1>6, <1>7, <2>2
      <3>2. x # e /\ x \in D /\ p[x] = pv[h] /\ pv[h] \in D /\ nx[pv[h]] = h
        BY <1>1, <1>2, <1>3, <1>4, <1>6, <1>7, <1>9, <2>2
      <3>3. pv[h] # h /\ pv[h] # a
        BY <1>1, <1>2, <1>6, <1>7, <3>2
      <3> QED  BY <1>4, <1>6, <2>2, <3>1, <3>2, <3>3
    <2>3. CASE x # a /\ x # h
      <3>1. x \in D /\ n[x] = nx[x] /\ nx[x] \in D /\ nx[x] # a /\ nx[x] # e /\ pv[nx[x]] = x
        BY <1>3, <1>4, <1>6, <1>7, <1>9, <2>3
      <3>2. p[n[x]] = x
        BY <1>4, <1>6, <3>1
      <3>3. CASE x = e
        BY <1>1, <1>4, <1>6, <1>7, <2>3, <3>2, <3>3
      <3>4. CASE x # e
        <4>1. p[x] = pv[x] /\ pv[x] \in D /\ pv[x] # h /\ pv[x] # a /\ nx[pv[x]] = x
          BY <1>3, <1>4, <1>6, <1>7, <2>3, <3>1, <3>4
        <4> QED  BY <1>4, <1>6, <3>2, <4>1
      <3> QED  BY <3>3, <3>4
    <2> QED  BY <2>1, <2>2, <2>3
  <1>10. n[T] = 0
    BY <1>1, <1>2, <1>4, <1>5, <1>6
  <1>11. ASSUME NEW x \in E, x # T
         PROVE  x + Header <= n[x] /\ \A y \in E : y <= x \/ n[x] <= y
    <2>1. \A y \in D : y <= h \/ e <= y
      BY <1>5, <1>6
    <2>2. CASE x = a
      <3>1. n[x] = e
        BY <1>4, <1>6, <2>2
      <3> QED  BY <1>1, <1>2, <1>6, <2>1, <2>2, <3>1
    <2>3. CASE x = h
      <3>1. n[x] = a
        BY <1>1, <1>2, <1>4, <1>6, <2>3
      <3> QED  BY <1>1, <1>2, <1>6, <2>1, <2>3, <3>1
    <2>4. CASE x # a /\ x # h
      <3>1. n[x] = nx[x] /\ x \in D /\ x + Header <= nx[x] /\ nx[x] \in D
        BY <1>3, <1>4, <1>5, <1>6, <1>11, <2>4
      <3>2. \A y \in D : y <= x \/ nx[x] <= y
        BY <1>5, <1>11, <3>1
      <3>3. a <= x \/ nx[x] <= a
        <4>1. x <= h \/ e <= x
          BY <2>1, <3>1
        <4>2. h <= x \/ nx[x] <= h
          BY <3>2
        <4>3. x \in Nat /\ nx[x] \in Nat
          BY <1>d, <3>1
        <4> QED  BY <1>1, <1>2, <2>4, <4>1, <4>2, <4>3
      <3> QED  BY <1>6, <3>1, <3>2, <3>3
    <2> QED  BY <2>2, <2>3, <2>4, Zenon
  <1>12. {0, T} \subseteq E /\ E \subseteq 0 .. T
    <2>1. \A x \in E : x \in Nat /\ x <= T
      BY <1>2, <1>6, <1>d
    <2>2. \A x \in E : x \in 0 .. T
      BY <2>1
    <2> QED  BY <1>1, <1>6, <2>2
  <1>13. RingOK(E, n, p)
    <2>1. \A x \in E : p[n[x]] = x /\ n[p[x]] = x
      BY <1>9, Zenon
    <2>2. \A x \in E : x # T => x + Header <= n[x]
      BY <1>11
    <2>3. \A x, y \in E : x # T => y <= x \/ n[x] <= y
      BY <1>11
    <2> QED  BY <1>8, <1>10, <1>12, <2>1, <2>2, <2>3, Zenon DEF RingOK, T, Address
  <1>14. n[h] = a /\ n[a] = e
    BY <1>1, <1>2, <1>4, <1>6
  <1> QED  BY <1>7, <1>13, <1>14 DEF e, E

-----------------------------------------------------------------------------
(* What holds of the heap *)

HeapBlock == [next : Address, prev : Address, used : BOOLEAN]

\* The blocks tile the pool.
Tile(b) ==
    /\ b \in [DOMAIN b -> HeapBlock] /\ b[MH!Tailer].used
    /\ RingOK(DOMAIN b, NextOf(b), PrevOf(b))

Separate(b) == \A h \in DOMAIN b : b[h].used \/ b[b[h].next].used

Unused(b) == {h \in DOMAIN b : ~ b[h].used}

HeldOf(b) ==
    [a \in Address |-> IF a \in DOMAIN b /\ ~ b[a].used THEN b[a].next - a - Header ELSE 0]

\* The free list and the counter.
Listed(b, list_, size) ==
    /\ list_ \in Seq(DOMAIN b) /\ Distinct(list_) /\ ToSet(list_) = Unused(b)
    /\ size = MH!Total(HeldOf(b), MH!Tailer)

\* The used blocks, without the tailer.
UsedOf(b) == {h \in DOMAIN b \ {MH!Tailer} : b[h].used}

\* The used blocks are lent.
Serves(b, l) ==
    /\ l \in [UsedOf(b) -> Request]
    /\ \A h \in DOMAIN l : b[h].next - h - Header >= l[h]

\* What a task keeps of its call: a block that it moves is lent, and nobody else
\* moves it.
HeapCalls ==
    /\ step \in [Task -> {"run", "search", "move", "copied"}]
    /\ \A t \in Task :
          /\ step[t] # "run" => arg[t].size \in Request
          /\ step[t] = "run" => arg[t].old = MH!None
          /\ step[t] \in {"move", "copied"} => arg[t].old # MH!None
          /\ arg[t].old \in DOMAIN lent \cup {MH!None}
    /\ DOMAIN arg = Task
    /\ \A t, u \in Task : t # u => arg[t].old # arg[u].old \/ arg[t].old = MH!None

\* The inductive invariant.
HeapInv ==
    /\ Tile(block) /\ Separate(block)
    /\ Listed(block, free_list, available)
    /\ Serves(block, lent)
    /\ HeapCalls

\* The ring, said of the blocks themselves.
LEMMA TileFacts ==
    ASSUME MH!MemHeapAssumption, NEW b, Tile(b)
    PROVE  /\ {0, MH!Tailer} \subseteq DOMAIN b /\ DOMAIN b \subseteq Address
           /\ \A h \in DOMAIN b : /\ h \in Nat /\ h <= MH!Tailer
                                  /\ b[h] \in HeapBlock /\ b[h].used \in BOOLEAN
                                  /\ b[h].next \in DOMAIN b /\ b[h].prev \in DOMAIN b
                                  /\ b[b[h].next].prev = h /\ b[b[h].prev].next = h
           /\ \A h \in DOMAIN b : h # MH!Tailer => h + Header <= b[h].next
           /\ \A h, x \in DOMAIN b : h # MH!Tailer => x <= h \/ b[h].next <= x
           /\ b[MH!Tailer].next = 0 /\ b[MH!Tailer].used
           /\ NextOf(b) \in [DOMAIN b -> DOMAIN b] /\ PrevOf(b) \in [DOMAIN b -> DOMAIN b]
           /\ \A h \in DOMAIN b : NextOf(b)[h] = b[h].next /\ PrevOf(b)[h] = b[h].prev
  <1> USE HeapSizes
  <1>1. \A h \in DOMAIN b : NextOf(b)[h] = b[h].next /\ PrevOf(b)[h] = b[h].prev
    BY DEF NextOf, PrevOf
  <1>2. \A h \in DOMAIN b : b[h] \in HeapBlock /\ b[h].used \in BOOLEAN
    BY DEF Tile, HeapBlock
  <1>3. RingOK(DOMAIN b, NextOf(b), PrevOf(b)) /\ b[MH!Tailer].used
    BY DEF Tile
  <1> HIDE DEF HeapBlock
  <1>4. /\ {0, MH!Tailer} \subseteq DOMAIN b /\ DOMAIN b \subseteq Address
        /\ NextOf(b) \in [DOMAIN b -> DOMAIN b] /\ PrevOf(b) \in [DOMAIN b -> DOMAIN b]
        /\ NextOf(b)[MH!Tailer] = 0
    BY <1>3 DEF RingOK
  <1>5. \A h \in DOMAIN b : h \in Nat /\ h <= MH!Tailer
    BY <1>4 DEF Address
  <1>6. \A h \in DOMAIN b : /\ b[h].next \in DOMAIN b /\ b[h].prev \in DOMAIN b
                            /\ b[b[h].next].prev = h /\ b[b[h].prev].next = h
    BY <1>1, <1>3, <1>4 DEF RingOK
  <1>7. \A h \in DOMAIN b : h # MH!Tailer => h + Header <= b[h].next
    BY <1>1, <1>3 DEF RingOK
  <1>8. \A h, x \in DOMAIN b : h # MH!Tailer => x <= h \/ b[h].next <= x
    BY <1>1, <1>3 DEF RingOK
  <1> QED  BY <1>1, <1>2, <1>3, <1>4, <1>5, <1>6, <1>7, <1>8, Zenon

LEMMA LinksStay ==
    ASSUME MH!MemHeapAssumption, NEW b, Tile(b)
    PROVE  \A x \in DOMAIN b : b[x].next \in DOMAIN b
  BY TileFacts

LEMMA HeapInvImplies ==
    ASSUME HeapInv, MH!MemHeapAssumption
    PROVE  MH!HeapConsistent
  <1> USE HeapSizes
  <1> DEFINE T == MH!Tailer
  <1>1. Tile(block) /\ Separate(block) /\ Listed(block, free_list, available) /\ Serves(block, lent)
    BY DEF HeapInv
  <1>2. \A h : MH!Next(h) = block[h].next /\ MH!SizeOf(h) = block[h].next - h - Header
               /\ (MH!IsFree(h) <=> ~ block[h].used)
    BY DEF MH!Next, MH!SizeOf, MH!IsFree
  <1>3. /\ {0, T} \subseteq DOMAIN block /\ DOMAIN block \subseteq Address /\ block[T].used
        /\ \A h \in DOMAIN block : /\ h \in Nat /\ block[h].next \in DOMAIN block
                                   /\ block[block[h].next].prev = h
        /\ \A h \in DOMAIN block : h # T => h + Header <= block[h].next
        /\ \A h, x \in DOMAIN block : h # T => x <= h \/ block[h].next <= x
    BY <1>1, TileFacts, Zenon
  <1>4. MH!BlocksTile
    <2>1. ASSUME NEW h \in DOMAIN block, h # T
          PROVE  block[h].next - h - Header >= 0 /\ ~ \E b \in DOMAIN block : h < b /\ b < block[h].next
      <3>1. h \in Nat /\ block[h].next \in Nat /\ h + Header <= block[h].next
        BY <1>3, <2>1
      <3>2. \A b \in DOMAIN block : b \in Nat /\ (b <= h \/ block[h].next <= b)
        BY <1>3, <2>1
      <3> QED  BY <3>1, <3>2
    <2>2. \A h \in DOMAIN block : ~ (~ block[h].used /\ ~ block[block[h].next].used)
      BY <1>1 DEF Separate
    <2> QED  BY <1>2, <1>3, <2>1, <2>2, Zenon DEF MH!BlocksTile
  <1>5. MH!FreeListed
    <2>1. MH!ToSet(free_list) = ToSet(free_list) /\ \A S : MH!Cardinality(S) = Cardinality(S)
      BY HeapSameLists, HeapSameCardinality
    <2>2. /\ free_list \in Seq(DOMAIN block) /\ Distinct(free_list)
          /\ ToSet(free_list) = Unused(block) /\ available = MH!Total(HeldOf(block), T)
      BY <1>1 DEF Listed
    <2>3. {h \in DOMAIN block : MH!IsFree(h)} = Unused(block)
      BY <1>2 DEF Unused
    <2>4. Len(free_list) = Cardinality(Unused(block))
      BY <2>2, DistinctCount
    <2>5. MH!Held = HeldOf(block)
      BY <1>2 DEF MH!Held, HeldOf, Address
    <2> QED  BY <2>1, <2>2, <2>3, <2>4, <2>5, Zenon DEF MH!FreeListed
  <1>6. MH!Satisfied
    BY <1>1, <1>2 DEF MH!Satisfied, Serves, UsedOf
  <1> QED  BY <1>4, <1>5, <1>6 DEF MH!HeapConsistent

LEMMA HeapInvInit ==
    ASSUME MH!Init, MH!MemHeapAssumption
    PROVE  HeapInv
  <1> USE HeapSizes
  <1> DEFINE T == MH!Tailer
             H == [next |-> T, prev |-> T, used |-> FALSE]
             E == [next |-> 0, prev |-> 0, used |-> TRUE]
  <1>1. /\ block = [x \in {0, T} |-> [next |-> T - x, prev |-> T - x, used |-> x = T]]
        /\ free_list = <<0>> /\ available = PoolSize - 2 * Header
        /\ lent = [h \in {} |-> 0] /\ step = [t \in Task |-> "run"]
        /\ arg = [t \in Task |-> [size |-> 0, old |-> MH!None]]
    BY DEF MH!Init
  <1>2. block = [x \in {0, T} |-> IF x = 0 THEN H ELSE E]
    <2>1. T - 0 = T /\ T - T = 0 /\ 0 # T
      OBVIOUS
    <2>2. \A x \in {0, T} : [next |-> T - x, prev |-> T - x, used |-> x = T]
                             = IF x = 0 THEN H ELSE E
      BY <2>1, Zenon
    <2> HIDE DEF T, H, E
    <2> QED  BY <1>1, <2>2
  <1>3. H \in HeapBlock /\ E \in HeapBlock
    BY DEF HeapBlock, Address
  <1>4. /\ DOMAIN block = {0, T} /\ block \in [{0, T} -> HeapBlock]
        /\ block[0] = H /\ block[T] = E /\ T # 0
    BY <1>2, <1>3
  <1>5. Tile(block)
    <2>1. /\ NextOf(block) = [x \in {0, T} |-> IF x = 0 THEN T ELSE 0]
          /\ PrevOf(block) = [x \in {0, T} |-> IF x = 0 THEN T ELSE 0]
      BY <1>4 DEF NextOf, PrevOf
    <2>2. RingOK({0, T}, NextOf(block), PrevOf(block))
      BY <1>4, <2>1 DEF RingOK, Address
    <2> QED  BY <1>4, <2>2 DEF Tile
  <1>6. Separate(block)
    BY <1>4 DEF Separate
  <1>7. Listed(block, free_list, available)
    <2>1. /\ free_list \in Seq(DOMAIN block) /\ Distinct(free_list) /\ ToSet(free_list) = {0}
      BY <1>1, <1>4 DEF Distinct, ToSet
    <2>2. Unused(block) = {0}
      BY <1>4 DEF Unused
    <2> DEFINE v == HeldOf(block)
               z == [a \in Address |-> 0]
    <2>3. /\ \A i \in 0 .. T - 1 : v[i] \in Int /\ z[i] = 0
          /\ \A i \in 0 .. T - 1 : i # 0 => v[i] = z[i]
          /\ v[0] = T - Header /\ z[0] = 0
      BY <1>4 DEF HeldOf, Address
    <2> HIDE DEF v, z
    <2>4. MH!Total(z, T) = 0
      BY <2>3, TotalZero
    <2>5. MH!Total(v, T) = MH!Total(z, T) + (v[0] - z[0])
      <3>1. 0 \in 0 .. T - 1 /\ T \in Nat
        OBVIOUS
      <3>2. \A i \in 0 .. T - 1 : z[i] \in Int /\ v[i] \in Int
        BY <2>3
      <3> QED  BY <2>3, <3>1, <3>2, TotalChange, ZenonT(40)
    <2>6. available = MH!Total(v, T)
      BY <1>1, <2>3, <2>4, <2>5
    <2> QED  BY <2>1, <2>2, <2>6 DEF Listed, v
  <1>8. Serves(block, lent)
    <2>1. UsedOf(block) = {}
      BY <1>4 DEF UsedOf
    <2> QED  BY <1>1, <2>1, Zenon DEF Serves
  <1>9. HeapCalls
    BY <1>1 DEF HeapCalls
  <1> QED  BY <1>5, <1>6, <1>7, <1>8, <1>9 DEF HeapInv

-----------------------------------------------------------------------------
(* What happens to the blocks *)

\* In c the block h ends at end, those of gone have left, and the rest is as in
\* the heap.
Relinked(c, h, end, used, gone) ==
    /\ DOMAIN c = DOMAIN block \ gone /\ c \in [DOMAIN c -> HeapBlock]
    /\ c[h].next = end /\ c[h].used = used
    /\ \A x \in DOMAIN c : x # h => c[x].next = block[x].next /\ c[x].used = block[x].used
    /\ NextOf(c) = [x \in DOMAIN block \ gone |-> IF x = h THEN end ELSE NextOf(block)[x]]
    /\ PrevOf(c) = [x \in DOMAIN block \ gone |-> IF x = end THEN h ELSE PrevOf(block)[x]]

LEMMA RelinkIs ==
    ASSUME MH!MemHeapAssumption, Tile(block),
           NEW h \in DOMAIN block, NEW end \in DOMAIN block, NEW gone,
           h # end, h \notin gone, end \notin gone, NEW used \in BOOLEAN,
           NEW c, c = MH!Relink(h, end, used, gone)
    PROVE  Relinked(c, h, end, used, gone)
  <1> DEFINE D == DOMAIN block \ gone
             new == [next |-> end, used |-> used, prev |-> block[h].prev]
  <1>1. \A x \in DOMAIN block : x \in Address /\ block[x] \in HeapBlock
    BY TileFacts
  <1>2. h \in Address /\ end \in Address /\ block[h].prev \in Address
    BY <1>1 DEF HeapBlock
  <1>3. c = [x \in D |-> CASE x = h   -> new
                          [] x = end -> [block[x] EXCEPT !.prev = h]
                          [] OTHER   -> block[x]]
    <2>1. (DOMAIN block \cup {h}) \ gone = D
      OBVIOUS
    <2> QED  BY <2>1 DEF MH!Relink
  <1> HIDE DEF D, new
  <1>4. h \in D /\ end \in D
    BY DEF D
  <1>5. DOMAIN c = D /\ c[h] = new /\ c[end] = [block[end] EXCEPT !.prev = h]
    BY <1>3, <1>4
  <1>6. \A x \in D : x # h /\ x # end => c[x] = block[x]
    BY <1>3
  <1>7. new \in HeapBlock /\ new.next = end /\ new.used = used /\ new.prev = block[h].prev
    BY <1>2 DEF new, HeapBlock
  <1>8. /\ c[end] \in HeapBlock /\ c[end].next = block[end].next
        /\ c[end].used = block[end].used /\ c[end].prev = h
    <2>1. block[end] \in HeapBlock
      BY <1>1
    <2> QED  BY <1>2, <1>5, <2>1 DEF HeapBlock
  <1>9. \A x \in D : c[x] \in HeapBlock
    <2>1. \A x \in D : block[x] \in HeapBlock
      BY <1>1 DEF D
    <2> QED  BY <1>5, <1>6, <1>7, <1>8, <2>1
  <1>10. \A x \in D : c[x].next = IF x = h THEN end ELSE block[x].next
    BY <1>5, <1>6, <1>7, <1>8, Zenon
  <1>11. \A x \in D : c[x].prev = IF x = end THEN h ELSE block[x].prev
    BY <1>5, <1>6, <1>7, <1>8, Zenon
  <1>12. \A x \in D : x # h => c[x].used = block[x].used
    BY <1>5, <1>6, <1>7, <1>8, Zenon
  <1>a. \A x \in D : NextOf(block)[x] = block[x].next /\ PrevOf(block)[x] = block[x].prev
    BY DEF D, NextOf, PrevOf
  <1>13. NextOf(c) = [x \in D |-> IF x = h THEN end ELSE NextOf(block)[x]]
    <2>1. \A x \in D : c[x].next = IF x = h THEN end ELSE NextOf(block)[x]
      BY <1>10, <1>a
    <2>2. NextOf(c) = [x \in D |-> c[x].next]
      BY <1>5 DEF NextOf
    <2> QED  BY <2>1, <2>2
  <1>14. PrevOf(c) = [x \in D |-> IF x = end THEN h ELSE PrevOf(block)[x]]
    <2>1. \A x \in D : c[x].prev = IF x = end THEN h ELSE PrevOf(block)[x]
      BY <1>11, <1>a
    <2>2. PrevOf(c) = [x \in D |-> c[x].prev]
      BY <1>5 DEF PrevOf
    <2> QED  BY <2>1, <2>2
  <1>15. c \in [D -> HeapBlock]
    <2>1. c = [x \in D |-> c[x]]
      BY <1>3, <1>5
    <2> QED  BY <1>9, <2>1
  <1>16. \A x \in D : x # h => c[x].next = block[x].next
    BY <1>10
  <1> QED  BY <1>5, <1>7, <1>12, <1>13, <1>14, <1>15, <1>16 DEF D, Relinked

\* The same of a ring that still tiles the pool.
Rejoined(c, h, end, used, gone) ==
    /\ Tile(c) /\ DOMAIN c = DOMAIN block \ gone /\ c[h].next = end /\ c[h].used = used
    /\ \A x \in DOMAIN c : x # h => c[x].next = block[x].next /\ c[x].used = block[x].used

\* No block leaves, the one behind h leaves, or the two behind it.
LEMMA RelinkSame ==
    ASSUME MH!MemHeapAssumption, Tile(block), NEW h \in DOMAIN block, h # MH!Tailer,
           NEW used \in BOOLEAN, NEW c, c = MH!Relink(h, block[h].next, used, {})
    PROVE  /\ Rejoined(c, h, block[h].next, used, {})
           /\ h + Header <= block[h].next
  <1> USE HeapSizes
  <1> DEFINE D == DOMAIN block
             end == block[h].next
  <1>1. /\ end \in D /\ h + Header <= end /\ h \in Nat /\ end \in Nat
        /\ \A x \in D : block[x].next \in D /\ block[block[x].next].prev = x
        /\ \A x \in D : NextOf(block)[x] = block[x].next /\ PrevOf(block)[x] = block[x].prev
        /\ NextOf(block) \in [D -> D] /\ PrevOf(block) \in [D -> D]
        /\ MH!Tailer \in D /\ block[MH!Tailer].used
    BY TileFacts, ZenonT(40)
  <1>2. h # end /\ D \ {} = D
    BY <1>1
  <1> HIDE DEF end
  <1>3. Relinked(c, h, end, used, {})
    <2>1. c = MH!Relink(h, end, used, {}) /\ h \notin {} /\ end \notin {} /\ end \in DOMAIN block
      BY <1>1 DEF end
    <2> QED  BY <1>2, <2>1, RelinkIs
  <1>a. /\ DOMAIN c = D /\ c \in [DOMAIN c -> HeapBlock] /\ c[h].next = end /\ c[h].used = used
        /\ \A x \in DOMAIN c : x # h => c[x].next = block[x].next /\ c[x].used = block[x].used
    BY <1>2, <1>3 DEF Relinked
  <1>4. NextOf(c) = NextOf(block)
    <2>1. NextOf(c) = [x \in D |-> IF x = h THEN end ELSE NextOf(block)[x]]
      BY <1>2, <1>3 DEF Relinked
    <2>2. NextOf(block)[h] = end
      BY <1>1 DEF end
    <2>3. \A x \in D : (IF x = h THEN end ELSE NextOf(block)[x]) = NextOf(block)[x]
      BY <2>2
    <2>4. NextOf(block) = [x \in D |-> NextOf(block)[x]]
      BY <1>1
    <2> HIDE DEF D
    <2> QED  BY <2>1, <2>3, <2>4
  <1>5. PrevOf(c) = PrevOf(block)
    <2>1. PrevOf(c) = [x \in D |-> IF x = end THEN h ELSE PrevOf(block)[x]]
      BY <1>2, <1>3 DEF Relinked
    <2>2. PrevOf(block)[end] = h
      BY <1>1, Zenon DEF end
    <2>3. \A x \in D : (IF x = end THEN h ELSE PrevOf(block)[x]) = PrevOf(block)[x]
      BY <2>2
    <2>4. PrevOf(block) = [x \in D |-> PrevOf(block)[x]]
      BY <1>1
    <2> HIDE DEF D
    <2> QED  BY <2>1, <2>3, <2>4
  <1>6. c[MH!Tailer].used
    BY <1>1, <1>a
  <1>7. RingOK(DOMAIN c, NextOf(c), PrevOf(c))
    BY <1>4, <1>5, <1>a DEF Tile
  <1> QED  BY <1>1, <1>2, <1>6, <1>7, <1>a DEF Tile, end, Rejoined

LEMMA RelinkOne ==
    ASSUME MH!MemHeapAssumption, Tile(block), NEW h \in DOMAIN block, h # MH!Tailer,
           NEW r, r = block[h].next, r # MH!Tailer, NEW end, end = block[r].next,
           NEW used \in BOOLEAN, NEW c, c = MH!Relink(h, end, used, {r})
    PROVE  /\ Rejoined(c, h, end, used, {r})
           /\ r \in DOMAIN block /\ end \in DOMAIN block /\ h < r /\ r < end
  <1> USE HeapSizes
  <1> DEFINE D == DOMAIN block
  <1>1. /\ \A x \in D : block[x].next \in D /\ block[block[x].next].prev = x
        /\ \A x \in D : NextOf(block)[x] = block[x].next /\ PrevOf(block)[x] = block[x].prev
        /\ MH!Tailer \in D /\ block[MH!Tailer].used
        /\ \A x \in D : x \in Nat
        /\ \A x \in D : x # MH!Tailer => x + Header <= block[x].next
    BY TileFacts, ZenonT(40)
  <1>2. /\ RingOK(D, NextOf(block), PrevOf(block)) /\ NextOf(block)[h] = r
        /\ NextOf(block)[r] = end /\ r \in D /\ end \in D
    BY <1>1 DEF Tile
  <1>3. h < r /\ r < end /\ h \notin {r} /\ end \notin {r} /\ h # end
    BY <1>1, <1>2
  <1>a. Relinked(c, h, end, used, {r})
    BY <1>2, <1>3, RelinkIs
  <1>4. /\ DOMAIN c = D \ {r} /\ c \in [DOMAIN c -> HeapBlock]
        /\ c[h].next = end /\ c[h].used = used
        /\ \A x \in DOMAIN c : x # h => c[x].next = block[x].next /\ c[x].used = block[x].used
    BY <1>a, Zenon DEF Relinked
  <1>5. NextOf(c) = [x \in D \ {r} |-> IF x = h THEN end ELSE NextOf(block)[x]]
    BY <1>a DEF Relinked
  <1>6. PrevOf(c) = [x \in D \ {r} |-> IF x = end THEN h ELSE PrevOf(block)[x]]
    BY <1>a DEF Relinked
  <1>7. RingOK(D \ {r}, NextOf(c), PrevOf(c))
    <2>1. NextOf(c) = [x \in D \ {NextOf(block)[h]} |->
                          IF x = h THEN NextOf(block)[NextOf(block)[h]] ELSE NextOf(block)[x]]
      BY <1>2, <1>5
    <2>2. PrevOf(c) = [x \in D \ {NextOf(block)[h]} |->
                          IF x = NextOf(block)[NextOf(block)[h]] THEN h ELSE PrevOf(block)[x]]
      BY <1>2, <1>6
    <2>3. NextOf(block)[h] # MH!Tailer
      BY <1>2
    <2> HIDE DEF D
    <2>4. RingOK(D \ {NextOf(block)[h]}, NextOf(c), PrevOf(c))
      BY <1>2, <2>1, <2>2, <2>3, Joined DEF D
    <2> QED  BY <1>2, <2>4
  <1>8. c[MH!Tailer].used
    BY <1>1, <1>4, Zenon
  <1> QED  BY <1>2, <1>3, <1>4, <1>7, <1>8, Zenon DEF Tile, Rejoined

LEMMA RelinkTwo ==
    ASSUME MH!MemHeapAssumption, Tile(block), NEW l \in DOMAIN block, l # MH!Tailer,
           NEW h, h = block[l].next, h # MH!Tailer, NEW r, r = block[h].next, r # MH!Tailer,
           NEW end, end = block[r].next,
           NEW used \in BOOLEAN, NEW c, c = MH!Relink(l, end, used, {h, r})
    PROVE  /\ Rejoined(c, l, end, used, {h, r})
           /\ h \in DOMAIN block /\ r \in DOMAIN block /\ end \in DOMAIN block
           /\ l < h /\ h < r /\ r < end
  <1> USE HeapSizes
  <1> DEFINE D == DOMAIN block
             nx == NextOf(block)
             pv == PrevOf(block)
             n == [x \in D \ {h} |-> IF x = l THEN r ELSE nx[x]]
             p == [x \in D \ {h} |-> IF x = r THEN l ELSE pv[x]]
             E == D \ {h}
  <1>1. /\ \A x \in D : block[x].next \in D /\ block[block[x].next].prev = x
        /\ \A x \in D : nx[x] = block[x].next /\ pv[x] = block[x].prev
        /\ MH!Tailer \in D /\ block[MH!Tailer].used
        /\ \A x \in D : x \in Nat
        /\ \A x \in D : x # MH!Tailer => x + Header <= block[x].next
    BY TileFacts, ZenonT(40)
  <1>2. /\ RingOK(D, nx, pv) /\ h \in D /\ r \in D /\ end \in D
        /\ nx[l] = h /\ nx[h] = r /\ nx[r] = end
    BY <1>1 DEF Tile
  <1>3. l < h /\ h < r /\ r < end /\ l \notin {h, r} /\ end \notin {h, r} /\ l # end
    BY <1>1, <1>2
  <1>a. Relinked(c, l, end, used, {h, r})
    BY <1>2, <1>3, RelinkIs, Zenon
  <1>4. /\ DOMAIN c = D \ {h, r} /\ c \in [DOMAIN c -> HeapBlock]
        /\ c[l].next = end /\ c[l].used = used
        /\ \A x \in DOMAIN c : x # l => c[x].next = block[x].next /\ c[x].used = block[x].used
    BY <1>a, Zenon DEF Relinked
  <1>b. NextOf(c) = [x \in D \ {h, r} |-> IF x = l THEN end ELSE nx[x]]
    BY <1>a, Zenon DEF Relinked
  <1>c. PrevOf(c) = [x \in D \ {h, r} |-> IF x = end THEN l ELSE pv[x]]
    BY <1>a, Zenon DEF Relinked
  <1> HIDE DEF nx, pv, D
  <1>5. RingOK(E, n, p) /\ n[l] = r
    <2>1. n = [x \in D \ {nx[l]} |-> IF x = l THEN nx[nx[l]] ELSE nx[x]]
      BY <1>2
    <2>2. p = [x \in D \ {nx[l]} |-> IF x = nx[nx[l]] THEN l ELSE pv[x]]
      BY <1>2
    <2>3. nx[l] # MH!Tailer /\ l \in D
      BY <1>2 DEF D
    <2> HIDE DEF n, p
    <2>4. RingOK(D \ {nx[l]}, n, p) /\ n[l] = nx[nx[l]]
      BY <1>2, <2>1, <2>2, <2>3, Joined
    <2> QED  BY <1>2, <2>4
  <1>6. l \in E /\ r \in E /\ n[r] = end /\ E \ {r} = D \ {h, r}
    <2>1. l \in D
      BY DEF D
    <2> QED  BY <1>2, <1>3, <2>1
  <1>7. NextOf(c) = [x \in E \ {r} |-> IF x = l THEN end ELSE n[x]]
    <2>1. \A x \in D \ {h, r} : (IF x = l THEN end ELSE nx[x]) = (IF x = l THEN end ELSE n[x])
      OBVIOUS
    <2> HIDE DEF n, E
    <2> QED  BY <1>6, <1>b, <2>1
  <1>8. PrevOf(c) = [x \in E \ {r} |-> IF x = end THEN l ELSE p[x]]
    <2>1. \A x \in D \ {h, r} : (IF x = end THEN l ELSE pv[x]) = (IF x = end THEN l ELSE p[x])
      OBVIOUS
    <2> HIDE DEF p, E
    <2> QED  BY <1>6, <1>c, <2>1
  <1> HIDE DEF n, p, E
  <1>9. RingOK(E \ {r}, NextOf(c), PrevOf(c))
    <2>1. NextOf(c) = [x \in E \ {n[l]} |-> IF x = l THEN n[n[l]] ELSE n[x]]
      BY <1>5, <1>6, <1>7
    <2>2. PrevOf(c) = [x \in E \ {n[l]} |-> IF x = n[n[l]] THEN l ELSE p[x]]
      BY <1>5, <1>6, <1>8
    <2>3. n[l] # MH!Tailer
      BY <1>5
    <2>4. RingOK(E \ {n[l]}, NextOf(c), PrevOf(c))
      BY SMTT(40), <1>5, <1>6, <2>1, <2>2, <2>3, Joined
    <2> QED  BY <1>5, <2>4
  <1>10. RingOK(DOMAIN c, NextOf(c), PrevOf(c))
    BY <1>4, <1>6, <1>9, Zenon
  <1>11. c[MH!Tailer].used
    BY <1>1, <1>4, Zenon DEF D
  <1> QED  BY <1>2, <1>3, <1>4, <1>10, <1>11, Zenon DEF Tile, D, Rejoined

\* In c the block h of b is split at a.
SplitAt(b, c, h, a) ==
    /\ Tile(c) /\ DOMAIN c = DOMAIN b \cup {a} /\ a \notin DOMAIN b
    /\ c[h].next = a /\ c[h].used /\ c[a].next = b[h].next /\ ~ c[a].used
    /\ \A x \in DOMAIN b : x # h => c[x].next = b[x].next /\ c[x].used = b[x].used
    /\ a \in Address

LEMMA SplitIs ==
    ASSUME MH!MemHeapAssumption, NEW b, Tile(b), NEW h \in DOMAIN b, h # MH!Tailer,
           NEW a \in Int, h + Header <= a, a + Header <= b[h].next,
           NEW c, c = MH!Split(b, h, a)
    PROVE  SplitAt(b, c, h, a)
  <1> USE HeapSizes
  <1> DEFINE D == DOMAIN b
             E == D \cup {a}
             e == b[h].next
  <1>1. /\ \A x \in D : b[x].next \in D /\ b[x] \in HeapBlock /\ x \in Nat /\ x \in Address
        /\ \A x \in D : NextOf(b)[x] = b[x].next /\ PrevOf(b)[x] = b[x].prev
        /\ MH!Tailer \in D /\ b[MH!Tailer].used
        /\ \A x \in D : x <= h \/ e <= x
    BY TileFacts, Zenon DEF Address
  <1>2. e \in D /\ h < a /\ a < e /\ a \in Address /\ h # e
    BY <1>1 DEF Address
  <1>3. a \notin D
    BY <1>1, <1>2
  <1> HIDE DEF D, e
  <1>4. h \in D /\ h # a /\ e # a
    BY <1>2 DEF D
  <1>5. c = [x \in E |-> CASE x = a  -> [next |-> e, prev |-> h, used |-> FALSE]
                          [] x = h  -> [b[h] EXCEPT !.next = a, !.used = TRUE]
                          [] x = e  -> [b[x] EXCEPT !.prev = a]
                          [] OTHER  -> b[x]]
    BY DEF MH!Split, D, e
  <1>6. /\ DOMAIN c = E /\ c[a] = [next |-> e, prev |-> h, used |-> FALSE]
        /\ c[h] = [b[h] EXCEPT !.next = a, !.used = TRUE]
        /\ c[e] = [b[e] EXCEPT !.prev = a]
        /\ \A x \in E : x # a /\ x # h /\ x # e => c[x] = b[x]
    BY <1>2, <1>4, <1>5
  <1>7. /\ c[a] \in HeapBlock /\ c[a].next = e /\ c[a].prev = h /\ ~ c[a].used
    <2>1. h \in Address /\ e \in Address
      BY <1>1, <1>2, <1>4
    <2> QED  BY <1>6, <2>1 DEF HeapBlock
  <1>8. /\ c[h] \in HeapBlock /\ c[h].next = a /\ c[h].prev = b[h].prev /\ c[h].used
    <2>1. b[h] \in HeapBlock
      BY <1>1, <1>4
    <2> QED  BY <1>2, <1>6, <2>1, Zenon DEF HeapBlock
  <1>9. /\ c[e] \in HeapBlock /\ c[e].next = b[e].next /\ c[e].prev = a
        /\ c[e].used = b[e].used
    <2>1. b[e] \in HeapBlock
      BY <1>1, <1>2
    <2> QED  BY <1>2, <1>6, <2>1 DEF HeapBlock
  <1>10. \A x \in D : b[x] \in HeapBlock
    BY <1>1
  <1>11. \A x \in E : c[x] \in HeapBlock
    BY <1>6, <1>7, <1>8, <1>9, <1>10, Zenon
  <1>12. \A x \in E : c[x].next = IF x = a THEN e ELSE IF x = h THEN a ELSE b[x].next
    BY <1>6, <1>7, <1>8, <1>9, Zenon
  <1>13. \A x \in E : c[x].prev = IF x = a THEN h ELSE IF x = e THEN a ELSE b[x].prev
    BY <1>2, <1>4, <1>6, <1>7, <1>8, <1>9, Zenon
  <1>14. \A x \in D : x # h => c[x].next = b[x].next /\ c[x].used = b[x].used
    BY <1>3, <1>6, <1>9, Zenon
  <1>15. /\ NextOf(c) = [x \in E |-> IF x = a THEN e ELSE IF x = h THEN a ELSE NextOf(b)[x]]
         /\ PrevOf(c) = [x \in E |-> IF x = a THEN h ELSE IF x = e THEN a ELSE PrevOf(b)[x]]
    <2>1. NextOf(c) = [x \in E |-> c[x].next] /\ PrevOf(c) = [x \in E |-> c[x].prev]
      BY <1>6 DEF NextOf, PrevOf
    <2> QED  BY <1>1, <1>12, <1>13, <2>1
  <1>16. RingOK(E, NextOf(c), PrevOf(c))
    <2>1. NextOf(b)[h] = e /\ RingOK(D, NextOf(b), PrevOf(b))
      BY <1>1, <1>4 DEF e, Tile, D
    <2>2. h + Header <= a /\ a + Header <= NextOf(b)[h]
      BY <2>1 DEF e
    <2>3. NextOf(c) = [x \in D \cup {a} |-> IF x = a THEN NextOf(b)[h]
                                            ELSE IF x = h THEN a ELSE NextOf(b)[x]]
      BY <1>15, <2>1
    <2>4. PrevOf(c) = [x \in D \cup {a} |-> IF x = a THEN h
                                            ELSE IF x = NextOf(b)[h] THEN a ELSE PrevOf(b)[x]]
      BY <1>15, <2>1
    <2>5. RingOK(D \cup {a}, NextOf(c), PrevOf(c))
      BY <1>4, <2>1, <2>2, <2>3, <2>4, Parted
    <2> QED  BY <2>5
  <1>17. c[MH!Tailer].used
    <2>1. MH!Tailer # h /\ MH!Tailer \in D
      BY <1>1
    <2> QED  BY <1>1, <1>14, <2>1
  <1>18. c \in [E -> HeapBlock]
    <2>1. c = [x \in E |-> c[x]]
      BY <1>5, <1>6
    <2> QED  BY <1>11, <2>1, Zenon
  <1>19. Tile(c)
    BY <1>6, <1>16, <1>17, <1>18 DEF Tile
  <1> HIDE DEF E
  <1> QED  BY <1>2, <1>3, <1>6, <1>7, <1>8, <1>14, <1>19 DEF D, E, e, SplitAt

-----------------------------------------------------------------------------
(* What the free blocks hold *)

LEMMA HeldIs ==
    ASSUME MH!MemHeapAssumption, NEW b, Tile(b)
    PROVE  /\ \A i \in Address : HeldOf(b)[i] \in Int
           /\ \A i \in Unused(b) : HeldOf(b)[i] = b[i].next - i - Header
           /\ \A i \in Address \ Unused(b) : HeldOf(b)[i] = 0
           /\ Unused(b) \subseteq Address \ {MH!Tailer}
  <1> USE HeapSizes
  <1> DEFINE f == HeldOf(b)
  <1>1. /\ DOMAIN b \subseteq Address /\ b[MH!Tailer].used
        /\ \A h \in DOMAIN b : h \in Nat /\ b[h].next \in DOMAIN b
    BY TileFacts, Zenon
  <1>2. Unused(b) \subseteq Address \ {MH!Tailer} /\ Unused(b) \subseteq DOMAIN b
    BY <1>1 DEF Unused
  <1>3. \A i \in Unused(b) : f[i] = b[i].next - i - Header
    BY <1>2 DEF HeldOf, Unused
  <1>4. \A i \in Address \ Unused(b) : f[i] = 0
    BY DEF HeldOf, Unused
  <1>5. \A i \in Unused(b) : b[i].next - i - Header \in Int
    <2>1. \A i \in Unused(b) : i \in Nat /\ b[i].next \in Nat
      BY <1>1, <1>2
    <2> QED  BY <2>1
  <1> HIDE DEF f
  <1>6. \A i \in Address : f[i] \in Int
    BY <1>3, <1>4, <1>5
  <1> QED  BY <1>2, <1>3, <1>4, <1>6 DEF f

LEMMA HeldTotal ==
    ASSUME MH!MemHeapAssumption, NEW b, Tile(b)
    PROVE  MH!Total(HeldOf(b), MH!Tailer) \in Int
  <1>1. \A i \in Address : HeldOf(b)[i] \in Int
    BY HeldIs
  <1>2. MH!Tailer \in Nat /\ \A i \in 0 .. MH!Tailer - 1 : HeldOf(b)[i] \in Int
    BY <1>1, HeapSizes DEF Address
  <1> QED  BY <1>2, TotalInt

\* Outside A the same blocks of b and c are free, and end where they did.
AlikeBut(A, b, c) ==
    \A x \in Address \ A : /\ x \in Unused(c) <=> x \in Unused(b)
                           /\ x \in Unused(b) => c[x].next = b[x].next

\* Blocks that stay free and keep their end hold what they held.
LEMMA HeldSame ==
    ASSUME MH!MemHeapAssumption, NEW b, NEW c, Tile(b), Tile(c), NEW A, AlikeBut(A, b, c)
    PROVE  \A x \in Address \ A : HeldOf(c)[x] = HeldOf(b)[x]
  <1>1. /\ \A i \in Unused(b) : HeldOf(b)[i] = b[i].next - i - Header
        /\ \A i \in Address \ Unused(b) : HeldOf(b)[i] = 0
    BY HeldIs
  <1>2. /\ \A i \in Unused(c) : HeldOf(c)[i] = c[i].next - i - Header
        /\ \A i \in Address \ Unused(c) : HeldOf(c)[i] = 0
    BY HeldIs
  <1> QED  BY <1>1, <1>2 DEF AlikeBut

\* What the counter does when the free blocks change at one place or two.
LEMMA CounterOne ==
    ASSUME MH!MemHeapAssumption, NEW b, NEW c, Tile(b), Tile(c), NEW p \in Address \ {MH!Tailer},
           AlikeBut({p}, b, c)
    PROVE  MH!Total(HeldOf(c), MH!Tailer)
             = MH!Total(HeldOf(b), MH!Tailer) + (HeldOf(c)[p] - HeldOf(b)[p])
  <1> USE HeapSizes
  <1> DEFINE v == HeldOf(b)
             w == HeldOf(c)
             T == MH!Tailer
  <1>1. (\A i \in Address : v[i] \in Int) /\ \A i \in Address : w[i] \in Int
    BY HeldIs
  <1>2. \A i \in Address \ {p} : w[i] = v[i]
    BY HeldSame
  <1> HIDE DEF v, w
  <1>3. T \in Nat /\ p \in 0 .. T - 1 /\ \A i : i \in 0 .. T - 1 => i \in Address
    BY DEF Address
  <1> HIDE DEF T
  <1>4. MH!Total(w, T) = MH!Total(v, T) + (w[p] - v[p])
    <2>1. \A i \in 0 .. T - 1 : v[i] \in Int /\ w[i] \in Int
      BY <1>1, <1>3
    <2>2. \A i \in 0 .. T - 1 : i # p => w[i] = v[i]
      BY <1>2, <1>3
    <2> QED  BY <1>3, <2>1, <2>2, TotalChange
  <1> QED  BY <1>4 DEF v, w, T

LEMMA CounterTwo ==
    ASSUME MH!MemHeapAssumption, NEW b, NEW c, Tile(b), Tile(c),
           NEW p \in Address \ {MH!Tailer}, NEW q \in Address \ {MH!Tailer}, p # q,
           AlikeBut({p, q}, b, c)
    PROVE  MH!Total(HeldOf(c), MH!Tailer)
             = MH!Total(HeldOf(b), MH!Tailer) + (HeldOf(c)[p] - HeldOf(b)[p])
                                              + (HeldOf(c)[q] - HeldOf(b)[q])
  <1> USE HeapSizes
  <1> DEFINE v == HeldOf(b)
             w == HeldOf(c)
             T == MH!Tailer
  <1>1. (\A i \in Address : v[i] \in Int) /\ \A i \in Address : w[i] \in Int
    BY HeldIs
  <1>2. \A i \in Address \ {p, q} : w[i] = v[i]
    BY HeldSame
  <1> HIDE DEF v, w
  <1>3. /\ T \in Nat /\ p \in 0 .. T - 1 /\ q \in 0 .. T - 1
        /\ \A i : i \in 0 .. T - 1 => i \in Address
    BY DEF Address
  <1> HIDE DEF T
  <1>4. MH!Total(w, T) = MH!Total(v, T) + (w[p] - v[p]) + (w[q] - v[q])
    <2>1. \A i \in 0 .. T - 1 : v[i] \in Int /\ w[i] \in Int
      BY <1>1, <1>3
    <2>2. \A i \in 0 .. T - 1 : i # p /\ i # q => w[i] = v[i]
      BY <1>2, <1>3
    <2> QED  BY <1>3, <2>1, <2>2, TotalChanges, ZenonT(40)
  <1> QED  BY <1>4 DEF v, w, T

-----------------------------------------------------------------------------
(* What the calls do to the blocks *)

\* The list after one block left it and, perhaps, another came to its head.
LEMMA Relisted ==
    ASSUME NEW S, NEW s \in Seq(S), Distinct(s), NEW r, NEW a, a \notin ToSet(s) \ {r}
    PROVE  LET rest == MH!RemoveFirst(s, r)
               q    == <<a>> \o rest
           IN  /\ rest \in Seq(ToSet(s) \ {r}) /\ Distinct(rest) /\ ToSet(rest) = ToSet(s) \ {r}
               /\ q \in Seq((ToSet(s) \ {r}) \cup {a}) /\ Distinct(q)
               /\ ToSet(q) = (ToSet(s) \ {r}) \cup {a}
  <1> DEFINE rest == RemoveFirst(s, r)
             A == (ToSet(s) \ {r}) \cup {a}
  <1>1. MH!RemoveFirst(s, r) = rest
    BY HeapSameLists
  <1>2. rest \in Seq(S) /\ Distinct(rest) /\ ToSet(rest) = ToSet(s) \ {r}
    BY RemoveFirstList
  <1> HIDE DEF rest
  <1>3. Len(rest) \in Nat /\ DOMAIN rest = 1 .. Len(rest)
    BY <1>2, LenProperties
  <1>4. \A i \in 1 .. Len(rest) : rest[i] \in ToSet(s) \ {r}
    BY <1>2, <1>3 DEF ToSet
  <1>5. rest \in Seq(ToSet(s) \ {r})
    <2>1. \E n \in Nat : rest \in [1 .. n -> ToSet(s) \ {r}]
      BY <1>2, <1>3, <1>4, LenProperties
    <2> QED  BY <2>1
  <1>6. rest \in Seq(A) /\ a \in A
    <2>1. \A i \in 1 .. Len(rest) : rest[i] \in A
      BY <1>4
    <2>2. \E n \in Nat : rest \in [1 .. n -> A]
      BY <1>2, <1>3, <2>1, LenProperties
    <2> QED  BY <2>2
  <1>7. a \notin ToSet(rest)
    BY <1>2
  <1> HIDE DEF A
  <1>8. /\ <<a>> \o rest \in Seq(A) /\ ToSet(<<a>> \o rest) = ToSet(rest) \cup {a}
        /\ (Distinct(rest) /\ a \notin ToSet(rest) => Distinct(<<a>> \o rest))
    BY <1>6, ConsList
  <1> QED  BY <1>1, <1>2, <1>5, <1>7, <1>8 DEF A

\* A list of the free blocks of b is one of addresses.
LEMMA ListedIs ==
    ASSUME NEW b, NEW s, NEW A, s \in Seq(A), A = Unused(b), Distinct(s), ToSet(s) = Unused(b),
           NEW n, n = MH!Total(HeldOf(b), MH!Tailer)
    PROVE  Listed(b, s, n)
  <1>1. Len(s) \in Nat /\ DOMAIN s = 1 .. Len(s) /\ \A i \in 1 .. Len(s) : s[i] \in A
    BY LenProperties, ElementOfSeq
  <1>2. \A i \in 1 .. Len(s) : s[i] \in DOMAIN b
    BY <1>1 DEF Unused
  <1>3. s \in Seq(DOMAIN b)
    <2>1. s \in [1 .. Len(s) -> A]
      BY LenProperties
    <2>2. s \in [1 .. Len(s) -> DOMAIN b]
      BY <1>2, <2>1
    <2>3. \E m \in Nat : s \in [1 .. m -> DOMAIN b]
      BY <1>1, <2>2, Zenon
    <2> QED  BY <2>3
  <1> QED  BY <1>3 DEF Listed

\* A list of the members of U.
IsList(q, U) == q \in Seq(U) /\ Distinct(q) /\ ToSet(q) = U

LEMMA OwnList ==
    ASSUME NEW S, NEW s \in Seq(S), NEW U, ToSet(s) = U, Distinct(s)
    PROVE  IsList(s, U)
  <1>1. Len(s) \in Nat /\ DOMAIN s = 1 .. Len(s) /\ \A i \in 1 .. Len(s) : s[i] \in U
    BY LenProperties DEF ToSet
  <1>2. \E n \in Nat : s \in [1 .. n -> U]
    BY <1>1, LenProperties
  <1>3. s \in Seq(U)
    BY <1>2
  <1> QED  BY <1>3 DEF IsList

LEMMA RestList ==
    ASSUME NEW U, NEW s, IsList(s, U), NEW r
    PROVE  IsList(MH!RemoveFirst(s, r), U \ {r})
  <1>1. s \in Seq(U) /\ Distinct(s) /\ ToSet(s) = U
    BY DEF IsList
  <1>2. r \notin ToSet(s) \ {r}
    OBVIOUS
  <1> HIDE DEF IsList
  <1>3. /\ MH!RemoveFirst(s, r) \in Seq(ToSet(s) \ {r}) /\ Distinct(MH!RemoveFirst(s, r))
        /\ ToSet(MH!RemoveFirst(s, r)) = ToSet(s) \ {r}
    BY ONLY <1>1, <1>2, Relisted, Zenon
  <1> QED  BY <1>1, <1>3 DEF IsList

LEMMA HeadList ==
    ASSUME NEW U, NEW s, IsList(s, U), NEW r, NEW a, a \notin U \ {r}
    PROVE  IsList(<<a>> \o MH!RemoveFirst(s, r), (U \ {r}) \cup {a})
  <1>1. s \in Seq(U) /\ Distinct(s) /\ ToSet(s) = U
    BY DEF IsList
  <1>2. a \notin ToSet(s) \ {r}
    BY <1>1
  <1> DEFINE rest == MH!RemoveFirst(s, r)
             q == <<a>> \o rest
  <1>3. /\ q \in Seq((ToSet(s) \ {r}) \cup {a}) /\ Distinct(q)
        /\ ToSet(q) = (ToSet(s) \ {r}) \cup {a}
    BY ONLY <1>1, <1>2, Relisted, ZenonT(40)
  <1> QED  BY <1>1, <1>3 DEF IsList

LEMMA ListIs ==
    ASSUME NEW b, NEW s, IsList(s, Unused(b)), NEW n, n = MH!Total(HeldOf(b), MH!Tailer)
    PROVE  Listed(b, s, n)
  BY ListedIs DEF IsList

\* A free block is used.
LEMMA CutKeeps ==
    ASSUME MH!MemHeapAssumption, Tile(block), Separate(block),
           Listed(block, free_list, available),
           NEW h \in Unused(block), NEW n \in Nat, block[h].next - h - Header >= n,
           MH!Cut(h, n)
    PROVE  /\ Tile(block') /\ Separate(block') /\ Listed(block', free_list', available')
           /\ UsedOf(block') = UsedOf(block) \cup {h} /\ h \notin UsedOf(block)
           /\ \A x \in UsedOf(block) : block'[x].next = block[x].next
           /\ block'[h].next - h - Header >= n
  <1> USE HeapSizes
  <1> DEFINE D == DOMAIN block
             T == MH!Tailer
             e == block[h].next
             a == h + Header + n
             c == block'
  <1>1. /\ {0, T} \subseteq D /\ D \subseteq Address
        /\ \A x \in D : /\ x \in Nat /\ x <= T /\ block[x].next \in D
                        /\ block[x] \in HeapBlock /\ block[x].used \in BOOLEAN
        /\ \A x \in D : x # T => x + Header <= block[x].next
        /\ block[T].used
    BY TileFacts, Zenon
  <1>2. h \in D /\ ~ block[h].used /\ h # T /\ e \in D /\ h \in Nat /\ e \in Nat /\ h + Header <= e
    <2>1. h \in D /\ ~ block[h].used
      BY DEF Unused
    <2> QED  BY <1>1, <2>1
  <1>3. /\ free_list \in Seq(D) /\ Distinct(free_list) /\ ToSet(free_list) = Unused(block)
        /\ available = MH!Total(HeldOf(block), T)
    BY DEF Listed
  <1>4. MH!SizeOf(h) = e - h - Header /\ MH!Unlisted(h) = MH!RemoveFirst(free_list, h)
    BY DEF MH!SizeOf, MH!Next, MH!Unlisted
  <1>5. h \in Address \ {T} /\ HeldOf(block)[h] = e - h - Header
    BY HeldIs
  <1>6. h \notin UsedOf(block)
    BY <1>2 DEF UsedOf
  <1>7. block[e].used
    BY <1>2 DEF Separate
  <1>8. CASE MH!SizeOf(h) >= n + Header + Mini
    <2>1. /\ c = MH!Split(block, h, a) /\ free_list' = <<a>> \o MH!RemoveFirst(free_list, h)
          /\ available' = available - n - Header
      BY <1>4, <1>8 DEF MH!Cut
    <2>2. a \in Int /\ h + Header <= a /\ a + Header <= e
      BY <1>2, <1>4, <1>8
    <2>3. /\ Tile(c) /\ DOMAIN c = D \cup {a} /\ a \notin D
          /\ c[h].next = a /\ c[h].used /\ c[a].next = e /\ ~ c[a].used
          /\ \A x \in D : x # h => c[x].next = block[x].next /\ c[x].used = block[x].used
          /\ a \in Address
      <3> HIDE DEF a, c
      <3>1. SplitAt(block, c, h, a)
        BY <1>2, <2>1, <2>2, SplitIs
      <3> QED  BY <3>1 DEF SplitAt
    <2>4. a # T
      BY <1>1, <2>3
    <2> HIDE DEF a, c, e
    <2>5. Separate(c)
      <3> SUFFICES ASSUME NEW x \in D \cup {a} PROVE c[x].used \/ c[c[x].next].used
        BY <2>3 DEF Separate
      <3>1. CASE x = a
        <4>1. c[e].used
          BY <1>1, <1>2, <1>7, <2>3, Zenon
        <4> QED  BY <2>3, <3>1, <4>1
      <3>2. CASE x = h
        BY <2>3, <3>2
      <3>3. CASE x # a /\ x # h
        <4>1. x \in D /\ c[x].next = block[x].next /\ c[x].used = block[x].used /\ block[x].next \in D
          BY <1>1, <2>3, <3>3
        <4>2. block[x].used \/ block[block[x].next].used
          BY <4>1 DEF Separate
        <4>3. block[block[x].next].used => c[block[x].next].used
          BY <1>2, <2>3, <4>1
        <4> QED  BY <4>1, <4>2, <4>3
      <3> QED  BY <3>1, <3>2, <3>3
    <2>6. Unused(c) = (Unused(block) \ {h}) \cup {a}
      <3>1. \A x \in D : x # h => (x \in Unused(c) <=> x \in Unused(block))
        BY <2>3 DEF Unused
      <3>2. h \notin Unused(c) /\ a \in Unused(c) /\ Unused(c) \subseteq D \cup {a}
        BY <2>3 DEF Unused
      <3>3. Unused(block) \subseteq D
        BY DEF Unused
      <3> QED  BY <2>3, <3>1, <3>2, <3>3
    <2>7. available' = MH!Total(HeldOf(c), T)
      <3>1. HeldOf(c)[h] = 0 /\ HeldOf(c)[a] = e - a - Header /\ HeldOf(block)[a] = 0
        <4>1. a \in Unused(c) /\ h \in Address \ Unused(c) /\ a \in Address \ Unused(block)
          BY <1>2, <1>5, <2>3, <2>6 DEF Unused
        <4>2. HeldOf(block)[a] = 0
          BY <4>1, HeldIs
        <4>3. HeldOf(c)[h] = 0 /\ HeldOf(c)[a] = c[a].next - a - Header
          BY <2>3, <4>1, HeldIs
        <4> QED  BY <2>3, <4>2, <4>3
      <3>2. AlikeBut({h, a}, block, c)
        BY <2>3, <2>6 DEF Unused, AlikeBut
      <3>3. h # a
        BY <1>2, <2>3
      <3>4. MH!Total(HeldOf(c), T) = available + (HeldOf(c)[h] - HeldOf(block)[h])
                                               + (HeldOf(c)[a] - HeldOf(block)[a])
        BY <1>3, <1>5, <2>3, <2>4, <3>2, <3>3, CounterTwo
      <3>5. available \in Int
        BY <1>3, HeldTotal
      <3>6. MH!Total(HeldOf(c), T) = available + (0 - (e - h - Header)) + (e - a - Header - 0)
        BY <1>5, <3>1, <3>4
      <3> QED  BY SMTT(40), <1>2, <2>1, <3>5, <3>6 DEF a
    <2>8. /\ <<a>> \o MH!RemoveFirst(free_list, h) \in Seq((Unused(block) \ {h}) \cup {a})
          /\ Distinct(<<a>> \o MH!RemoveFirst(free_list, h))
          /\ ToSet(<<a>> \o MH!RemoveFirst(free_list, h)) = (Unused(block) \ {h}) \cup {a}
      <3>1. a \notin ToSet(free_list) \ {h}
        BY <1>3, <2>3 DEF Unused
      <3> DEFINE q == <<a>> \o MH!RemoveFirst(free_list, h)
      <3>2. /\ q \in Seq((ToSet(free_list) \ {h}) \cup {a}) /\ Distinct(q)
            /\ ToSet(q) = (ToSet(free_list) \ {h}) \cup {a}
        <4> HIDE DEF D
        <4> QED  BY <1>3, <3>1, Relisted, ZenonT(40)
      <3> HIDE DEF q
      <3>3. /\ q \in Seq((Unused(block) \ {h}) \cup {a}) /\ Distinct(q)
            /\ ToSet(q) = (Unused(block) \ {h}) \cup {a}
        BY <1>3, <3>2
      <3> QED  BY <3>3 DEF q
    <2>9. Listed(c, free_list', available')
      BY <2>1, <2>6, <2>7, <2>8, ListedIs, Zenon
    <2>10. UsedOf(c) = UsedOf(block) \cup {h} /\ \A x \in UsedOf(block) : c[x].next = block[x].next
      <3>1. \A x \in UsedOf(block) : x \in D /\ x # h
        BY <1>6 DEF UsedOf
      <3>2. \A x \in UsedOf(block) : c[x].next = block[x].next
        BY <2>3, <3>1
      <3>3. \A x : x \in UsedOf(c) <=> x \in UsedOf(block) \/ x = h
        BY <1>2, <2>3 DEF UsedOf
      <3> QED  BY <3>2, <3>3
    <2>11. c[h].next - h - Header >= n
      BY <1>2, <2>3 DEF a
    <2> QED  BY <1>6, <2>3, <2>5, <2>9, <2>10, <2>11 DEF c
  <1>9. CASE ~ (MH!SizeOf(h) >= n + Header + Mini)
    <2>1. /\ c = [block EXCEPT ![h].used = TRUE] /\ free_list' = MH!RemoveFirst(free_list, h)
          /\ available' = available - (e - h - Header)
      BY <1>4, <1>9 DEF MH!Cut
    <2>2. /\ DOMAIN c = D /\ c[h].next = e /\ c[h].used /\ c[h].prev = block[h].prev
          /\ \A x \in D : x # h => c[x] = block[x]
      BY <1>1, <1>2, <2>1 DEF HeapBlock
    <2>3. \A x \in D : /\ c[x].next = block[x].next /\ c[x].prev = block[x].prev
                       /\ x # h => c[x].used = block[x].used
      BY <1>2, <2>2
    <2>4. Tile(c)
      <3>1. NextOf(c) = NextOf(block) /\ PrevOf(c) = PrevOf(block)
        BY <2>2, <2>3 DEF NextOf, PrevOf
      <3>2. c \in [D -> HeapBlock]
        <4>1. c[h] \in HeapBlock
          <5>1. block[h] \in HeapBlock
            BY <1>1, <1>2
          <5> QED  BY <1>2, <2>1, <5>1, Zenon DEF HeapBlock
        <4>2. \A x \in D : c[x] \in HeapBlock
          BY <1>1, <2>2, <4>1, Zenon
        <4> QED  BY <2>1, <4>2, Zenon
      <3> QED  BY <1>1, <1>2, <2>2, <3>1, <3>2 DEF Tile
    <2> HIDE DEF c, e
    <2>5. Separate(c)
      BY <1>1, <1>2, <2>2, <2>3, Zenon DEF Separate
    <2>6. Unused(c) = Unused(block) \ {h}
      BY <2>2, <2>3 DEF Unused
    <2>7. available' = MH!Total(HeldOf(c), T)
      <3>1. HeldOf(c)[h] = 0
        <4>1. h \in Address \ Unused(c)
          BY <1>5, <2>6
        <4> QED  BY <2>4, <4>1, HeldIs
      <3>2. AlikeBut({h}, block, c)
        BY <2>3, <2>6 DEF Unused, AlikeBut
      <3>3. MH!Total(HeldOf(c), T) = available + (HeldOf(c)[h] - HeldOf(block)[h])
        BY <1>3, <1>5, <2>4, <3>2, CounterOne
      <3>4. available \in Int
        BY <1>3, HeldTotal
      <3> QED  BY <1>2, <1>5, <2>1, <3>1, <3>3, <3>4
    <2>8. /\ MH!RemoveFirst(free_list, h) \in Seq(Unused(block) \ {h})
          /\ Distinct(MH!RemoveFirst(free_list, h))
          /\ ToSet(MH!RemoveFirst(free_list, h)) = Unused(block) \ {h}
      <3>1. h \notin ToSet(free_list) \ {h}
        OBVIOUS
      <3> QED  BY <1>3, <3>1, Relisted, Zenon
    <2>9. Listed(c, free_list', available')
      BY <2>1, <2>6, <2>7, <2>8, ListedIs, Zenon
    <2>10. UsedOf(c) = UsedOf(block) \cup {h} /\ \A x \in UsedOf(block) : c[x].next = block[x].next
      BY <1>2, <2>2, <2>3 DEF UsedOf
    <2>11. c[h].next - h - Header >= n
      BY <1>2, <2>2 DEF e
    <2> QED  BY <1>6, <2>4, <2>5, <2>9, <2>10, <2>11 DEF c
  <1> QED  BY <1>8, <1>9

\* What becomes of the ring when the used block h joins its free neighbours and
\* the block at l then reaches to e.
Merged(c, h, l, r, e) ==
    /\ Tile(c) /\ Separate(c)
    /\ Unused(c) = (Unused(block) \ {r}) \cup {l}
    /\ UsedOf(c) = UsedOf(block) \ {h} /\ c[l].next = e
    /\ \A x \in DOMAIN c : x # l => c[x].next = block[x].next
    /\ l \in Address \ {MH!Tailer} /\ h \in Nat /\ r \in Nat /\ e \in Nat /\ h \in Address
    /\ l # r /\ r \in Address
    /\ MH!IsFree(r) => r # MH!Tailer /\ r \in Unused(block)
    /\ ~ MH!IsFree(r) => r \notin Unused(block)
    /\ l # h => l \in Unused(block) /\ block[l].next = h
    /\ l = h => l \notin Unused(block)

\* A used block is merged with its free neighbours.
LEMMA MergedKeeps ==
    ASSUME MH!MemHeapAssumption, Tile(block), Separate(block), NEW h \in UsedOf(block),
           NEW l, l = IF MH!IsFree(block[h].prev) THEN block[h].prev ELSE h,
           NEW r, r = block[h].next,
           NEW e, e = IF MH!IsFree(r) THEN block[r].next ELSE r,
           NEW c, c = MH!Relink(l, e, FALSE, {h, r} \ {l, e})
    PROVE  Merged(c, h, l, r, e)
  <1> DEFINE D == DOMAIN block
             T == MH!Tailer
             G == {h, r} \ {l, e}
  <1>0. Header \in Nat /\ Header > 0
    BY HeapSizes
  <1>1. /\ {0, T} \subseteq D /\ D \subseteq Address
        /\ \A x \in D : /\ x \in Nat /\ x <= T
                        /\ block[x].next \in D /\ block[x].prev \in D
                        /\ block[block[x].prev].next = x
        /\ \A x \in D : x # T => x + Header <= block[x].next
        /\ block[T].used
    BY TileFacts, Zenon
  <1>2. h \in D /\ h # T /\ block[h].used /\ r \in D /\ h + Header <= r
    <2>1. h \in D /\ h # T /\ block[h].used
      BY DEF UsedOf
    <2> QED  BY <1>1, <2>1
  <1>3. \A x : MH!IsFree(x) <=> ~ block[x].used
    BY DEF MH!IsFree
  <1>4. \A x \in D : block[x].used \/ block[block[x].next].used
    BY DEF Separate
  <1>5. /\ l \in D /\ l # T /\ e \in D
        /\ block[r].used => e = r
        /\ ~ block[r].used => e = block[r].next /\ block[e].used /\ r # T /\ r + Header <= e
        /\ l # h => ~ block[l].used /\ block[l].next = h /\ l + Header <= h
    <2>1. l \in D /\ l # T /\ (l # h => ~ block[l].used /\ block[l].next = h)
      BY <1>1, <1>2, <1>3, Zenon
    <2>2. l # h => l + Header <= h
      BY <1>1, <2>1, Zenon
    <2>3. block[r].used => e = r
      BY <1>3
    <2>4. ~ block[r].used => e = block[r].next /\ block[e].used /\ r # T /\ r + Header <= e
      BY <1>1, <1>2, <1>3, <1>4, Zenon
    <2>5. e \in D
      BY <1>1, <1>2, <2>3, <2>4, Zenon
    <2> QED  BY <2>1, <2>2, <2>3, <2>4, <2>5
  <1>6. block[e].used
    BY <1>5
  <1>7. /\ l \in Nat /\ h \in Nat /\ r \in Nat /\ e \in Nat /\ h < r /\ r <= e /\ l <= h
        /\ (r # e => r < e) /\ (l # h => l < h)
    <2>1. l \in Nat /\ h \in Nat /\ r \in Nat /\ e \in Nat
      BY <1>1, <1>2, <1>5, Zenon
    <2>2. h < r
      BY <1>0, <1>2, <2>1
    <2>3. r <= e /\ (r # e => r < e)
      BY <1>0, <1>5, <2>1
    <2>4. l <= h /\ (l # h => l < h)
      BY <1>0, <1>5, <2>1
    <2> QED  BY <2>1, <2>2, <2>3, <2>4
  <1>8. /\ Tile(c) /\ DOMAIN c = D \ G /\ c[l].next = e /\ ~ c[l].used
        /\ \A x \in DOMAIN c : x # l => c[x].next = block[x].next /\ c[x].used = block[x].used
        /\ l \notin G /\ e \notin G
    <2>1. CASE l = h /\ block[r].used
      <3>1. G = {} /\ e = block[l].next
        BY <1>5, <2>1
      <3>2. c = MH!Relink(l, block[l].next, FALSE, {})
        BY <3>1, Zenon
      <3>3. l \in DOMAIN block /\ l # MH!Tailer /\ FALSE \in BOOLEAN
        BY <1>5
      <3> HIDE DEF D, G
      <3>4. Rejoined(c, l, block[l].next, FALSE, {})
        BY <3>2, <3>3, RelinkSame, Zenon
      <3> QED  BY <3>1, <3>4, Zenon DEF D, Rejoined
    <2>2. CASE l = h /\ ~ block[r].used
      <3>1. G = {r}
        BY <1>5, <1>7, <2>2
      <3>2. c = MH!Relink(l, e, FALSE, {r}) /\ r = block[l].next /\ e = block[r].next /\ r # T
        BY <1>5, <2>2, <3>1, Zenon
      <3>3. l \in DOMAIN block /\ l # MH!Tailer /\ FALSE \in BOOLEAN
        BY <1>5
      <3> HIDE DEF D, G
      <3>4. Rejoined(c, l, e, FALSE, {r})
        BY <3>2, <3>3, RelinkOne, Zenon
      <3> QED  BY <1>7, <2>2, <3>1, <3>4, <1>5, ZenonT(40) DEF D, Rejoined
    <2>3. CASE l # h /\ block[r].used
      <3>1. G = {h}
        BY <1>5, <1>7, <2>3
      <3>2. c = MH!Relink(l, e, FALSE, {h}) /\ h = block[l].next /\ e = block[h].next /\ h # T
        BY <1>2, <1>5, <2>3, <3>1, Zenon
      <3>3. l \in DOMAIN block /\ l # MH!Tailer /\ FALSE \in BOOLEAN
        BY <1>5
      <3> HIDE DEF D, G
      <3>4. Rejoined(c, l, e, FALSE, {h})
        BY <3>2, <3>3, RelinkOne, Zenon
      <3>5. l \notin G /\ e \notin G
        BY <1>5, <1>7, <2>3, <3>1
      <3> QED  BY <3>1, <3>4, <3>5, Zenon DEF D, Rejoined
    <2>4. CASE l # h /\ ~ block[r].used
      <3>1. G = {h, r}
        BY <1>5, <1>7, <2>4
      <3>2. /\ c = MH!Relink(l, e, FALSE, {h, r}) /\ h = block[l].next /\ e = block[r].next
            /\ h # T /\ r # T
        BY <1>2, <1>5, <2>4, <3>1, Zenon
      <3>3. l \in DOMAIN block /\ l # MH!Tailer /\ FALSE \in BOOLEAN
        BY <1>5
      <3> HIDE DEF D, G
      <3>4. Rejoined(c, l, e, FALSE, {h, r})
        BY <3>2, <3>3, RelinkTwo, Zenon
      <3>5. l \notin G /\ e \notin G
        BY <1>5, <1>7, <2>4, <3>1
      <3> QED  BY <3>1, <3>4, <3>5, Zenon DEF D, Rejoined
    <2> QED  BY <2>1, <2>2, <2>3, <2>4, Zenon
  <1>9. \A x : x \in G <=> (x = h /\ l # h) \/ (x = r /\ ~ block[r].used)
    BY <1>5, <1>7, <1>6
  <1> HIDE DEF G
  <1>a. \A x : x \in DOMAIN c <=> x \in D /\ x \notin G
    BY <1>8, Zenon
  <1>c. \A x \in DOMAIN c : x # l => c[x].next = block[x].next /\ c[x].used = block[x].used
    BY <1>8, Zenon
  <1>b. e \in DOMAIN c /\ c[e].used /\ l \in DOMAIN c
    <2>1. e \in DOMAIN c /\ l \in DOMAIN c
      BY <1>5, <1>8, <1>a, Zenon
    <2>2. e # l
      BY <1>7
    <2>3. c[e].used = block[e].used
      BY <1>c, <2>1, <2>2, Zenon
    <2> QED  BY <1>6, <2>1, <2>3, Zenon
  <1>d. \A x \in DOMAIN c : c[x].next \in DOMAIN c
    <2>1. Tile(c) /\ MH!MemHeapAssumption
      BY <1>8, Zenon
    <2> QED  BY ONLY <2>1, LinksStay
  <1>10. Separate(c)
    <2> SUFFICES ASSUME NEW x \in DOMAIN c PROVE c[x].used \/ c[c[x].next].used
      BY Zenon DEF Separate
    <2>1. CASE x = l
      BY <1>8, <1>b, <2>1, Zenon
    <2>2. CASE x # l
      <3>1. c[x].next = block[x].next /\ c[x].used = block[x].used
        BY <1>c, <2>2, Zenon
      <3>2. c[x].next \in DOMAIN c
        BY <1>d, Zenon
      <3>3. CASE block[x].next = l
        <4>1. block[x].used
          <5>1. l # h => block[x].used
            <6>1. x \in D
              BY <1>a, Zenon
            <6>2. block[x].used \/ block[l].used
              BY <1>4, <3>3, <6>1
            <6> QED  BY <1>5, <6>2
          <5>2. l = h => block[x].used
            <6>1. SUFFICES ASSUME l = h PROVE block[x].used
              OBVIOUS
            <6>2. block[h].prev = x
              <7>1. x \in DOMAIN block
                BY <1>a, Zenon
              <7>2. block[block[x].next].prev = x
                BY <7>1, TileFacts
              <7> QED  BY <3>3, <6>1, <7>2
            <6>3. x # h
              BY <2>2, <6>1
            <6> QED  BY <1>3, <6>1, <6>2, <6>3
          <5> QED  BY <5>1, <5>2
        <4> QED  BY <3>1, <4>1, Zenon
      <3>4. CASE block[x].next # l
        <4>1. c[block[x].next].used = block[block[x].next].used
          BY <1>c, <3>1, <3>2, <3>4, Zenon
        <4>2. block[x].used \/ block[block[x].next].used
          BY <1>4, <1>a, Zenon
        <4> QED  BY <3>1, <4>1, <4>2, Zenon
      <3> QED  BY <3>3, <3>4, Zenon
    <2> QED  BY <2>1, <2>2, Zenon
  <1>11. Unused(c) = (Unused(block) \ {r}) \cup {l}
    <2>1. \A x : x \in Unused(c) <=> x \in DOMAIN c /\ ~ c[x].used
      BY DEF Unused
    <2>2. \A x : x \in Unused(block) <=> x \in D /\ ~ block[x].used
      BY DEF Unused
    <2>3. l \in Unused(c)
      BY <1>8, <1>b, <2>1, ZenonT(40)
    <2>4. \A x : x # l => (x \in Unused(c) <=> x \in Unused(block) /\ x # r)
      <3> SUFFICES ASSUME NEW x, x # l
                   PROVE  x \in Unused(c) <=> x \in Unused(block) /\ x # r
        BY Zenon
      <3>1. x \in DOMAIN c <=> x \in D /\ ~ (x = h /\ l # h) /\ ~ (x = r /\ ~ block[r].used)
        BY <1>9, <1>a, Zenon
      <3>2. x \in DOMAIN c => c[x].used = block[x].used
        BY <1>c, Zenon
      <3> QED  BY <1>2, <2>1, <2>2, <3>1, <3>2, Zenon
    <2> QED  BY <2>3, <2>4, Zenon
  <1>12. UsedOf(c) = UsedOf(block) \ {h}
    <2>1. \A x : x \in UsedOf(c) <=> x \in DOMAIN c /\ x # T /\ c[x].used
      BY DEF UsedOf
    <2>2. \A x : x \in UsedOf(block) <=> x \in D /\ x # T /\ block[x].used
      BY DEF UsedOf
    <2>3. l \notin UsedOf(c) /\ h \notin UsedOf(c)
      <3>1. l \notin UsedOf(c)
        BY <1>8, <2>1, Zenon
      <3>2. l # h => h \notin DOMAIN c
        BY <1>9, <1>a, Zenon
      <3> QED  BY <2>1, <3>1, <3>2, Zenon
    <2>4. l # h => l \notin UsedOf(block)
      BY <1>5, <2>2
    <2>5. \A x : x # l /\ x # h => (x \in UsedOf(c) <=> x \in UsedOf(block))
      <3> SUFFICES ASSUME NEW x, x # l, x # h
                   PROVE  x \in UsedOf(c) <=> x \in UsedOf(block)
        BY Zenon
      <3>1. x \in DOMAIN c <=> x \in D /\ ~ (x = r /\ ~ block[r].used)
        BY <1>9, <1>a, Zenon
      <3>2. x \in DOMAIN c => c[x].used = block[x].used
        BY <1>c, Zenon
      <3> QED  BY <2>1, <2>2, <3>1, <3>2, ZenonT(40)
    <2> QED  BY <2>3, <2>4, <2>5, Zenon
  <1>13. \A x : x \in Unused(block) <=> x \in D /\ ~ block[x].used
    BY DEF Unused
  <1>14. l # r
    BY <1>7
  <1>15. /\ l \in Address \ {MH!Tailer} /\ h \in Nat /\ r \in Nat /\ e \in Nat
         /\ h \in Address /\ r \in Address
    BY <1>1, <1>2, <1>5, <1>7, Zenon
  <1>16. /\ MH!IsFree(r) => r # MH!Tailer /\ r \in Unused(block)
         /\ ~ MH!IsFree(r) => r \notin Unused(block)
    BY <1>2, <1>3, <1>5, <1>13
  <1>17. /\ l # h => l \in Unused(block) /\ block[l].next = h
         /\ l = h => l \notin Unused(block)
    BY <1>2, <1>5, <1>13
  <1>18. \A x \in DOMAIN c : x # l => c[x].next = block[x].next
    BY <1>c, Zenon
  <1>19. Tile(c) /\ c[l].next = e
    BY <1>8, Zenon
  <1> QED  BY <1>10, <1>11, <1>12, <1>14, <1>15, <1>16, <1>17, <1>18, <1>19, Zenon DEF Merged

LEMMA ReleaseKeeps ==
    ASSUME MH!MemHeapAssumption, Tile(block), Separate(block),
           Listed(block, free_list, available), NEW h \in UsedOf(block), MH!Release(h)
    PROVE  /\ Tile(block') /\ Separate(block') /\ Listed(block', free_list', available')
           /\ UsedOf(block') = UsedOf(block) \ {h}
           /\ \A x \in UsedOf(block') : block'[x].next = block[x].next
  <1>0. Header \in Nat /\ Header > 0
    BY HeapSizes
  <1> DEFINE T == MH!Tailer
             l == IF MH!IsFree(block[h].prev) THEN block[h].prev ELSE h
             r == block[h].next
             e == IF MH!IsFree(r) THEN block[r].next ELSE r
             c == block'
             rest == MH!RemoveFirst(free_list, r)
             q == IF l = h THEN <<h>> \o rest ELSE rest
  <1>1. /\ c = MH!Relink(l, e, FALSE, {h, r} \ {l, e}) /\ free_list' = q
        /\ available' = available + (r - h - Header) + (IF l = h THEN 0 ELSE Header)
                                                     + (IF e = r THEN 0 ELSE Header)
    BY DEF MH!Release, MH!Next, MH!SizeOf, MH!Unlisted
  <1> HIDE DEF q
  <1>2. /\ l = IF MH!IsFree(block[h].prev) THEN block[h].prev ELSE h
        /\ r = block[h].next /\ e = IF MH!IsFree(r) THEN block[r].next ELSE r
    OBVIOUS
  <1>3. q = IF l = h THEN <<h>> \o rest ELSE rest
    BY DEF q
  <1> HIDE DEF l, r, e, c, rest
  <1>m. Merged(c, h, l, r, e)
    BY <1>1, <1>2, MergedKeeps, Zenon
  <1>4. /\ Tile(c) /\ Separate(c)
        /\ Unused(c) = (Unused(block) \ {r}) \cup {l}
        /\ UsedOf(c) = UsedOf(block) \ {h} /\ c[l].next = e
        /\ \A x \in DOMAIN c : x # l => c[x].next = block[x].next
        /\ l \in Address \ {T} /\ h \in Nat /\ r \in Nat /\ e \in Nat /\ h \in Address
        /\ l # r /\ r \in Address
        /\ MH!IsFree(r) => r # T /\ r \in Unused(block)
        /\ ~ MH!IsFree(r) => r \notin Unused(block)
        /\ l # h => l \in Unused(block) /\ block[l].next = h
        /\ l = h => l \notin Unused(block)
    BY <1>m DEF Merged
  <1>n. l \in Nat /\ h \in Nat /\ r \in Nat /\ e \in Nat
    BY <1>4 DEF Address
  <1>5. /\ free_list \in Seq(DOMAIN block) /\ Distinct(free_list)
        /\ ToSet(free_list) = Unused(block) /\ available = MH!Total(HeldOf(block), T)
    BY DEF Listed
  <1>6. available \in Int
    BY <1>5, HeldTotal
  <1>7. /\ \A i \in Unused(block) : HeldOf(block)[i] = block[i].next - i - Header
        /\ \A i \in Address \ Unused(block) : HeldOf(block)[i] = 0
    BY HeldIs
  <1>8. /\ \A i \in Unused(c) : HeldOf(c)[i] = c[i].next - i - Header
        /\ \A i \in Address \ Unused(c) : HeldOf(c)[i] = 0
    BY <1>4, HeldIs
  <1>9. HeldOf(c)[l] = e - l - Header /\ l \in Nat
    BY <1>4, <1>8 DEF Address
  <1>10. HeldOf(block)[l] = IF l = h THEN 0 ELSE h - l - Header
    BY <1>4, <1>7
  <1>11. available' = MH!Total(HeldOf(c), T)
    <2>1. CASE MH!IsFree(r)
      <3>1. r \in Address \ {T} /\ r \in Unused(block) /\ r \notin Unused(c)
        BY <1>4, <2>1
      <3>2. HeldOf(block)[r] = e - r - Header /\ HeldOf(c)[r] = 0
        BY <1>2, <1>7, <1>8, <2>1, <3>1
      <3>3. AlikeBut({l, r}, block, c)
        <4>1. \A x \in Unused(c) : x \in DOMAIN c
          BY DEF Unused
        <4>2. \A x \in Address \ {l, r} : x \in Unused(c) <=> x \in Unused(block)
          BY <1>4
        <4>3. \A x \in Address \ {l, r} : x \in Unused(block) => c[x].next = block[x].next
          BY <1>4, <4>1, <4>2
        <4> QED  BY <4>2, <4>3 DEF AlikeBut
      <3>4. MH!Total(HeldOf(c), T) = available + (HeldOf(c)[l] - HeldOf(block)[l])
                                               + (HeldOf(c)[r] - HeldOf(block)[r])
        BY <1>4, <1>5, <3>1, <3>3, CounterTwo
      <3>5. e # r
        <4>1. e = block[r].next /\ r \in DOMAIN block /\ r # T
          BY <1>2, <2>1, <3>1 DEF Unused
        <4>2. r + Header <= block[r].next
          BY <4>1, TileFacts
        <4> QED  BY <1>0, <1>n, <4>1, <4>2
      <3>6. available' = available + (r - h - Header) + (IF l = h THEN 0 ELSE Header) + Header
        BY <1>1, <3>5
      <3>7. MH!Total(HeldOf(c), T) = available + (e - l - Header - (IF l = h THEN 0 ELSE h - l - Header))
                                               + (0 - (e - r - Header))
        BY <1>9, <1>10, <3>2, <3>4
      <3>8. CASE l = h
        BY <1>0, <1>n, <1>6, <3>6, <3>7, <3>8
      <3>9. CASE l # h
        BY <1>0, <1>n, <1>6, <3>6, <3>7, <3>9
      <3> QED  BY <3>8, <3>9
    <2>2. CASE ~ MH!IsFree(r)
      <3>1. e = r /\ r \notin Unused(block)
        BY <1>2, <1>4, <2>2
      <3>2. AlikeBut({l}, block, c)
        <4>1. \A x \in Unused(c) : x \in DOMAIN c
          BY DEF Unused
        <4>2. \A x \in Address \ {l} : x \in Unused(c) <=> x \in Unused(block)
          BY <1>4, <3>1
        <4>3. \A x \in Address \ {l} : x \in Unused(block) => c[x].next = block[x].next
          BY <1>4, <4>1, <4>2
        <4> QED  BY <4>2, <4>3 DEF AlikeBut
      <3>3. MH!Total(HeldOf(c), T) = available + (HeldOf(c)[l] - HeldOf(block)[l])
        BY <1>4, <1>5, <3>2, CounterOne
      <3>4. available' = available + (r - h - Header) + (IF l = h THEN 0 ELSE Header)
        BY <1>0, <1>1, <1>n, <1>6, <3>1
      <3>5. CASE l = h
        BY <1>0, <1>n, <1>6, <1>9, <1>10, <3>1, <3>3, <3>4, <3>5
      <3>6. CASE l # h
        BY <1>0, <1>n, <1>6, <1>9, <1>10, <3>1, <3>3, <3>4, <3>6
      <3> QED  BY <3>5, <3>6
    <2> QED  BY <2>1, <2>2
  <1>12. IsList(q, Unused(c))
    <2>1. IsList(free_list, Unused(block))
      BY <1>5, OwnList
    <2>2. CASE l = h
      <3>1. h \notin Unused(block) \ {r}
        BY <1>4, <2>2
      <3>2. IsList(<<h>> \o rest, (Unused(block) \ {r}) \cup {h})
        BY <2>1, <3>1, HeadList DEF rest
      <3> QED  BY <1>3, <1>4, <2>2, <3>2
    <2>3. CASE l # h
      <3>1. IsList(rest, Unused(block) \ {r})
        BY <2>1, RestList DEF rest
      <3>2. Unused(c) = Unused(block) \ {r}
        BY <1>4, <2>3
      <3> QED  BY <1>3, <2>3, <3>1, <3>2
    <2> QED  BY <2>2, <2>3
  <1>13. Listed(c, free_list', available')
    BY <1>1, <1>11, <1>12, ListIs, Zenon
  <1>14. \A x \in UsedOf(c) : c[x].next = block[x].next
    <2>1. \A x \in UsedOf(c) : x \in DOMAIN c /\ c[x].used
      BY DEF UsedOf
    <2>2. ~ c[l].used
      BY <1>4 DEF Unused
    <2> QED  BY <1>4, <2>1, <2>2
  <1> QED  BY <1>4, <1>13, <1>14 DEF c

\* What becomes of the ring when the used block h ends at a, and the rest up to
\* e, with the block r if that is free, is a free block.
Rested(c, h, r, e, a) ==
    /\ Tile(c) /\ Separate(c)
    /\ Unused(c) = (Unused(block) \ {r}) \cup {a} /\ a \notin Unused(block)
    /\ UsedOf(c) = UsedOf(block) /\ c[h].next = a /\ c[a].next = e
    /\ \A x \in DOMAIN c : x # h /\ x # a => c[x].next = block[x].next
    /\ a \in Address \ {MH!Tailer} /\ r \in Nat /\ e \in Nat /\ a \in Nat /\ r # a
    /\ h \notin Unused(block)
    /\ MH!IsFree(r) => r \in Address \ {MH!Tailer} /\ r \in Unused(block) /\ e # r
    /\ ~ MH!IsFree(r) => r \notin Unused(block) /\ e = r

\* The used block h is to end at a; c is the ring and size the free memory then.
Cut(h, r, e, a, c, size) ==
    /\ h \in UsedOf(block) /\ r = block[h].next
    /\ e = IF MH!IsFree(r) THEN block[r].next ELSE r
    /\ a \in Int /\ h + Header <= a /\ a + Header <= e /\ a # r
    /\ c = MH!Split(MH!Relink(h, e, TRUE, {r} \ {e}), h, a)
    /\ size = available - (IF e = r THEN 0 ELSE MH!SizeOf(r)) + e - a - Header

\* What the cut leaves: the blocks in use are the same, h ends at a, the list is whole.
CutDone(h, r, a, c, size) ==
    /\ Tile(c) /\ Separate(c) /\ Listed(c, <<a>> \o MH!Unlisted(r), size)
    /\ UsedOf(c) = UsedOf(block) /\ c[h].next = a
    /\ \A x \in UsedOf(block) : x # h => c[x].next = block[x].next

LEMMA RestedRing ==
    ASSUME MH!MemHeapAssumption, Tile(block), Separate(block),
           NEW h, NEW r, NEW e, NEW a, NEW c, NEW size, Cut(h, r, e, a, c, size)
    PROVE  Rested(c, h, r, e, a)
  <1> SUFFICES ASSUME h \in UsedOf(block), r = block[h].next,
                      e = (IF MH!IsFree(r) THEN block[r].next ELSE r),
                      a \in Int, h + Header <= a, a + Header <= e, a # r,
                      c = MH!Split(MH!Relink(h, e, TRUE, {r} \ {e}), h, a)
               PROVE  Rested(c, h, r, e, a)
    BY Zenon DEF Cut
  <1>0. Header \in Nat /\ Header > 0
    BY HeapSizes
  <1> DEFINE D == DOMAIN block
             T == MH!Tailer
             G == {r} \ {e}
             g == MH!Relink(h, e, TRUE, G)
  <1>1. /\ {0, T} \subseteq D /\ D \subseteq Address
        /\ \A x \in D : x \in Nat /\ x <= T /\ block[x].next \in D
        /\ \A x \in D : x # T => x + Header <= block[x].next
        /\ block[T].used
    BY TileFacts, Zenon
  <1>2. h \in D /\ h # T /\ block[h].used /\ r \in D /\ h + Header <= r
    <2>1. h \in D /\ h # T /\ block[h].used
      BY DEF UsedOf
    <2> QED  BY <1>1, <2>1
  <1>3. \A x : MH!IsFree(x) <=> ~ block[x].used
    BY DEF MH!IsFree
  <1>4. \A x \in D : block[x].used \/ block[block[x].next].used
    BY DEF Separate
  <1>5. /\ block[r].used => e = r
        /\ ~ block[r].used => e = block[r].next /\ block[e].used /\ r # T /\ r + Header <= e
        /\ e \in D
    <2>1. block[r].used => e = r
      BY <1>3
    <2>2. ~ block[r].used => e = block[r].next /\ block[e].used /\ r # T /\ r + Header <= e
      BY <1>1, <1>2, <1>3, <1>4
    <2> QED  BY <1>1, <1>2, <2>1, <2>2
  <1>6. block[e].used /\ h \in Nat /\ r \in Nat /\ e \in Nat /\ h < r /\ (~ block[r].used => r < e)
    <2>1. h \in Nat /\ r \in Nat /\ e \in Nat
      BY <1>1, <1>2, <1>5
    <2>2. h < r
      BY <1>0, <1>2, <2>1
    <2>3. ~ block[r].used => r < e
      BY <1>0, <1>5, <2>1
    <2> QED  BY <1>5, <2>1, <2>2, <2>3
  <1>7. /\ Tile(g) /\ DOMAIN g = D \ G /\ g[h].next = e /\ g[h].used
        /\ \A x \in DOMAIN g : x # h => g[x].next = block[x].next /\ g[x].used = block[x].used
    <2>1. CASE block[r].used
      <3>1. G = {} /\ e = block[h].next
        BY <1>5, <2>1
      <3>2. g = MH!Relink(h, block[h].next, TRUE, {}) /\ TRUE \in BOOLEAN /\ h \in DOMAIN block
        BY <1>2, <3>1, Zenon
      <3> HIDE DEF D, G, g
      <3>3. Rejoined(g, h, block[h].next, TRUE, {})
        BY <1>2, <3>2, RelinkSame, Zenon
      <3> QED  BY <3>1, <3>3 DEF D, Rejoined
    <2>2. CASE ~ block[r].used
      <3>1. G = {r} /\ e = block[r].next /\ r # T
        BY <1>5, <1>6, <2>2
      <3>2. g = MH!Relink(h, e, TRUE, {r}) /\ TRUE \in BOOLEAN /\ h \in DOMAIN block
        BY <1>2, <3>1, Zenon
      <3> HIDE DEF D, G, g
      <3>3. Rejoined(g, h, e, TRUE, {r})
        BY <1>2, <3>1, <3>2, RelinkOne, Zenon
      <3> QED  BY <3>1, <3>3 DEF D, Rejoined
    <2> QED  BY <2>1, <2>2, Zenon
  <1>8. \A x : x \in G <=> x = r /\ ~ block[r].used
    BY <1>5, <1>6
  <1>9. c = MH!Split(g, h, a)
    OBVIOUS
  <1> HIDE DEF G, g
  <1>a. \A x : x \in DOMAIN g <=> x \in D /\ ~ (x = r /\ ~ block[r].used)
    BY ONLY <1>7, <1>8
  <1>b. h \in DOMAIN g /\ h # T /\ MH!MemHeapAssumption
    BY ONLY <1>2, <1>6, <1>a, MH!MemHeapAssumption
  <1>c. a \in Int /\ h + Header <= a /\ a + Header <= g[h].next
    BY ONLY <1>7, a \in Int, h + Header <= a, a + Header <= e
  <1>d. SplitAt(g, c, h, a)
    BY ONLY <1>7, <1>9, <1>b, <1>c, SplitIs
  <1>10. /\ Tile(c) /\ DOMAIN c = DOMAIN g \cup {a} /\ a \notin DOMAIN g
         /\ c[h].next = a /\ c[h].used /\ c[a].next = e /\ ~ c[a].used
         /\ \A x \in DOMAIN g : x # h => c[x].next = g[x].next /\ c[x].used = g[x].used
         /\ a \in Address
    BY ONLY <1>7, <1>d DEF SplitAt
  <1>11. a \notin D /\ a # h /\ a # T /\ a # r
    <2>1. a # h
      BY ONLY <1>b, <1>10
    <2>2. a # r
      OBVIOUS
    <2>3. a \notin D
      BY ONLY <1>10, <1>a, <2>2
    <2> QED  BY ONLY <1>1, <2>1, <2>2, <2>3
  <1>e. \A x : x \in DOMAIN c <=> x = a \/ (x \in D /\ ~ (x = r /\ ~ block[r].used))
    BY ONLY <1>10, <1>a
  <1>12. \A x : x \in DOMAIN c /\ x # h /\ x # a =>
                    c[x].next = block[x].next /\ c[x].used = block[x].used
    <2> SUFFICES ASSUME NEW x, x \in DOMAIN c, x # h, x # a
                 PROVE  c[x].next = block[x].next /\ c[x].used = block[x].used
      BY Zenon
    <2>1. x \in DOMAIN g
      BY ONLY <1>10, x \in DOMAIN c, x # a
    <2> QED  BY ONLY <1>7, <1>10, <2>1, x # h
  <1>f. \A x \in DOMAIN c : c[x].next \in DOMAIN c
    BY ONLY <1>10, <1>b, LinksStay
  <1>g. e \in DOMAIN c /\ e # h /\ e # a /\ c[e].used
    <2>1. e # h
      <3>1. h < e
        BY ONLY <1>5, <1>6
      <3> QED  BY ONLY <1>6, <3>1
    <2>2. e # a
      BY ONLY <1>5, <1>11
    <2>3. e \in DOMAIN c
      BY ONLY <1>5, <1>6, <1>e
    <2> QED  BY ONLY <1>6, <1>12, <2>1, <2>2, <2>3
  <1>13. Separate(c)
    <2> SUFFICES ASSUME NEW x \in DOMAIN c PROVE c[x].used \/ c[c[x].next].used
      BY Zenon DEF Separate
    <2>1. CASE x = a
      BY ONLY <1>10, <1>g, <2>1
    <2>2. CASE x = h
      BY ONLY <1>10, <2>2
    <2>3. CASE x # a /\ x # h
      <3>1. /\ x \in D /\ c[x].next = block[x].next /\ c[x].used = block[x].used
            /\ block[x].next \in D /\ block[x].next \in DOMAIN c
        BY ONLY <1>1, <1>12, <1>e, <1>f, <2>3, x \in DOMAIN c
      <3>2. block[x].used \/ block[block[x].next].used
        BY ONLY <1>4, <3>1
      <3>3. block[x].next # h => c[block[x].next].used = block[block[x].next].used
        BY ONLY <1>11, <1>12, <3>1
      <3>4. c[h].used
        BY ONLY <1>10
      <3> QED  BY ONLY <3>1, <3>2, <3>3, <3>4
    <2> QED  BY <2>1, <2>2, <2>3, Zenon
  <1>14. \A x : x \in Unused(block) <=> x \in D /\ ~ block[x].used
    BY DEF Unused
  <1>15. Unused(c) = (Unused(block) \ {r}) \cup {a}
    <2>1. \A x : x \in Unused(c) <=> x \in DOMAIN c /\ ~ c[x].used
      BY DEF Unused
    <2>2. a \in Unused(c) /\ h \notin Unused(c) /\ h \notin Unused(block)
      BY ONLY <1>2, <1>10, <1>14, <1>e, <2>1
    <2>3. \A x : x # a /\ x # h => (x \in Unused(c) <=> x \in Unused(block) /\ x # r)
      <3> SUFFICES ASSUME NEW x, x # a, x # h
                   PROVE  x \in Unused(c) <=> x \in Unused(block) /\ x # r
        BY Zenon
      <3>1. x \in DOMAIN c <=> x \in D /\ ~ (x = r /\ ~ block[r].used)
        BY ONLY <1>e, x # a
      <3>2. x \in DOMAIN c => c[x].used = block[x].used
        BY ONLY <1>12, x # a, x # h
      <3> QED  BY ONLY <1>14, <2>1, <3>1, <3>2
    <2>4. h # r
      BY ONLY <1>6
    <2> QED  BY ONLY <2>2, <2>3, <2>4
  <1>16. UsedOf(c) = UsedOf(block)
    <2>1. \A x : x \in UsedOf(c) <=> x \in DOMAIN c /\ x # T /\ c[x].used
      BY DEF UsedOf
    <2>2. \A x : x \in UsedOf(block) <=> x \in D /\ x # T /\ block[x].used
      BY DEF UsedOf
    <2>3. a \notin UsedOf(c) /\ a \notin UsedOf(block)
      BY ONLY <1>10, <1>11, <2>1, <2>2
    <2>4. h \in UsedOf(c) /\ h \in UsedOf(block)
      BY ONLY <1>2, <1>6, <1>10, <1>e, <2>1, <2>2
    <2>5. \A x : x # a /\ x # h => (x \in UsedOf(c) <=> x \in UsedOf(block))
      <3> SUFFICES ASSUME NEW x, x # a, x # h
                   PROVE  x \in UsedOf(c) <=> x \in UsedOf(block)
        BY Zenon
      <3>1. x \in DOMAIN c <=> x \in D /\ ~ (x = r /\ ~ block[r].used)
        BY ONLY <1>e, x # a
      <3>2. x \in DOMAIN c => c[x].used = block[x].used
        BY ONLY <1>12, x # a, x # h
      <3> QED  BY ONLY <2>1, <2>2, <3>1, <3>2
    <2>6. \A x : x \in UsedOf(c) <=> x \in UsedOf(block)
      BY ONLY <2>3, <2>4, <2>5
    <2> QED  BY ONLY <2>6
  <1>17. a \notin Unused(block) /\ h \notin Unused(block)
    BY ONLY <1>2, <1>11, <1>14
  <1>18. /\ MH!IsFree(r) => r \in Address \ {MH!Tailer} /\ r \in Unused(block) /\ e # r
         /\ ~ MH!IsFree(r) => r \notin Unused(block) /\ e = r
    BY ONLY <1>1, <1>2, <1>3, <1>5, <1>6, <1>14
  <1>19. a \in Nat
    BY ONLY <1>0, <1>6, <1>c
  <1> QED  BY ONLY <1>6, <1>10, <1>11, <1>12, <1>13, <1>15, <1>16, <1>17, <1>18, <1>19 DEF Rested

\* A used block ends at a, and the rest up to the next used one is a free block.
LEMMA RestKeeps ==
    ASSUME MH!MemHeapAssumption, Tile(block), Separate(block),
           Listed(block, free_list, available),
           NEW h, NEW r, NEW e, NEW a, NEW c, NEW size, Cut(h, r, e, a, c, size)
    PROVE  CutDone(h, r, a, c, size)
  <1>t. /\ h \in UsedOf(block) /\ r = block[h].next
        /\ e = (IF MH!IsFree(r) THEN block[r].next ELSE r)
        /\ a \in Int /\ h + Header <= a /\ a + Header <= e /\ a # r
        /\ c = MH!Split(MH!Relink(h, e, TRUE, {r} \ {e}), h, a)
        /\ size = available - (IF e = r THEN 0 ELSE MH!SizeOf(r)) + e - a - Header
    BY DEF Cut
  <1>0. Header \in Nat /\ Header > 0
    BY HeapSizes
  <1> DEFINE T == MH!Tailer
  <1>1. Rested(c, h, r, e, a)
    BY RestedRing
  <1>2. /\ Tile(c) /\ Separate(c)
        /\ Unused(c) = (Unused(block) \ {r}) \cup {a} /\ a \notin Unused(block)
        /\ UsedOf(c) = UsedOf(block) /\ c[h].next = a /\ c[a].next = e
        /\ \A x \in DOMAIN c : x # h /\ x # a => c[x].next = block[x].next
        /\ a \in Address \ {T} /\ r \in Nat /\ e \in Nat /\ a \in Nat /\ r # a
        /\ h \notin Unused(block)
        /\ MH!IsFree(r) => r \in Address \ {T} /\ r \in Unused(block) /\ e # r
        /\ ~ MH!IsFree(r) => r \notin Unused(block) /\ e = r
    BY ONLY <1>1 DEF Rested
  <1>3. MH!IsFree(r) => block[r].next = e
    BY ONLY <1>t
  <1>4. size = available - (IF e = r THEN 0 ELSE MH!SizeOf(r)) + e - a - Header
    BY ONLY <1>t
  <1>5. /\ free_list \in Seq(DOMAIN block) /\ Distinct(free_list)
        /\ ToSet(free_list) = Unused(block) /\ available = MH!Total(HeldOf(block), T)
    BY DEF Listed
  <1>h. MH!MemHeapAssumption /\ Tile(block) /\ h \in UsedOf(block)
    BY <1>t
  <1>6. available \in Int
    BY ONLY <1>5, <1>h, HeldTotal
  <1>7. /\ \A i \in Unused(block) : HeldOf(block)[i] = block[i].next - i - Header
        /\ \A i \in Address \ Unused(block) : HeldOf(block)[i] = 0
    BY ONLY <1>h, HeldIs
  <1>8. /\ \A i \in Unused(c) : HeldOf(c)[i] = c[i].next - i - Header
        /\ \A i \in Address \ Unused(c) : HeldOf(c)[i] = 0
    BY ONLY <1>2, <1>h, HeldIs
  <1>9. HeldOf(c)[a] = e - a - Header /\ HeldOf(block)[a] = 0
    BY ONLY <1>2, <1>7, <1>8
  <1>10. \A x \in Unused(c) : x # a => c[x].next = block[x].next
    <2>1. \A x \in Unused(c) : x \in DOMAIN c
      BY DEF Unused
    <2>2. \A x \in Unused(c) : x # a => x # h
      BY ONLY <1>2
    <2> QED  BY ONLY <1>2, <2>1, <2>2
  <1>11. size = MH!Total(HeldOf(c), T)
    <2>1. CASE MH!IsFree(r)
      <3>1. HeldOf(block)[r] = e - r - Header /\ HeldOf(c)[r] = 0
        BY ONLY <1>2, <1>3, <1>7, <1>8, <2>1
      <3>2. AlikeBut({a, r}, block, c)
        BY ONLY <1>2, <1>10 DEF AlikeBut
      <3>3. MH!Total(HeldOf(c), T) = MH!Total(HeldOf(block), T) + (HeldOf(c)[a] - HeldOf(block)[a])
                                                                + (HeldOf(c)[r] - HeldOf(block)[r])
        BY ONLY <1>2, <1>h, <2>1, <3>2, CounterTwo
      <3>4. MH!SizeOf(r) = e - r - Header
        BY ONLY <1>3, <2>1 DEF MH!SizeOf, MH!Next
      <3>5. size = available - (e - r - Header) + e - a - Header
        BY ONLY <1>2, <1>4, <2>1, <3>4
      <3>6. MH!Total(HeldOf(c), T) = available + (e - a - Header - 0) + (0 - (e - r - Header))
        BY ONLY <1>5, <1>9, <3>1, <3>3
      <3>7. a \in Nat /\ e \in Nat /\ r \in Nat
        BY ONLY <1>2
      <3> QED  BY ONLY <1>0, <1>6, <3>5, <3>6, <3>7
    <2>2. CASE ~ MH!IsFree(r)
      <3>1. AlikeBut({a}, block, c)
        BY ONLY <1>2, <1>10, <2>2 DEF AlikeBut
      <3>2. MH!Total(HeldOf(c), T) = MH!Total(HeldOf(block), T) + (HeldOf(c)[a] - HeldOf(block)[a])
        BY ONLY <1>2, <1>h, <3>1, CounterOne
      <3>3. size = available - 0 + e - a - Header
        BY ONLY <1>2, <1>4, <2>2
      <3>4. MH!Total(HeldOf(c), T) = available + (e - a - Header - 0)
        BY ONLY <1>5, <1>9, <3>2
      <3>5. a \in Nat /\ e \in Nat /\ r \in Nat
        BY ONLY <1>2
      <3> QED  BY ONLY <1>0, <1>6, <3>3, <3>4, <3>5
    <2> QED  BY ONLY <2>1, <2>2
  <1>12. Listed(c, <<a>> \o MH!Unlisted(r), size)
    <2>1. a \notin Unused(block) \ {r} /\ MH!Unlisted(r) = MH!RemoveFirst(free_list, r)
      BY ONLY <1>2 DEF MH!Unlisted
    <2>2. IsList(free_list, Unused(block))
      BY ONLY <1>5, OwnList
    <2> DEFINE q == <<a>> \o MH!RemoveFirst(free_list, r)
    <2>3. IsList(q, (Unused(block) \ {r}) \cup {a})
      BY ONLY <2>1, <2>2, HeadList
    <2> HIDE DEF q
    <2>4. IsList(q, Unused(c))
      BY ONLY <1>2, <2>3
    <2>5. Listed(c, q, size)
      BY ONLY <1>11, <2>4, ListIs
    <2> QED  BY <2>1, <2>5 DEF q
  <1>13. \A x \in UsedOf(block) : x # h => c[x].next = block[x].next
    <2>1. \A x \in UsedOf(c) : x \in DOMAIN c
      BY DEF UsedOf
    <2>2. a \notin UsedOf(c)
      <3>1. a \in Unused(c)
        BY ONLY <1>2
      <3> QED  BY <3>1 DEF Unused, UsedOf
    <2> QED  BY ONLY <1>2, <2>1, <2>2
  <1> QED  BY ONLY <1>2, <1>12, <1>13 DEF CutDone

-----------------------------------------------------------------------------
(* The heap's steps *)

LEMMA FittingIs ==
    ASSUME MH!MemHeapAssumption, Tile(block), Listed(block, free_list, available), NEW n \in Nat,
           MH!Fitting(n) > 0
    PROVE  /\ free_list[MH!Fitting(n)] \in Unused(block)
           /\ block[free_list[MH!Fitting(n)]].next - free_list[MH!Fitting(n)] - Header >= n
  <1> DEFINE I == {i \in 1 .. Len(free_list) : MH!SizeOf(free_list[i]) >= n}
  <1>1. MH!Fitting(n) = IF I # {} THEN Min(I) ELSE 0
    BY Zenon DEF MH!Fitting, MH!SelectInSeq, MH!Min, Min
  <1>2. free_list \in Seq(DOMAIN block) /\ ToSet(free_list) = Unused(block)
    BY DEF Listed
  <1>3. I \in SUBSET (1 .. Len(free_list))
    OBVIOUS
  <1>4. ASSUME NEW i \in I
        PROVE  free_list[i] \in Unused(block) /\ block[free_list[i]].next - free_list[i] - Header >= n
    <2>1. i \in DOMAIN free_list /\ MH!SizeOf(free_list[i]) >= n
      BY <1>2, LenProperties
    <2>2. free_list[i] \in ToSet(free_list)
      BY <2>1 DEF ToSet
    <2> QED  BY <1>2, <2>1, <2>2 DEF MH!SizeOf, MH!Next
  <1> HIDE DEF I
  <1>5. CASE I # {}
    <2>1. MH!Fitting(n) = Min(I) /\ Min(I) \in I
      BY <1>1, <1>2, <1>3, <1>5, SelectPosition
    <2> QED  BY <1>4, <2>1
  <1>6. CASE I = {}
    <2>1. MH!Fitting(n) = 0
      BY <1>1, <1>6
    <2> QED  BY <2>1
  <1> QED  BY <1>5, <1>6

\* A block is lent, or lent for another size.
LEMMA LendKeeps ==
    ASSUME MH!MemHeapAssumption, Serves(block, lent), NEW h, NEW n \in Request, NEW b,
           UsedOf(b) = UsedOf(block) \cup {h},
           \A x \in UsedOf(block) : x # h => b[x].next = block[x].next,
           b[h].next - h - Header >= n, MH!Lend(h, n)
    PROVE  Serves(b, lent') /\ DOMAIN lent' = DOMAIN lent \cup {h}
  <1>1. lent' = [x \in DOMAIN lent \cup {h} |-> IF x = h THEN n ELSE lent[x]]
    BY DEF MH!Lend
  <1>2. lent \in [UsedOf(block) -> Request] /\ \A x \in DOMAIN lent : block[x].next - x - Header >= lent[x]
    BY DEF Serves
  <1>3. DOMAIN lent' = UsedOf(b) /\ DOMAIN lent = UsedOf(block)
    BY <1>1, <1>2
  <1>4. \A x \in DOMAIN lent' : lent'[x] = IF x = h THEN n ELSE lent[x]
    BY <1>1
  <1>5. \A x \in UsedOf(b) : lent'[x] \in Request
    BY <1>2, <1>3, <1>4
  <1>6. lent' \in [UsedOf(b) -> Request]
    BY <1>1, <1>3, <1>5, Zenon
  <1>7. \A x \in DOMAIN lent' : b[x].next - x - Header >= lent'[x]
    BY <1>2, <1>3, <1>4
  <1> QED  BY <1>1, <1>6, <1>7 DEF Serves

\* A block is given back.
LEMMA TakeBackKeeps ==
    ASSUME MH!MemHeapAssumption, Serves(block, lent), NEW h, NEW b,
           UsedOf(b) = UsedOf(block) \ {h},
           \A x \in UsedOf(b) : b[x].next = block[x].next,
           lent' = [x \in DOMAIN lent \ {h} |-> lent[x]]
    PROVE  Serves(b, lent') /\ DOMAIN lent' = DOMAIN lent \ {h}
  BY DEF Serves

\* A task goes on in its call, or ends it.
LEMMA GoKeeps ==
    ASSUME HeapCalls, NEW t \in Task, NEW s \in {"run", "search", "move", "copied"},
           NEW n, NEW h, MH!Go(t, s, n, h),
           s # "run" => n \in Request, s = "run" => h = MH!None,
           s \in {"move", "copied"} => h # MH!None, h \in DOMAIN lent' \cup {MH!None},
           \A u \in Task \ {t} : /\ arg[u].old \in DOMAIN lent' \cup {MH!None}
                                 /\ arg[u].old # h \/ h = MH!None
    PROVE  HeapCalls'
  <1>1. /\ step' = [step EXCEPT ![t] = s] /\ arg' = [arg EXCEPT ![t] = [size |-> n, old |-> h]]
    BY DEF MH!Go
  <1>2. /\ step \in [Task -> {"run", "search", "move", "copied"}] /\ DOMAIN arg = Task
        /\ \A u \in Task :
              /\ step[u] # "run" => arg[u].size \in Request
              /\ step[u] = "run" => arg[u].old = MH!None
              /\ step[u] \in {"move", "copied"} => arg[u].old # MH!None
        /\ \A u, v \in Task : u # v => arg[u].old # arg[v].old \/ arg[u].old = MH!None
    BY DEF HeapCalls
  <1>3. /\ step'[t] = s /\ arg'[t].size = n /\ arg'[t].old = h /\ DOMAIN arg' = Task
        /\ \A u \in Task \ {t} : step'[u] = step[u] /\ arg'[u] = arg[u]
        /\ step' \in [Task -> {"run", "search", "move", "copied"}]
    BY <1>1, <1>2
  <1>4. \A u \in Task :
           /\ step'[u] # "run" => arg'[u].size \in Request
           /\ step'[u] = "run" => arg'[u].old = MH!None
           /\ step'[u] \in {"move", "copied"} => arg'[u].old # MH!None
           /\ arg'[u].old \in DOMAIN lent' \cup {MH!None}
    <2> TAKE u \in Task
    <2>1. CASE u = t
      BY <1>3, <2>1
    <2>2. CASE u # t
      BY <1>2, <1>3, <2>2
    <2> QED  BY <2>1, <2>2
  <1>5. \A u, v \in Task : u # v => arg'[u].old # arg'[v].old \/ arg'[u].old = MH!None
    <2> SUFFICES ASSUME NEW u \in Task, NEW v \in Task, u # v
                 PROVE  arg'[u].old # arg'[v].old \/ arg'[u].old = MH!None
      OBVIOUS
    <2>1. CASE u = t
      BY <1>3, <2>1
    <2>2. CASE v = t
      BY <1>3, <2>2
    <2>3. CASE u # t /\ v # t
      BY <1>2, <1>3, <2>3
    <2> QED  BY <2>1, <2>2, <2>3
  <1> QED  BY <1>3, <1>4, <1>5 DEF HeapCalls, MH!None

\* Nobody moves on in a call.
LEMMA StayKeeps ==
    ASSUME HeapCalls, UNCHANGED <<step, arg>>,
           \A u \in Task : arg[u].old \in DOMAIN lent' \cup {MH!None}
    PROVE  HeapCalls'
  BY DEF HeapCalls, MH!None

LEMMA HeapStuff ==
    ASSUME HeapInv, UNCHANGED <<block, free_list, available, lent>>, HeapCalls'
    PROVE  HeapInv'
  BY DEF HeapInv, Tile, Separate, Listed, Serves

LEMMA HeapBlocks ==
    ASSUME Tile(block'), Separate(block'), Listed(block', free_list', available'),
           Serves(block', lent'), HeapCalls'
    PROVE  HeapInv'
  BY DEF HeapInv

LEMMA AllocTestKeeps ==
    ASSUME HeapInv, NEW t \in Task, NEW n \in Request, MH!AllocTest(t, n)
    PROVE  HeapInv'
  <1>1. /\ MH!Go(t, "search", n, MH!None) /\ UNCHANGED <<block, free_list, available, lent>>
    BY DEF MH!AllocTest
  <1>2. HeapCalls
    BY DEF HeapInv
  <1>3. \A u \in Task : arg[u].old \in DOMAIN lent' \cup {MH!None}
    BY <1>1, <1>2 DEF HeapCalls
  <1>4. HeapCalls'
    BY <1>1, <1>2, <1>3, GoKeeps
  <1> QED  BY <1>1, <1>4, HeapStuff

LEMMA MoveTestKeeps ==
    ASSUME HeapInv, NEW t \in Task, MH!MoveTest(t)
    PROVE  HeapInv'
  <1>1. step[t] = "move" /\ UNCHANGED <<block, free_list, available, lent>>
    BY DEF MH!MoveTest
  <1>2. HeapCalls
    BY DEF HeapInv
  <1>3. \A u \in Task : arg[u].old \in DOMAIN lent' \cup {MH!None}
    BY <1>1, <1>2 DEF HeapCalls
  <1>4. /\ arg[t].size \in Request /\ arg[t].old # MH!None
        /\ \A u \in Task \ {t} : arg[u].old # arg[t].old
    BY <1>1, <1>2 DEF HeapCalls
  <1>5. CASE MH!Go(t, "search", arg[t].size, arg[t].old)
    <2>1. HeapCalls'
      BY <1>2, <1>3, <1>4, <1>5, GoKeeps
    <2> QED  BY <1>1, <2>1, HeapStuff
  <1>6. CASE MH!Go(t, "run", 0, MH!None)
    <2>1. HeapCalls'
      BY <1>2, <1>3, <1>6, GoKeeps
    <2> QED  BY <1>1, <2>1, HeapStuff
  <1> QED  BY <1>5, <1>6 DEF MH!MoveTest, MH!Done

LEMMA AllocFailKeeps ==
    ASSUME HeapInv, NEW t \in Task, MH!AllocFail(t)
    PROVE  HeapInv'
  <1>1. MH!Go(t, "run", 0, MH!None) /\ UNCHANGED <<block, free_list, available, lent>>
    BY DEF MH!AllocFail, MH!Done
  <1>2. HeapCalls
    BY DEF HeapInv
  <1>3. \A u \in Task : arg[u].old \in DOMAIN lent' \cup {MH!None}
    BY <1>1, <1>2 DEF HeapCalls
  <1>4. HeapCalls'
    BY <1>1, <1>2, <1>3, GoKeeps
  <1> QED  BY <1>1, <1>4, HeapStuff

LEMMA MoveBeginKeeps ==
    ASSUME HeapInv, MH!MemHeapAssumption, NEW t \in Task, NEW h \in DOMAIN lent, NEW n \in Request,
           MH!MoveBegin(t, h, n)
    PROVE  HeapInv'
  <1>1. /\ MH!Go(t, "move", n, h) /\ UNCHANGED <<block, free_list, available, lent>>
        /\ ~ MH!InHand(h)
    BY DEF MH!MoveBegin
  <1>2. HeapCalls /\ Serves(block, lent) /\ Tile(block)
    BY DEF HeapInv
  <1>3. \A u \in Task : arg[u].old \in DOMAIN lent' \cup {MH!None}
    BY <1>1, <1>2 DEF HeapCalls
  <1>4. h # MH!None /\ \A u \in Task : arg[u].old # h
    <2>1. h \in Nat
      BY <1>2, TileFacts DEF Serves, UsedOf
    <2> QED  BY <1>1, <2>1 DEF MH!InHand, MH!None
  <1>5. h \in DOMAIN lent'
    BY <1>1
  <1>6. HeapCalls'
    BY <1>1, <1>2, <1>3, <1>4, <1>5, GoKeeps
  <1> QED  BY <1>1, <1>6, HeapStuff

LEMMA AllocFindKeeps ==
    ASSUME HeapInv, MH!MemHeapAssumption, NEW t \in Task, MH!AllocFind(t)
    PROVE  HeapInv'
  <1> USE HeapSizes
  <1> DEFINE n == arg[t].size
             h == free_list[MH!Fitting(n)]
             old == arg[t].old
  <1>1. /\ step[t] = "search" /\ MH!Fitting(n) > 0 /\ MH!Cut(h, n) /\ MH!Lend(h, n)
        /\ \/ MH!Go(t, "run", 0, MH!None) /\ old = MH!None
           \/ MH!Go(t, "copied", n, old) /\ old # MH!None
    BY DEF MH!AllocFind, MH!Done
  <1>2. /\ HeapCalls /\ Serves(block, lent) /\ Tile(block) /\ Separate(block)
        /\ Listed(block, free_list, available)
    BY DEF HeapInv
  <1>3. n \in Request /\ n \in Nat
    BY <1>1, <1>2 DEF HeapCalls
  <1>4. h \in Unused(block) /\ block[h].next - h - Header >= n
    BY <1>1, <1>2, <1>3, FittingIs
  <1> HIDE DEF h, n, old
  <1>5. /\ Tile(block') /\ Separate(block') /\ Listed(block', free_list', available')
        /\ UsedOf(block') = UsedOf(block) \cup {h}
        /\ \A x \in UsedOf(block) : block'[x].next = block[x].next
        /\ block'[h].next - h - Header >= n
    BY <1>1, <1>2, <1>3, <1>4, CutKeeps
  <1>6. Serves(block', lent') /\ DOMAIN lent' = DOMAIN lent \cup {h}
    BY <1>1, <1>2, <1>3, <1>5, LendKeeps
  <1>7. \A u \in Task : arg[u].old \in DOMAIN lent' \cup {MH!None}
    BY <1>2, <1>6 DEF HeapCalls
  <1>8. HeapCalls'
    <2>1. CASE MH!Go(t, "run", 0, MH!None)
      BY <1>2, <1>7, <2>1, GoKeeps
    <2>2. CASE MH!Go(t, "copied", n, old) /\ old # MH!None
      <3>1. old \in DOMAIN lent' \cup {MH!None} /\ \A u \in Task \ {t} : arg[u].old # old
        BY <1>2, <1>7, <2>2 DEF HeapCalls, old
      <3> QED  BY <1>2, <1>3, <1>7, <2>2, <3>1, GoKeeps
    <2> QED  BY <1>1, <2>1, <2>2
  <1> QED  BY <1>5, <1>6, <1>8, HeapBlocks

LEMMA MoveFreeKeeps ==
    ASSUME HeapInv, MH!MemHeapAssumption, NEW t \in Task, MH!MoveFree(t)
    PROVE  HeapInv'
  <1> DEFINE h == arg[t].old
  <1>1. /\ step[t] = "copied" /\ MH!Release(h) /\ MH!Go(t, "run", 0, MH!None)
        /\ lent' = [x \in DOMAIN lent \ {h} |-> lent[x]]
    BY DEF MH!MoveFree, MH!Done
  <1>2. /\ HeapCalls /\ Serves(block, lent) /\ Tile(block) /\ Separate(block)
        /\ Listed(block, free_list, available)
    BY DEF HeapInv
  <1>3. h \in UsedOf(block) /\ \A u \in Task \ {t} : arg[u].old # h
    BY <1>1, <1>2 DEF HeapCalls, Serves
  <1>4. \A u \in Task : arg[u].old \in DOMAIN lent \cup {MH!None}
    BY <1>2 DEF HeapCalls
  <1> HIDE DEF h
  <1>5. /\ Tile(block') /\ Separate(block') /\ Listed(block', free_list', available')
        /\ UsedOf(block') = UsedOf(block) \ {h}
        /\ \A x \in UsedOf(block') : block'[x].next = block[x].next
    BY <1>1, <1>2, <1>3, ReleaseKeeps
  <1>6. Serves(block', lent') /\ DOMAIN lent' = DOMAIN lent \ {h}
    BY <1>1, <1>2, <1>5, TakeBackKeeps, Zenon
  <1>7. \A u \in Task \ {t} : arg[u].old \in DOMAIN lent' \cup {MH!None}
    BY <1>3, <1>4, <1>6
  <1>8. HeapCalls'
    BY <1>1, <1>2, <1>7, GoKeeps
  <1> QED  BY <1>5, <1>6, <1>8, HeapBlocks

LEMMA FreeKeeps ==
    ASSUME HeapInv, MH!MemHeapAssumption, NEW t \in Task, NEW h \in DOMAIN lent, MH!Free(t, h)
    PROVE  HeapInv'
  <1>1. /\ MH!Release(h) /\ UNCHANGED <<step, arg>> /\ ~ MH!InHand(h)
        /\ lent' = [x \in DOMAIN lent \ {h} |-> lent[x]]
    BY DEF MH!Free
  <1>2. /\ HeapCalls /\ Serves(block, lent) /\ Tile(block) /\ Separate(block)
        /\ Listed(block, free_list, available)
    BY DEF HeapInv
  <1>3. h \in UsedOf(block) /\ \A u \in Task : arg[u].old # h
    BY <1>1, <1>2 DEF MH!InHand, Serves
  <1>4. \A u \in Task : arg[u].old \in DOMAIN lent \cup {MH!None}
    BY <1>2 DEF HeapCalls
  <1>5. /\ Tile(block') /\ Separate(block') /\ Listed(block', free_list', available')
        /\ UsedOf(block') = UsedOf(block) \ {h}
        /\ \A x \in UsedOf(block') : block'[x].next = block[x].next
    BY <1>1, <1>2, <1>3, ReleaseKeeps
  <1>6. Serves(block', lent') /\ DOMAIN lent' = DOMAIN lent \ {h}
    BY <1>1, <1>2, <1>5, TakeBackKeeps
  <1>7. \A u \in Task : arg[u].old \in DOMAIN lent' \cup {MH!None}
    BY <1>3, <1>4, <1>6
  <1>8. HeapCalls'
    BY <1>1, <1>2, <1>7, StayKeeps
  <1> QED  BY <1>5, <1>6, <1>8, HeapBlocks

LEMMA ExpandKeeps ==
    ASSUME HeapInv, MH!MemHeapAssumption, NEW t \in Task, NEW h \in DOMAIN lent, NEW n \in Request,
           MH!Expand(t, h, n)
    PROVE  HeapInv'
  <1> USE HeapSizes
  <1> DEFINE r == block[h].next
             e == block[r].next
             a == h + Header + n
             c == block'
  <1>1. /\ c = MH!Split(MH!Relink(h, e, TRUE, {r}), h, a)
        /\ free_list' = <<a>> \o MH!Unlisted(r)
        /\ available' = available - (n - (r - h - Header))
        /\ MH!Lend(h, n) /\ UNCHANGED <<step, arg>>
        /\ n > r - h - Header /\ MH!IsFree(r)
        /\ MH!SizeOf(r) + (r - h - Header) > n + Mini
    BY DEF MH!Expand, MH!Expandable, MH!Next, MH!SizeOf
  <1>2. /\ HeapCalls /\ Serves(block, lent) /\ Tile(block) /\ Separate(block)
        /\ Listed(block, free_list, available)
    BY DEF HeapInv
  <1>3. MH!SizeOf(r) = e - r - Header
    BY DEF MH!SizeOf, MH!Next
  <1>4. h \in UsedOf(block) /\ h \in Nat /\ r \in Nat /\ e \in Nat /\ r < e
    <2>1. h \in UsedOf(block) /\ h \in DOMAIN block
      BY <1>2 DEF Serves, UsedOf
    <2>2. r \in DOMAIN block /\ h \in Nat
      BY <1>2, <2>1, TileFacts
    <2>3. r # MH!Tailer
      <3>1. block[MH!Tailer].used
        BY <1>2, TileFacts
      <3> QED  BY <1>1, <3>1 DEF MH!IsFree
    <2>4. r \in Nat /\ r + Header <= e /\ e \in DOMAIN block
      BY <1>2, <2>2, <2>3, TileFacts, Zenon
    <2>5. e \in Nat
      BY <1>2, <2>4, TileFacts, Zenon
    <2> QED  BY <2>1, <2>2, <2>4, <2>5
  <1>5. n \in Nat
    OBVIOUS
  <1>7. available \in Int
    BY <1>2, HeldTotal DEF Listed
  <1>s. r = block[h].next /\ e = block[r].next
    OBVIOUS
  <1>10. a = h + Header + n
    OBVIOUS
  <1> HIDE DEF r, e, a, c
  <1>0. Header \in Nat /\ Header > 0 /\ Mini \in Nat /\ MH!MemHeapAssumption
    BY HeapSizes
  <1>i. /\ n > r - h - Header
        /\ (e - r - Header) + (r - h - Header) > n + Mini
        /\ available' = available - (n - (r - h - Header))
    BY ONLY <1>1, <1>3
  <1>6. a \in Int /\ h + Header <= a /\ a + Header <= e /\ a # r
    BY ONLY <1>0, <1>4, <1>5, <1>10, <1>i
  <1>8. available' = available - (IF e = r THEN 0 ELSE MH!SizeOf(r)) + e - a - Header
    <2>1. available' = available - (e - r - Header) + e - a - Header
      BY ONLY <1>0, <1>4, <1>5, <1>7, <1>10, <1>i
    <2>2. e # r
      BY ONLY <1>4
    <2> QED  BY ONLY <1>3, <2>1, <2>2
  <1>9. e = (IF MH!IsFree(r) THEN block[r].next ELSE r) /\ {r} \ {e} = {r}
    BY ONLY <1>1, <1>4, <1>s
  <1>11. /\ Tile(c) /\ Separate(c) /\ Listed(c, <<a>> \o MH!Unlisted(r), available')
         /\ UsedOf(c) = UsedOf(block) /\ c[h].next = a
         /\ \A x \in UsedOf(block) : x # h => c[x].next = block[x].next
    <2>1. c = MH!Split(MH!Relink(h, e, TRUE, {r} \ {e}), h, a)
      BY <1>1, <1>9, Zenon
    <2>2. Cut(h, r, e, a, c, available')
      BY ONLY <1>4, <1>6, <1>8, <1>9, <1>s, <2>1, Zenon DEF Cut
    <2>3. CutDone(h, r, a, c, available')
      BY ONLY <1>0, <1>2, <2>2, RestKeeps
    <2> QED  BY ONLY <2>3 DEF CutDone
  <1>12. Serves(c, lent') /\ DOMAIN lent' = DOMAIN lent \cup {h}
    <2>1. c[h].next - h - Header >= n /\ UsedOf(c) = UsedOf(block) \cup {h}
      BY <1>4, <1>5, <1>10, <1>11
    <2> QED  BY <1>1, <1>2, <1>11, <2>1, LendKeeps, Zenon
  <1>13. HeapCalls'
    <2>1. \A u \in Task : arg[u].old \in DOMAIN lent' \cup {MH!None}
      BY <1>2, <1>12 DEF HeapCalls
    <2> QED  BY <1>1, <1>2, <2>1, StayKeeps
  <1>14. /\ Tile(block') /\ Separate(block') /\ Listed(block', free_list', available')
         /\ Serves(block', lent')
    BY <1>1, <1>11, <1>12, Zenon DEF c
  <1> QED  BY <1>13, <1>14, HeapBlocks

LEMMA ShrinkKeeps ==
    ASSUME HeapInv, MH!MemHeapAssumption, NEW t \in Task, NEW h \in DOMAIN lent, NEW n \in Request,
           MH!Shrink(t, h, n)
    PROVE  HeapInv'
  <1> USE HeapSizes
  <1> DEFINE r == block[h].next
             e == IF MH!IsFree(r) THEN block[r].next ELSE r
             a == h + Header + n
             c == block'
  <1>1. /\ MH!Lend(h, n) /\ UNCHANGED <<step, arg>> /\ n <= MH!SizeOf(h)
        /\ MH!SizeOf(h) = r - h - Header
    BY DEF MH!Shrink, MH!SizeOf, MH!Next
  <1>2. /\ HeapCalls /\ Serves(block, lent) /\ Tile(block) /\ Separate(block)
        /\ Listed(block, free_list, available)
    BY DEF HeapInv
  <1>3. h \in UsedOf(block) /\ h \in Nat /\ r \in Nat /\ e \in Nat /\ r <= e
    <2>1. h \in UsedOf(block) /\ h \in DOMAIN block
      BY <1>2 DEF Serves, UsedOf
    <2>2. r \in DOMAIN block /\ h \in Nat
      BY <1>2, <2>1, TileFacts
    <2>3. CASE MH!IsFree(r)
      <3>1. r # MH!Tailer
        <4>1. block[MH!Tailer].used
          BY <1>2, TileFacts
        <4> QED  BY <2>3, <4>1 DEF MH!IsFree
      <3>2. r \in Nat /\ r + Header <= block[r].next /\ block[r].next \in DOMAIN block
        BY <1>2, <2>2, <3>1, TileFacts, Zenon
      <3>3. block[r].next \in Nat
        BY <1>2, <3>2, TileFacts, Zenon
      <3> QED  BY <2>1, <2>2, <2>3, <3>2, <3>3
    <2>4. CASE ~ MH!IsFree(r)
      <3>1. r \in Nat
        BY <1>2, <2>2, TileFacts, Zenon
      <3> QED  BY <2>1, <2>2, <2>4, <3>1
    <2> QED  BY <2>3, <2>4
  <1>4. n \in Nat
    OBVIOUS
  <1>5. /\ Tile(c) /\ Separate(c) /\ Listed(c, free_list', available')
        /\ UsedOf(c) = UsedOf(block) /\ c[h].next - h - Header >= n
        /\ \A x \in UsedOf(block) : x # h => c[x].next = block[x].next
    <2>1. CASE n + Header + Mini >= MH!SizeOf(h)
      <3>1. UNCHANGED <<block, free_list, available>>
        BY <2>1 DEF MH!Shrink
      <3> QED  BY <1>1, <1>2, <3>1
    <2>2. CASE ~ (n + Header + Mini >= MH!SizeOf(h))
      <3>1. /\ c = MH!Split(MH!Relink(h, e, TRUE, {r} \ {e}), h, a)
            /\ free_list' = <<a>> \o MH!Unlisted(r)
            /\ available' = available - (IF e = r THEN 0 ELSE MH!SizeOf(r)) + e - a - Header
        BY <2>2 DEF MH!Shrink, MH!Next
      <3>2. a \in Int /\ h + Header <= a /\ a + Header <= e /\ a # r
        BY <1>1, <1>3, <1>4, <2>2
      <3>3. a = h + Header + n
        OBVIOUS
      <3>4. r = block[h].next /\ e = IF MH!IsFree(r) THEN block[r].next ELSE r
        OBVIOUS
      <3> HIDE DEF r, e, a, c
      <3>5. /\ Tile(c) /\ Separate(c) /\ Listed(c, <<a>> \o MH!Unlisted(r), available')
            /\ UsedOf(c) = UsedOf(block) /\ c[h].next = a
            /\ \A x \in UsedOf(block) : x # h => c[x].next = block[x].next
        <4>1. MH!MemHeapAssumption
          OBVIOUS
        <4>2. Cut(h, r, e, a, c, available')
          BY ONLY <1>3, <3>1, <3>2, <3>4 DEF Cut
        <4>3. CutDone(h, r, a, c, available')
          BY ONLY <1>2, <4>1, <4>2, RestKeeps
        <4> QED  BY ONLY <4>3 DEF CutDone
      <3>6. c[h].next - h - Header >= n
        BY <1>3, <1>4, <3>3, <3>5
      <3> QED  BY <3>1, <3>5, <3>6, Zenon
    <2> QED  BY <2>1, <2>2
  <1> HIDE DEF c
  <1>6. Serves(c, lent') /\ DOMAIN lent' = DOMAIN lent \cup {h}
    <2>1. UsedOf(c) = UsedOf(block) \cup {h}
      BY <1>3, <1>5
    <2> QED  BY <1>1, <1>2, <1>5, <2>1, LendKeeps, Zenon
  <1>7. HeapCalls'
    <2>1. \A u \in Task : arg[u].old \in DOMAIN lent' \cup {MH!None}
      BY <1>2, <1>6 DEF HeapCalls
    <2> QED  BY <1>1, <1>2, <2>1, StayKeeps
  <1>8. /\ Tile(block') /\ Separate(block') /\ Listed(block', free_list', available')
        /\ Serves(block', lent')
    BY <1>5, <1>6 DEF c
  <1> QED  BY <1>7, <1>8, HeapBlocks

LEMMA HeapNextKeeps ==
    ASSUME HeapInv, MH!MemHeapAssumption, MH!HeapNext
    PROVE  HeapInv'
  <1>1. PICK t \in Task :
           \/ MH!MoveTest(t) \/ MH!AllocFind(t) \/ MH!AllocFail(t) \/ MH!MoveFree(t)
           \/ \E n \in Request : MH!AllocTest(t, n)
           \/ \E h \in DOMAIN lent :
                 \/ MH!Free(t, h)
                 \/ \E n \in Request : MH!Expand(t, h, n) \/ MH!MoveBegin(t, h, n) \/ MH!Shrink(t, h, n)
    BY DEF MH!HeapNext
  <1> QED  BY <1>1, MoveTestKeeps, AllocFindKeeps, AllocFailKeeps, MoveFreeKeeps, AllocTestKeeps,
              FreeKeeps, ExpandKeeps, MoveBeginKeeps, ShrinkKeeps

\* A step that may also leave the heap as it is.
LEMMA HeapStepKeeps ==
    ASSUME HeapInv, MH!MemHeapAssumption, [MH!HeapNext]_MH!heapVars
    PROVE  HeapInv'
<1>1. CASE UNCHANGED MH!heapVars
  <2>1. UNCHANGED <<block, free_list, available, lent, step, arg>>
    BY <1>1 DEF MH!heapVars
  <2>2. HeapCalls'
    BY <2>1 DEF HeapInv, HeapCalls
  <2> QED  BY <2>1, <2>2 DEF HeapInv
<1> QED
  BY <1>1, HeapNextKeeps

=============================================================================
