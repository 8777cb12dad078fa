---------------------------- MODULE KernelProofs ----------------------------
(***************************************************************************)
(* What the routines of module Kernel do to a consistent kernel state.     *)
(* The first lemmas are about the lists they work on.                      *)
(***************************************************************************)
EXTENDS Kernel, SequenceTheorems, FiniteSetTheorems, WellFoundedInduction, TLAPS

-----------------------------------------------------------------------------
(* Lists *)

\* Appending adds the element, and keeps a list free of duplicates that did
\* not hold it (the tail insertion of rt_schedule_insert_thread).
LEMMA AppendList ==
    ASSUME NEW S, NEW s \in Seq(S), NEW e \in S
    PROVE  /\ Append(s, e) \in Seq(S)
           /\ Append(s, e) # << >>
           /\ ToSet(Append(s, e)) = ToSet(s) \cup {e}
           /\ Distinct(s) /\ e \notin ToSet(s) => Distinct(Append(s, e))
  <1> DEFINE a == Append(s, e)
             n == Len(s)
  <1>1. n \in Nat /\ DOMAIN s = 1 .. n
    BY LenProperties
  <1>2. /\ a \in Seq(S) /\ a # << >> /\ Len(a) = n + 1
        /\ \A i \in 1 .. n : a[i] = s[i]
        /\ a[n + 1] = e
    BY AppendProperties
  <1>3. DOMAIN a = 1 .. n + 1
    BY <1>2, LenProperties
  <1> HIDE DEF a, n
  <1>4. ToSet(a) = ToSet(s) \cup {e}
    <2>1. ToSet(a) \subseteq ToSet(s) \cup {e}
      BY <1>1, <1>2, <1>3 DEF ToSet
    <2>2. ToSet(s) \subseteq ToSet(a)
      BY <1>1, <1>2, <1>3 DEF ToSet
    <2>3. e \in ToSet(a)
      BY <1>1, <1>2, <1>3 DEF ToSet
    <2> QED  BY <2>1, <2>2, <2>3
  <1>5. ASSUME Distinct(s), e \notin ToSet(s) PROVE Distinct(a)
    <2>1. \A i \in 1 .. n : s[i] # e
      BY <1>1, <1>5 DEF ToSet
    <2> QED  BY <1>1, <1>2, <1>3, <1>5, <2>1 DEF Distinct
  <1> QED  BY <1>2, <1>4, <1>5 DEF a

\* The first of a list and the rest (rt_ipc_list_resume takes the first).
LEMMA HeadTailList ==
    ASSUME NEW S, NEW s \in Seq(S), s # << >>
    PROVE  /\ Head(s) \in S
           /\ Head(s) \in ToSet(s)
           /\ Tail(s) \in Seq(S)
           /\ Distinct(s) => /\ ToSet(Tail(s)) = ToSet(s) \ {Head(s)}
                             /\ Distinct(Tail(s))
  <1>1. Len(s) \in Nat /\ Len(s) > 0 /\ DOMAIN s = 1 .. Len(s) /\ Head(s) = s[1]
    BY EmptySeq
  <1>2. /\ Tail(s) \in Seq(S) /\ Len(Tail(s)) = Len(s) - 1
        /\ DOMAIN Tail(s) = 1 .. Len(s) - 1
        /\ \A i \in 1 .. Len(s) - 1 : Tail(s)[i] = s[i + 1]
    BY <1>1, HeadTailProperties
  <1>3. ASSUME Distinct(s)
        PROVE  ToSet(Tail(s)) = ToSet(s) \ {Head(s)} /\ Distinct(Tail(s))
    <2>1. ToSet(Tail(s)) \subseteq ToSet(s) \ {Head(s)}
      BY <1>1, <1>2, <1>3 DEF ToSet, Distinct
    <2>2. ASSUME NEW x \in ToSet(s) \ {Head(s)} PROVE x \in ToSet(Tail(s))
      <3>1. PICK i \in 1 .. Len(s) : x = s[i]
        BY <1>1 DEF ToSet
      <3>2. i - 1 \in 1 .. Len(s) - 1 /\ Tail(s)[i - 1] = x
        BY <1>1, <1>2, <3>1
      <3> QED  BY <1>2, <3>2 DEF ToSet
    <2>3. Distinct(Tail(s))
      BY <1>1, <1>2, <1>3 DEF Distinct
    <2> QED  BY <2>1, <2>2, <2>3
  <1>4. Head(s) \in S /\ Head(s) \in ToSet(s)
    BY <1>1, LenProperties DEF ToSet
  <1> QED  BY <1>2, <1>3, <1>4

\* A list is empty exactly when it holds nothing.
LEMMA EmptyList ==
    ASSUME NEW S, NEW s \in Seq(S)
    PROVE  s = << >> <=> ToSet(s) = {}
  BY EmptySeq, LenProperties DEF ToSet

\* A set of natural numbers that is not empty has a least element.
LEMMA LeastNat ==
    ASSUME NEW S \in SUBSET Nat, S # {}
    PROVE  \E m \in S : \A n \in S : m <= n
  <1>1. PICK m \in S : \A n \in S : ~ (<<n, m>> \in OpToRel(<, Nat))
    BY NatLessThanWellFounded, WFMin
  <1>2. ASSUME NEW n \in S PROVE m <= n
    <2>1. ~ (n < m)
      BY <1>1 DEF OpToRel
    <2> QED  BY <2>1
  <1> QED  BY <1>1, <1>2

\* An element in front of a list.
LEMMA ConsList ==
    ASSUME NEW A, NEW s \in Seq(A), NEW c \in A
    PROVE  LET q == <<c>> \o s
           IN  /\ q \in Seq(A) /\ Len(q) = Len(s) + 1 /\ Len(s) \in Nat
               /\ q[1] = c /\ \A i \in 1 .. Len(s) : q[i + 1] = s[i]
               /\ ToSet(q) = ToSet(s) \cup {c}
               /\ Distinct(s) /\ c \notin ToSet(s) => Distinct(q)
  <1> DEFINE q == <<c>> \o s
  <1>1. /\ q \in Seq(A) /\ Len(q) = Len(s) + 1 /\ Len(s) \in Nat
        /\ q[1] = c /\ \A i \in 1 .. Len(s) : q[i + 1] = s[i]
    BY LenProperties
  <1> HIDE DEF q
  <1>2. DOMAIN q = 1 .. Len(s) + 1 /\ DOMAIN s = 1 .. Len(s)
    BY <1>1, LenProperties
  <1>3. \A i \in DOMAIN q : i = 1 \/ (i - 1 \in DOMAIN s /\ q[i] = s[i - 1])
    <2> SUFFICES ASSUME NEW i \in DOMAIN q, i # 1
                 PROVE  i - 1 \in DOMAIN s /\ q[i] = s[i - 1]
      OBVIOUS
    <2>1. i - 1 \in 1 .. Len(s) /\ (i - 1) + 1 = i
      BY <1>1, <1>2
    <2>2. q[(i - 1) + 1] = s[i - 1]
      BY <1>1, <2>1
    <2> QED  BY <1>2, <2>1, <2>2
  <1>4. ToSet(q) = ToSet(s) \cup {c}
    <2>1. ToSet(q) \subseteq ToSet(s) \cup {c}
      BY <1>1, <1>3 DEF ToSet
    <2>2. c \in ToSet(q)
      BY <1>1, <1>2 DEF ToSet
    <2>3. \A i \in DOMAIN s : s[i] \in ToSet(q)
      <3> SUFFICES ASSUME NEW i \in DOMAIN s PROVE s[i] \in ToSet(q)
        OBVIOUS
      <3>1. i + 1 \in DOMAIN q /\ q[i + 1] = s[i]
        BY <1>1, <1>2
      <3> QED  BY <3>1 DEF ToSet
    <2> QED  BY <2>1, <2>2, <2>3 DEF ToSet
  <1>5. ASSUME Distinct(s), c \notin ToSet(s) PROVE Distinct(q)
    <2> SUFFICES ASSUME NEW i \in DOMAIN q, NEW j \in DOMAIN q, q[i] = q[j] PROVE i = j
      BY DEF Distinct
    <2>1. \A m \in DOMAIN s : s[m] # c
      BY <1>5 DEF ToSet
    <2>2. i = 1 <=> j = 1
      BY <1>1, <1>3, <2>1
    <2>3. CASE i # 1
      <3>1. i - 1 \in DOMAIN s /\ j - 1 \in DOMAIN s /\ s[i - 1] = s[j - 1]
        BY <1>3, <2>2, <2>3
      <3>2. i - 1 = j - 1
        BY <1>5, <3>1 DEF Distinct
      <3> QED  BY <1>1, <1>2, <3>2
    <2> QED  BY <2>2, <2>3
  <1> QED  BY <1>1, <1>4, <1>5 DEF q

\* SelectInSeq is 0 or the position of an element that passes the test.
LEMMA SelectPosition ==
    ASSUME NEW S, NEW s \in Seq(S), NEW P \in SUBSET (1 .. Len(s)), P # {}
    PROVE  Min(P) \in P
  <1>1. Len(s) \in Nat
    BY LenProperties
  <1>2. P \in SUBSET Nat
    BY <1>1
  <1>3. \E m \in P : \A n \in P : m <= n
    BY <1>2, LeastNat
  <1> QED  BY <1>3 DEF Min

\* RemoveAt drops one position.
LEMMA RemoveAtList ==
    ASSUME NEW S, NEW s \in Seq(S), NEW i \in 1 .. Len(s)
    PROVE  /\ RemoveAt(s, i) \in Seq(S)
           /\ Len(RemoveAt(s, i)) = Len(s) - 1
           /\ \A j \in 1 .. Len(s) - 1 :
                 RemoveAt(s, i)[j] = IF j < i THEN s[j] ELSE s[j + 1]
  <1> DEFINE l == SubSeq(s, 1, i - 1)
             r == SubSeq(s, i + 1, Len(s))
  <1>1. Len(s) \in Nat /\ i \in Nat /\ 1 <= i /\ i <= Len(s)
    BY LenProperties
  <1>2. \A j \in 1 .. Len(s) : s[j] \in S
    BY ElementOfSeq
  <1>3. /\ l \in Seq(S) /\ Len(l) = i - 1
        /\ \A j \in 1 .. i - 1 : l[j] = s[j]
    <2>1. /\ l \in Seq(S)
          /\ Len(l) = IF 1 <= i - 1 THEN i - 1 - 1 + 1 ELSE 0
          /\ \A j \in 1 .. i - 1 - 1 + 1 : l[j] = s[1 + j - 1]
      BY <1>1, <1>2, SubSeqProperties, \A j \in 1 .. i - 1 : s[j] \in S
    <2> QED  BY <1>1, <2>1
  <1>4. /\ r \in Seq(S) /\ Len(r) = Len(s) - i
        /\ \A j \in 1 .. Len(s) - i : r[j] = s[i + j]
    <2>1. /\ r \in Seq(S)
          /\ Len(r) = IF i + 1 <= Len(s) THEN Len(s) - (i + 1) + 1 ELSE 0
          /\ \A j \in 1 .. Len(s) - (i + 1) + 1 : r[j] = s[(i + 1) + j - 1]
      BY <1>1, <1>2, SubSeqProperties, \A j \in i + 1 .. Len(s) : s[j] \in S
    <2> QED  BY <1>1, <2>1
  <1> HIDE DEF l, r
  <1>5. /\ l \o r \in Seq(S) /\ Len(l \o r) = Len(s) - 1
        /\ \A j \in 1 .. Len(l) + Len(r) :
              (l \o r)[j] = IF j <= Len(l) THEN l[j] ELSE r[j - Len(l)]
    <2>1. l \in Seq(S) /\ r \in Seq(S)
      BY <1>3, <1>4
    <2>2. /\ l \o r \in Seq(S) /\ Len(l \o r) = Len(l) + Len(r)
          /\ \A j \in 1 .. Len(l) + Len(r) :
                (l \o r)[j] = IF j <= Len(l) THEN l[j] ELSE r[j - Len(l)]
      BY <2>1, ConcatProperties
    <2> QED  BY <1>1, <1>3, <1>4, <2>2
  <1>6. \A j \in 1 .. Len(s) - 1 :
           (l \o r)[j] = IF j < i THEN s[j] ELSE s[j + 1]
    BY <1>1, <1>3, <1>4, <1>5
  <1> QED  BY <1>5, <1>6 DEF RemoveAt, l, r

\* RemoveFirst on a list without duplicates takes the element out.
LEMMA RemoveFirstList ==
    ASSUME NEW S, NEW s \in Seq(S), NEW e, Distinct(s)
    PROVE  /\ RemoveFirst(s, e) \in Seq(S)
           /\ ToSet(RemoveFirst(s, e)) = ToSet(s) \ {e}
           /\ Distinct(RemoveFirst(s, e))
  <1>1. Len(s) \in Nat /\ DOMAIN s = 1 .. Len(s)
    BY LenProperties
  <1>2. CASE ~ \E i \in 1 .. Len(s) : s[i] = e
    <2>1. RemoveFirst(s, e) = s /\ e \notin ToSet(s)
      BY <1>1, <1>2 DEF RemoveFirst, ToSet
    <2> QED  BY <2>1
  <1>3. CASE \E i \in 1 .. Len(s) : s[i] = e
    <2> DEFINE P == {i \in 1 .. Len(s) : s[i] = e}
               m == Min(P)
               r == RemoveAt(s, m)
    <2>1. m \in P
      <3>1. P \in SUBSET (1 .. Len(s)) /\ P # {}
        BY <1>3
      <3> HIDE DEF P
      <3> QED  BY <3>1, SelectPosition
    <2>2. RemoveFirst(s, e) = r
      BY <1>3, <2>1 DEF RemoveFirst, SelectInSeq
    <2>3. m \in 1 .. Len(s) /\ s[m] = e
      BY <2>1
    <2> HIDE DEF m
    <2>4. /\ r \in Seq(S) /\ Len(r) = Len(s) - 1
          /\ \A j \in 1 .. Len(s) - 1 : r[j] = IF j < m THEN s[j] ELSE s[j + 1]
      BY <2>3, RemoveAtList
    <2>5. DOMAIN r = 1 .. Len(s) - 1
      BY <2>4, LenProperties
    <2> HIDE DEF r
    <2>6. ASSUME NEW j \in 1 .. Len(s) - 1 PROVE r[j] \in ToSet(s) \ {e}
      <3>1. PICK n \in 1 .. Len(s) : n # m /\ r[j] = s[n]
        <4>1. j \in 1 .. Len(s) /\ j + 1 \in 1 .. Len(s)
          BY <1>1, <2>6
        <4>2. j < m => j # m /\ r[j] = s[j]
          BY <2>4, <2>6
        <4>3. ~ (j < m) => j + 1 # m /\ r[j] = s[j + 1]
          BY <1>1, <2>3, <2>4, <2>6
        <4> QED  BY <4>1, <4>2, <4>3
      <3>2. s[n] # e
        BY <1>1, <2>3, <3>1 DEF Distinct
      <3> QED  BY <1>1, <3>1, <3>2 DEF ToSet
    <2>7. ASSUME NEW x \in ToSet(s) \ {e} PROVE x \in ToSet(r)
      <3>1. PICK j \in 1 .. Len(s) : s[j] = x
        BY <1>1 DEF ToSet
      <3>2. j # m
        BY <2>3, <3>1
      <3>3. CASE j < m
        BY <1>1, <2>3, <2>4, <2>5, <3>1, <3>3 DEF ToSet
      <3>4. CASE j > m
        <4>1. j - 1 \in 1 .. Len(s) - 1 /\ r[j - 1] = x
          BY <1>1, <2>3, <2>4, <3>1, <3>4
        <4> QED  BY <2>5, <4>1 DEF ToSet
      <3> QED  BY <1>1, <2>3, <3>1, <3>2, <3>3, <3>4
    <2>8. Distinct(r)
      <3> SUFFICES ASSUME NEW a \in 1 .. Len(s) - 1, NEW b \in 1 .. Len(s) - 1,
                          r[a] = r[b]
                   PROVE  a = b
        BY <2>5 DEF Distinct
      <3> DEFINE f(j) == IF j < m THEN j ELSE j + 1
      <3>1. f(a) \in 1 .. Len(s) /\ f(b) \in 1 .. Len(s)
        BY <1>1, <2>3
      <3>2. r[a] = s[f(a)] /\ r[b] = s[f(b)]
        BY <1>1, <2>3, <2>4
      <3>3. f(a) = f(b)
        BY <1>1, <3>1, <3>2 DEF Distinct
      <3> QED  BY <1>1, <2>3, <3>3
    <2>9. ToSet(r) = ToSet(s) \ {e}
      <3>1. ToSet(r) \subseteq ToSet(s) \ {e}
        BY <2>5, <2>6 DEF ToSet
      <3> QED  BY <2>7, <3>1
    <2> QED  BY <2>2, <2>4, <2>8, <2>9
  <1> QED  BY <1>2, <1>3

-----------------------------------------------------------------------------
(* Ready queues *)

\* The part of KernelOK that speaks of the ready lists.
QueuesOK(k) == ReadyListed(k) /\ ReadyDistinct(k) /\ GroupExact(k)

\* rt_schedule_insert_thread keeps the ready lists consistent when the thread
\* was not READY: the double insertion is the one thing that corrupts them.
LEMMA InsertThreadQueues ==
    ASSUME NEW k \in KernelState, NEW t \in Thread,
           QueuesOK(k), k.stat[t] # "READY"
    PROVE  LET n == InsertThread(k, t)
           IN  /\ n \in KernelState
               /\ QueuesOK(n)
               /\ n.cur = k.cur /\ n.prio = k.prio /\ n.err = k.err
               /\ n.tmr = k.tmr /\ n.lock = k.lock
               /\ n.stat = [k.stat EXCEPT ![t] =
                               IF t = k.cur THEN "RUNNING" ELSE "READY"]
  <1> DEFINE n == InsertThread(k, t)
             p == k.prio[t]
  <1>0. /\ k.stat \in [Thread -> Stat] /\ k.prio \in [Thread -> Prio]
        /\ k.rq \in [Prio -> Seq(Thread)] /\ k.grp \in SUBSET Prio
        /\ p \in Prio
    BY DEF KernelState
  <1>1. CASE t = k.cur
    <2>1. n = [k EXCEPT !.stat = [k.stat EXCEPT ![t] = "RUNNING"],
                        !.rq = k.rq, !.grp = k.grp]
      BY <1>1 DEF InsertThread, KernelState
    <2>2. /\ n \in KernelState
          /\ n.cur = k.cur /\ n.prio = k.prio /\ n.err = k.err
          /\ n.tmr = k.tmr /\ n.lock = k.lock
          /\ n.stat = [k.stat EXCEPT ![t] = "RUNNING"]
          /\ n.rq = k.rq /\ n.grp = k.grp
      <3> DEFINE a == [k.stat EXCEPT ![t] = "RUNNING"]
                 b == k.rq
                 c == k.grp
      <3>1. a \in [Thread -> Stat] /\ b \in [Prio -> Seq(Thread)] /\ c \in SUBSET Prio
        BY <1>0 DEF Stat
      <3>2. n = [k EXCEPT !.stat = a, !.rq = b, !.grp = c]
        BY <2>1
      <3> HIDE DEF n, a, b, c
      <3>3. /\ n \in KernelState
            /\ n.cur = k.cur /\ n.prio = k.prio /\ n.err = k.err
            /\ n.tmr = k.tmr /\ n.lock = k.lock
            /\ n.stat = a /\ n.rq = b /\ n.grp = c
        BY <3>1, <3>2 DEF KernelState
      <3> QED  BY <3>3 DEF a, b, c
    <2> HIDE DEF n
    <2>3. QueuesOK(n)
      BY <1>0, <2>2 DEF QueuesOK, ReadyListed, ReadyDistinct, GroupExact
    <2> QED  BY <1>1, <2>2, <2>3 DEF n
  <1>2. CASE t # k.cur
    <2>1. n = [k EXCEPT !.stat = [k.stat EXCEPT ![t] = "READY"],
                        !.rq = [k.rq EXCEPT ![p] = Append(k.rq[p], t)],
                        !.grp = k.grp \cup {p}]
      BY <1>2 DEF InsertThread, KernelState
    <2>2. /\ k.rq[p] \in Seq(Thread) /\ Distinct(k.rq[p]) /\ t \notin ToSet(k.rq[p])
      BY <1>0 DEF QueuesOK, ReadyListed, ReadyDistinct
    <2>3. /\ Append(k.rq[p], t) \in Seq(Thread)
          /\ Append(k.rq[p], t) # << >>
          /\ ToSet(Append(k.rq[p], t)) = ToSet(k.rq[p]) \cup {t}
          /\ Distinct(Append(k.rq[p], t))
      BY <2>2, AppendList
    <2>4. /\ n \in KernelState
          /\ n.cur = k.cur /\ n.prio = k.prio /\ n.err = k.err
          /\ n.tmr = k.tmr /\ n.lock = k.lock
          /\ n.stat = [k.stat EXCEPT ![t] = "READY"]
          /\ n.rq = [k.rq EXCEPT ![p] = Append(k.rq[p], t)]
          /\ n.grp = k.grp \cup {p}
      <3> DEFINE a == [k.stat EXCEPT ![t] = "READY"]
                 b == [k.rq EXCEPT ![p] = Append(k.rq[p], t)]
                 c == k.grp \cup {p}
      <3>1. a \in [Thread -> Stat] /\ b \in [Prio -> Seq(Thread)] /\ c \in SUBSET Prio
        BY <1>0, <2>3 DEF Stat
      <3>2. n = [k EXCEPT !.stat = a, !.rq = b, !.grp = c]
        BY <2>1
      <3> HIDE DEF n, a, b, c
      <3>3. /\ n \in KernelState
            /\ n.cur = k.cur /\ n.prio = k.prio /\ n.err = k.err
            /\ n.tmr = k.tmr /\ n.lock = k.lock
            /\ n.stat = a /\ n.rq = b /\ n.grp = c
        BY <3>1, <3>2 DEF KernelState
      <3> QED  BY <3>3 DEF a, b, c
    <2> HIDE DEF n
    <2>5. ReadyListed(n)
      BY <1>0, <2>3, <2>4 DEF QueuesOK, ReadyListed
    <2>6. ReadyDistinct(n)
      BY <1>0, <2>3, <2>4 DEF QueuesOK, ReadyDistinct
    <2>7. GroupExact(n)
      BY <1>0, <2>3, <2>4 DEF QueuesOK, GroupExact
    <2> QED  BY <1>2, <2>4, <2>5, <2>6, <2>7 DEF n, QueuesOK
  <1> QED  BY <1>1, <1>2

\* rt_schedule_remove_thread together with the assignment of the new state that
\* always follows it: the thread is off the lists, whether it was on one or not.
LEMMA TakeOffQueues ==
    ASSUME NEW k \in KernelState, NEW t \in Thread, NEW x \in Stat \ {"READY"},
           QueuesOK(k)
    PROVE  LET n == TakeOff(k, t, x)
           IN  /\ n \in KernelState
               /\ QueuesOK(n)
               /\ n.cur = k.cur /\ n.prio = k.prio /\ n.err = k.err
               /\ n.tmr = k.tmr /\ n.lock = k.lock
               /\ n.stat = [k.stat EXCEPT ![t] = x]
  <1> DEFINE p == k.prio[t]
             q == RemoveFirst(k.rq[p], t)
             g == IF q = << >> THEN k.grp \ {p} ELSE k.grp
             n == TakeOff(k, t, x)
  <1>0. /\ k.stat \in [Thread -> Stat] /\ k.prio \in [Thread -> Prio]
        /\ k.rq \in [Prio -> Seq(Thread)] /\ k.grp \in SUBSET Prio
        /\ p \in Prio
    BY DEF KernelState
  <1>1. k.rq[p] \in Seq(Thread) /\ Distinct(k.rq[p])
    BY <1>0 DEF QueuesOK, ReadyDistinct
  <1>2. q \in Seq(Thread) /\ ToSet(q) = ToSet(k.rq[p]) \ {t} /\ Distinct(q)
    BY <1>1, RemoveFirstList
  <1>3. n = [k EXCEPT !.stat = [k.stat EXCEPT ![t] = x],
                      !.rq = [k.rq EXCEPT ![p] = q], !.grp = g]
    BY DEF TakeOff, RemoveThread, KernelState
  <1>4. q # << >> => k.rq[p] # << >>
    BY <1>1, <1>2, EmptyList
  <1> HIDE DEF q
  <1>5. /\ n \in KernelState
        /\ n.cur = k.cur /\ n.prio = k.prio /\ n.err = k.err
        /\ n.tmr = k.tmr /\ n.lock = k.lock
        /\ n.stat = [k.stat EXCEPT ![t] = x]
        /\ n.rq = [k.rq EXCEPT ![p] = q] /\ n.grp = g
    <2> DEFINE a == [k.stat EXCEPT ![t] = x]
               b == [k.rq EXCEPT ![p] = q]
               c == g
    <2>1. a \in [Thread -> Stat] /\ b \in [Prio -> Seq(Thread)] /\ c \in SUBSET Prio
      BY <1>0, <1>2
    <2>2. n = [k EXCEPT !.stat = a, !.rq = b, !.grp = c]
      BY <1>3
    <2> HIDE DEF n, a, b, c
    <2>3. /\ n \in KernelState
          /\ n.cur = k.cur /\ n.prio = k.prio /\ n.err = k.err
          /\ n.tmr = k.tmr /\ n.lock = k.lock
          /\ n.stat = a /\ n.rq = b /\ n.grp = c
      BY <2>1, <2>2 DEF KernelState
    <2> QED  BY <2>3 DEF a, b, c
  <1> HIDE DEF n
  <1>6. ReadyListed(n)
    BY <1>0, <1>2, <1>5 DEF QueuesOK, ReadyListed
  <1>7. ReadyDistinct(n)
    BY <1>0, <1>2, <1>5 DEF QueuesOK, ReadyDistinct
  <1>8. GroupExact(n)
    BY <1>0, <1>4, <1>5 DEF QueuesOK, GroupExact
  <1> QED  BY <1>5, <1>6, <1>7, <1>8 DEF n, QueuesOK

\* _get_highest_priority_thread returns a READY thread no READY thread outranks.
LEMMA HighestReady ==
    ASSUME NEW k \in KernelState, QueuesOK(k), k.grp # {}
    PROVE  LET p == HighestPrio(k)
               t == Head(k.rq[p])
           IN  /\ p \in Prio /\ t \in Thread
               /\ k.stat[t] = "READY" /\ k.prio[t] = p
               /\ \A u \in Thread : k.stat[u] = "READY" => p <= k.prio[u]
  <1> DEFINE p == HighestPrio(k)
  <1>1. k.grp \in SUBSET Nat /\ k.grp \in SUBSET Prio
    BY KernelAssumption DEF KernelState, Prio
  <1>2. p \in k.grp /\ \A q \in k.grp : p <= q
    BY <1>1, LeastNat DEF HighestPrio
  <1> HIDE DEF p
  <1>3. p \in Prio /\ k.rq[p] \in Seq(Thread) /\ k.rq[p] # << >>
    BY <1>1, <1>2 DEF QueuesOK, GroupExact, KernelState
  <1>4. Head(k.rq[p]) \in Thread /\ Head(k.rq[p]) \in ToSet(k.rq[p])
    BY <1>3, HeadTailList
  <1>5. k.stat[Head(k.rq[p])] = "READY" /\ k.prio[Head(k.rq[p])] = p
    BY <1>3, <1>4 DEF QueuesOK, ReadyListed
  <1>6. ASSUME NEW u \in Thread, k.stat[u] = "READY" PROVE p <= k.prio[u]
    <2>1. k.prio[u] \in Prio /\ u \in ToSet(k.rq[k.prio[u]])
      BY <1>6 DEF QueuesOK, ReadyListed, KernelState
    <2>2. k.rq[k.prio[u]] # << >>
      BY <2>1, EmptyList DEF KernelState
    <2> QED  BY <1>2, <2>1, <2>2 DEF QueuesOK, GroupExact
  <1> QED  BY <1>3, <1>4, <1>5, <1>6 DEF p

-----------------------------------------------------------------------------
(* rt_schedule *)

\* The threads rt_schedule may not touch: those that are not READY or RUNNING.
Inactive(k) == {t \in Thread : k.stat[t] \notin {"READY", "RUNNING"}}

\* The branch of rt_schedule that switches to another thread.
LEMMA SwitchTo ==
    ASSUME NEW k \in KernelState, KernelOK(k), NEW to \in Thread,
           k.stat[to] = "READY"
    PROVE  LET q == IF k.stat[k.cur] = "RUNNING"
                    THEN InsertThread([k EXCEPT !.cur = to], k.cur)
                    ELSE [k EXCEPT !.cur = to]
               n == Dispatch(q, to)
           IN  /\ n \in KernelState
               /\ KernelOK(n)
               /\ n.cur = to /\ n.prio = k.prio /\ n.err = k.err
               /\ n.tmr = k.tmr /\ n.lock = k.lock
               /\ n.stat = [t \in Thread |->
                              IF t = to THEN "RUNNING"
                              ELSE IF t = k.cur /\ k.stat[t] = "RUNNING" THEN "READY"
                              ELSE k.stat[t]]
  <1> DEFINE m == [k EXCEPT !.cur = to]
             q == IF k.stat[k.cur] = "RUNNING"
                  THEN InsertThread([k EXCEPT !.cur = to], k.cur)
                  ELSE [k EXCEPT !.cur = to]
  <1>0. /\ k.cur \in Thread /\ k.stat \in [Thread -> Stat] /\ to # k.cur
        /\ \A t \in Thread : k.stat[t] = "RUNNING" => t = k.cur
    BY DEF KernelState, KernelOK, OneRunning
  <1>1. /\ m \in KernelState
        /\ m.cur = to /\ m.stat = k.stat /\ m.prio = k.prio /\ m.err = k.err
        /\ m.rq = k.rq /\ m.grp = k.grp /\ m.tmr = k.tmr /\ m.lock = k.lock
    BY DEF KernelState
  <1> HIDE DEF m
  <1>2. QueuesOK(m)
    BY <1>1 DEF QueuesOK, KernelOK, ReadyListed, ReadyDistinct, GroupExact
  <1>3. /\ q \in KernelState
        /\ QueuesOK(q)
        /\ q.cur = to /\ q.prio = k.prio /\ q.err = k.err
        /\ q.tmr = k.tmr /\ q.lock = k.lock
        /\ q.stat = IF k.stat[k.cur] = "RUNNING"
                    THEN [k.stat EXCEPT ![k.cur] = "READY"] ELSE k.stat
    <2>1. CASE k.stat[k.cur] = "RUNNING"
      <3>1. q = InsertThread(m, k.cur)
        BY <2>1 DEF m
      <3>2. m.stat[k.cur] # "READY"
        BY <1>1, <2>1
      <3> QED  BY <1>0, <1>1, <1>2, <2>1, <3>1, <3>2, InsertThreadQueues
    <2>2. CASE k.stat[k.cur] # "RUNNING"
      BY <1>1, <1>2, <2>2 DEF m
    <2> QED  BY <2>1, <2>2
  <1> HIDE DEF q
  <1> DEFINE n == Dispatch(q, to)
  <1>4. /\ n \in KernelState
        /\ QueuesOK(n)
        /\ n.cur = to /\ n.prio = k.prio /\ n.err = k.err
        /\ n.tmr = k.tmr /\ n.lock = k.lock
        /\ n.stat = [q.stat EXCEPT ![to] = "RUNNING"]
    <2>1. "RUNNING" \in Stat \ {"READY"}
      BY DEF Stat
    <2>2. n = TakeOff(q, to, "RUNNING")
      BY DEF Dispatch
    <2> HIDE DEF n
    <2>3. /\ n \in KernelState
          /\ QueuesOK(n)
          /\ n.cur = q.cur /\ n.prio = q.prio /\ n.err = q.err
          /\ n.tmr = q.tmr /\ n.lock = q.lock
          /\ n.stat = [q.stat EXCEPT ![to] = "RUNNING"]
      BY <1>3, <2>1, <2>2, TakeOffQueues
    <2> QED  BY <1>3, <2>3
  <1> HIDE DEF n
  <1>5. n.stat = [t \in Thread |->
                     IF t = to THEN "RUNNING"
                     ELSE IF t = k.cur /\ k.stat[t] = "RUNNING" THEN "READY"
                     ELSE k.stat[t]]
    BY <1>0, <1>3, <1>4
  <1>6. OneRunning(n)
    BY <1>0, <1>4, <1>5 DEF OneRunning
  <1> QED  BY <1>4, <1>5, <1>6 DEF n, q, KernelOK, QueuesOK

\* rt_schedule keeps the kernel consistent and touches no parked thread; unless
\* the scheduler is locked or nothing is ready, the thread it leaves current is
\* RUNNING and no READY thread outranks it.
LEMMA ScheduleEffect ==
    ASSUME NEW k \in KernelState, KernelOK(k)
    PROVE  LET n == Schedule(k)
           IN  /\ n \in KernelState
               /\ KernelOK(n)
               /\ n.prio = k.prio /\ n.err = k.err
               /\ n.tmr = k.tmr /\ n.lock = k.lock
               /\ \A t \in Inactive(k) : n.stat[t] = k.stat[t]
               /\ Inactive(n) = Inactive(k)
               /\ k.lock = 0 /\ k.grp # {} =>
                     n.stat[n.cur] = "RUNNING" /\ TopRuns(n)
               /\ k.grp = {} => n = k
  <1> DEFINE n  == Schedule(k)
             p  == HighestPrio(k)
             hd == Head(k.rq[p])
             q  == IF k.stat[k.cur] = "RUNNING"
                   THEN InsertThread([k EXCEPT !.cur = hd], k.cur)
                   ELSE [k EXCEPT !.cur = hd]
  <1>0. /\ k.cur \in Thread /\ k.stat \in [Thread -> Stat]
        /\ k.prio \in [Thread -> Prio] /\ k.lock \in Nat
        /\ \A t \in Thread : k.stat[t] = "RUNNING" => t = k.cur
        /\ k.stat[k.cur] # "READY"
        /\ Prio \in SUBSET Int /\ \A t \in Thread : k.prio[t] \in Int
    BY KernelAssumption DEF KernelState, KernelOK, OneRunning, Prio
  <1>1. CASE k.lock > 0 \/ k.grp = {}
    <2>1. n = k
      BY <1>1 DEF Schedule
    <2> QED  BY <1>0, <1>1, <2>1
  <1>2. CASE ~ (k.lock > 0 \/ k.grp = {})
    <2>1. /\ p \in Prio /\ hd \in Thread
          /\ k.stat[hd] = "READY" /\ k.prio[hd] = p /\ hd # k.cur
          /\ \A u \in Thread : k.stat[u] = "READY" => p <= k.prio[u]
      BY <1>0, <1>2, HighestReady DEF KernelOK, QueuesOK
    <2>2. CASE k.stat[k.cur] = "RUNNING" /\ k.prio[k.cur] < p
      <3>1. n = Dispatch(k, k.cur)
        BY <1>2, <2>2 DEF Schedule
      <3>2. /\ n \in KernelState
            /\ QueuesOK(n)
            /\ n.cur = k.cur /\ n.prio = k.prio /\ n.err = k.err
            /\ n.tmr = k.tmr /\ n.lock = k.lock
            /\ n.stat = [k.stat EXCEPT ![k.cur] = "RUNNING"]
        <4>1. "RUNNING" \in Stat \ {"READY"} /\ QueuesOK(k)
          BY DEF Stat, KernelOK, QueuesOK
        <4> QED  BY <1>0, <3>1, <4>1, TakeOffQueues DEF Dispatch
      <3> HIDE DEF n, p, hd
      <3>3. n.stat = k.stat
        BY <1>0, <2>2, <3>2
      <3>4. KernelOK(n)
        BY <1>0, <3>2, <3>3 DEF KernelOK, QueuesOK, OneRunning
      <3>5. TopRuns(n)
        BY <1>0, <2>1, <2>2, <3>2, <3>3 DEF TopRuns
      <3> QED  BY <1>2, <2>2, <3>2, <3>3, <3>4, <3>5 DEF Inactive, n
    <2>3. CASE ~ (k.stat[k.cur] = "RUNNING" /\ k.prio[k.cur] < p)
      <3>1. n = Dispatch(q, hd)
        BY <1>2, <2>1, <2>3 DEF Schedule
      <3> HIDE DEF p, hd
      <3>2. /\ n \in KernelState
            /\ KernelOK(n)
            /\ n.cur = hd /\ n.prio = k.prio /\ n.err = k.err
            /\ n.tmr = k.tmr /\ n.lock = k.lock
            /\ n.stat = [t \in Thread |->
                           IF t = hd THEN "RUNNING"
                           ELSE IF t = k.cur /\ k.stat[t] = "RUNNING" THEN "READY"
                           ELSE k.stat[t]]
        BY <2>1, <3>1, SwitchTo
      <3> HIDE DEF n, q
      <3>3. TopRuns(n)
        BY <1>0, <2>1, <2>3, <3>2 DEF TopRuns
      <3>4. Inactive(n) = Inactive(k) /\ \A t \in Inactive(k) : n.stat[t] = k.stat[t]
        BY <1>0, <2>1, <3>2 DEF Inactive
      <3> QED  BY <1>2, <2>1, <3>2, <3>3, <3>4 DEF n
    <2> QED  BY <2>2, <2>3
  <1> QED  BY <1>1, <1>2

-----------------------------------------------------------------------------
(* Suspension and wake-up *)

\* Error numbers, thread timers and the scheduler lock are no part of what the
\* ready queues promise.
LEMMA SameQueues ==
    ASSUME NEW k \in KernelState, KernelOK(k), NEW n \in KernelState,
           n.cur = k.cur, n.stat = k.stat, n.prio = k.prio, n.rq = k.rq, n.grp = k.grp
    PROVE  KernelOK(n)
  BY DEF KernelOK, ReadyListed, ReadyDistinct, GroupExact, OneRunning

\* rt_thread_suspend of a thread that is ready or running.
LEMMA SuspendEffect ==
    ASSUME NEW k \in KernelState, KernelOK(k), NEW t \in Thread,
           k.stat[t] \in {"READY", "RUNNING"}
    PROVE  LET n == Suspend(k, t)
           IN  /\ n \in KernelState
               /\ KernelOK(n)
               /\ n.cur = k.cur /\ n.prio = k.prio /\ n.err = k.err /\ n.lock = k.lock
               /\ n.stat = [k.stat EXCEPT ![t] = "SUSPEND"]
               /\ n.tmr = k.tmr \ {t}
  <1> DEFINE o == TakeOff(k, t, "SUSPEND")
             n == Suspend(k, t)
  <1>0. k.stat \in [Thread -> Stat] /\ k.tmr \in SUBSET Thread
    BY DEF KernelState
  <1>1. /\ o \in KernelState /\ QueuesOK(o)
        /\ o.cur = k.cur /\ o.prio = k.prio /\ o.lock = k.lock
        /\ o.err = k.err /\ o.tmr = k.tmr
        /\ o.stat = [k.stat EXCEPT ![t] = "SUSPEND"]
    <2>1. QueuesOK(k) /\ "SUSPEND" \in Stat \ {"READY"}
      BY DEF QueuesOK, KernelOK, Stat
    <2> QED  BY <2>1, TakeOffQueues
  <1>2. n = [o EXCEPT !.tmr = o.tmr \ {t}]
    BY DEF Suspend
  <1> HIDE DEF o, n
  <1>3. /\ n \in KernelState
        /\ n.cur = o.cur /\ n.stat = o.stat /\ n.prio = o.prio /\ n.err = o.err
        /\ n.rq = o.rq /\ n.grp = o.grp /\ n.tmr = k.tmr \ {t} /\ n.lock = o.lock
    BY <1>1, <1>2 DEF KernelState
  <1>4. OneRunning(o)
    BY <1>0, <1>1 DEF OneRunning, KernelOK
  <1>5. KernelOK(n)
    BY <1>1, <1>3, <1>4, SameQueues DEF KernelOK, QueuesOK
  <1> QED  BY <1>1, <1>3, <1>5 DEF n

\* The start of a thread timer.
LEMMA StartTimerEffect ==
    ASSUME NEW k \in KernelState, KernelOK(k), NEW t \in Thread
    PROVE  LET n == StartTimer(k, t)
           IN  /\ n \in KernelState
               /\ KernelOK(n)
               /\ n.cur = k.cur /\ n.prio = k.prio /\ n.err = k.err /\ n.lock = k.lock
               /\ n.stat = k.stat
               /\ n.tmr = k.tmr \cup {t}
  <1> DEFINE n == StartTimer(k, t)
  <1>1. /\ n \in KernelState
        /\ n.cur = k.cur /\ n.stat = k.stat /\ n.prio = k.prio /\ n.err = k.err
        /\ n.rq = k.rq /\ n.grp = k.grp /\ n.tmr = k.tmr \cup {t} /\ n.lock = k.lock
    BY DEF StartTimer, KernelState
  <1> HIDE DEF n
  <1> QED  BY <1>1, SameQueues DEF n

\* rt_ipc_list_suspend: the thread is parked, its error number reset and its
\* timer started only if the wait has a limit.
LEMMA SuspendOnFields ==
    ASSUME NEW k \in KernelState, KernelOK(k), NEW t \in Thread,
           NEW time \in Wait, k.stat[t] \in {"READY", "RUNNING"}
    PROVE  LET n == SuspendOn(k, t, time)
           IN  /\ n \in KernelState
               /\ KernelOK(n)
               /\ n.cur = k.cur /\ n.prio = k.prio /\ n.lock = k.lock
               /\ n.stat = [k.stat EXCEPT ![t] = "SUSPEND"]
               /\ n.err = [k.err EXCEPT ![t] = "EOK"]
               /\ n.tmr = IF time = "limited" THEN k.tmr \cup {t} ELSE k.tmr \ {t}
  <1> DEFINE e == [k EXCEPT !.err[t] = "EOK"]
             s == Suspend(e, t)
             n == SuspendOn(k, t, time)
  <1>0. k.err \in [Thread -> Err] /\ k.tmr \in SUBSET Thread
    BY DEF KernelState
  <1>1. /\ e \in KernelState
        /\ e.cur = k.cur /\ e.stat = k.stat /\ e.prio = k.prio
        /\ e.err = [k.err EXCEPT ![t] = "EOK"]
        /\ e.rq = k.rq /\ e.grp = k.grp /\ e.tmr = k.tmr /\ e.lock = k.lock
    BY <1>0 DEF KernelState, Err
  <1>2. n = IF time = "limited" THEN StartTimer(s, t) ELSE s
    BY DEF SuspendOn
  <1> HIDE DEF e, n
  <1>3. KernelOK(e)
    BY <1>1, SameQueues
  <1>4. /\ s \in KernelState /\ KernelOK(s)
        /\ s.cur = k.cur /\ s.prio = k.prio /\ s.lock = k.lock
        /\ s.err = [k.err EXCEPT ![t] = "EOK"] /\ s.tmr = k.tmr \ {t}
        /\ s.stat = [k.stat EXCEPT ![t] = "SUSPEND"]
    BY <1>1, <1>3, SuspendEffect
  <1> HIDE DEF s
  <1>5. CASE time = "limited"
    <2>1. /\ n \in KernelState /\ KernelOK(n)
          /\ n.cur = s.cur /\ n.prio = s.prio /\ n.err = s.err /\ n.lock = s.lock
          /\ n.stat = s.stat /\ n.tmr = s.tmr \cup {t}
      BY <1>2, <1>4, <1>5, StartTimerEffect
    <2>2. s.tmr \cup {t} = k.tmr \cup {t}
      BY <1>4
    <2> QED  BY <1>4, <1>5, <2>1, <2>2 DEF n
  <1>6. CASE time # "limited"
    BY <1>2, <1>4, <1>6 DEF n
  <1> QED  BY <1>5, <1>6

\* The same, in three parts.
LEMMA SuspendOnEffect ==
    ASSUME NEW k \in KernelState, KernelOK(k), NEW t \in Thread,
           NEW time \in Wait, k.stat[t] \in {"READY", "RUNNING"}
    PROVE  LET n == SuspendOn(k, t, time)
           IN  /\ n \in KernelState
               /\ KernelOK(n)
               /\ n.cur = k.cur /\ n.prio = k.prio /\ n.lock = k.lock
               /\ n.stat = [k.stat EXCEPT ![t] = "SUSPEND"]
  <1>1. LET n == SuspendOn(k, t, time)
        IN  /\ n \in KernelState
            /\ KernelOK(n)
            /\ n.cur = k.cur /\ n.prio = k.prio /\ n.lock = k.lock
            /\ n.stat = [k.stat EXCEPT ![t] = "SUSPEND"]
            /\ n.err = [k.err EXCEPT ![t] = "EOK"]
            /\ n.tmr = IF time = "limited" THEN k.tmr \cup {t} ELSE k.tmr \ {t}
    BY SuspendOnFields
  <1> QED  BY <1>1

\* The error number is reset.
LEMMA SuspendOnError ==
    ASSUME NEW k \in KernelState, KernelOK(k), NEW t \in Thread,
           NEW time \in Wait, k.stat[t] \in {"READY", "RUNNING"}
    PROVE  LET n == SuspendOn(k, t, time)
           IN  n.err = [k.err EXCEPT ![t] = "EOK"]
  <1>1. LET n == SuspendOn(k, t, time)
        IN  /\ n \in KernelState
            /\ KernelOK(n)
            /\ n.cur = k.cur /\ n.prio = k.prio /\ n.lock = k.lock
            /\ n.stat = [k.stat EXCEPT ![t] = "SUSPEND"]
            /\ n.err = [k.err EXCEPT ![t] = "EOK"]
            /\ n.tmr = IF time = "limited" THEN k.tmr \cup {t} ELSE k.tmr \ {t}
    BY SuspendOnFields
  <1> QED  BY <1>1

\* The timer runs only if the wait has a limit.
LEMMA SuspendOnTimer ==
    ASSUME NEW k \in KernelState, KernelOK(k), NEW t \in Thread,
           NEW time \in Wait, k.stat[t] \in {"READY", "RUNNING"}
    PROVE  LET n == SuspendOn(k, t, time)
           IN  n.tmr = IF time = "limited" THEN k.tmr \cup {t} ELSE k.tmr \ {t}
  <1>1. LET n == SuspendOn(k, t, time)
        IN  /\ n \in KernelState
            /\ KernelOK(n)
            /\ n.cur = k.cur /\ n.prio = k.prio /\ n.lock = k.lock
            /\ n.stat = [k.stat EXCEPT ![t] = "SUSPEND"]
            /\ n.err = [k.err EXCEPT ![t] = "EOK"]
            /\ n.tmr = IF time = "limited" THEN k.tmr \cup {t} ELSE k.tmr \ {t}
    BY SuspendOnFields
  <1> QED  BY <1>1

\* Waking a parked thread with its timer stopped and some error number: what
\* rt_thread_resume, rt_thread_timeout and rt_ipc_list_resume_all have in common.
LEMMA WakeEffect ==
    ASSUME NEW k \in KernelState, KernelOK(k), NEW t \in Thread, NEW e \in Err,
           k.stat[t] = "SUSPEND"
    PROVE  LET n == Wake(k, t, e)
           IN  /\ n \in KernelState
               /\ KernelOK(n)
               /\ n.cur = k.cur /\ n.prio = k.prio /\ n.lock = k.lock
               /\ n.stat = [k.stat EXCEPT ![t] =
                               IF t = k.cur THEN "RUNNING" ELSE "READY"]
               /\ n.err = [k.err EXCEPT ![t] = e]
               /\ n.tmr = k.tmr \ {t}
  <1> DEFINE m == [k EXCEPT !.err[t] = e, !.tmr = @ \ {t}]
             n == Wake(k, t, e)
  <1>0. /\ k.stat \in [Thread -> Stat] /\ k.err \in [Thread -> Err]
        /\ k.tmr \in SUBSET Thread /\ k.cur \in Thread
    BY DEF KernelState
  <1>1. /\ m \in KernelState
        /\ m.cur = k.cur /\ m.stat = k.stat /\ m.prio = k.prio
        /\ m.err = [k.err EXCEPT ![t] = e]
        /\ m.rq = k.rq /\ m.grp = k.grp /\ m.tmr = k.tmr \ {t} /\ m.lock = k.lock
    BY <1>0 DEF KernelState
  <1> HIDE DEF m
  <1>2. QueuesOK(m)
    BY <1>1 DEF QueuesOK, KernelOK, ReadyListed, ReadyDistinct, GroupExact
  <1>3. /\ n \in KernelState /\ QueuesOK(n)
        /\ n.cur = m.cur /\ n.prio = m.prio /\ n.err = m.err
        /\ n.tmr = m.tmr /\ n.lock = m.lock
        /\ n.stat = [m.stat EXCEPT ![t] = IF t = m.cur THEN "RUNNING" ELSE "READY"]
    <2>1. n = InsertThread(m, t)
      BY DEF Wake, m
    <2> QED  BY <1>1, <1>2, <2>1, InsertThreadQueues
  <1> HIDE DEF n
  <1>4. OneRunning(n)
    BY <1>0, <1>1, <1>3 DEF OneRunning, KernelOK
  <1> QED  BY <1>1, <1>3, <1>4 DEF n, m, KernelOK, QueuesOK

\* rt_thread_resume of a suspended thread keeps its error number.
LEMMA ResumeEffect ==
    ASSUME NEW k \in KernelState, KernelOK(k), NEW t \in Thread,
           k.stat[t] = "SUSPEND"
    PROVE  LET n == Resume(k, t)
           IN  /\ n \in KernelState
               /\ KernelOK(n)
               /\ n.cur = k.cur /\ n.prio = k.prio /\ n.lock = k.lock
               /\ n.stat = [k.stat EXCEPT ![t] =
                               IF t = k.cur THEN "RUNNING" ELSE "READY"]
               /\ n.err = k.err
               /\ n.tmr = k.tmr \ {t}
  <1>1. k.err[t] \in Err /\ [k.err EXCEPT ![t] = k.err[t]] = k.err
    BY DEF KernelState
  <1>2. Resume(k, t) = Wake(k, t, k.err[t])
    BY DEF Resume
  <1> QED  BY <1>1, <1>2, WakeEffect

\* One round of rt_ipc_list_resume_all wakes the thread with -RT_ERROR.
LEMMA ResumeErrorEffect ==
    ASSUME NEW k \in KernelState, KernelOK(k), NEW t \in Thread,
           k.stat[t] = "SUSPEND"
    PROVE  LET n == ResumeError(k, t)
           IN  /\ n \in KernelState
               /\ KernelOK(n)
               /\ n.cur = k.cur /\ n.prio = k.prio /\ n.lock = k.lock
               /\ n.stat = [k.stat EXCEPT ![t] =
                               IF t = k.cur THEN "RUNNING" ELSE "READY"]
               /\ n.err = [k.err EXCEPT ![t] = "ERROR"]
               /\ n.tmr = k.tmr \ {t}
  <1> DEFINE m == [k EXCEPT !.err[t] = "ERROR"]
  <1>1. /\ m.stat[t] = "SUSPEND" /\ m.err[t] = "ERROR"
        /\ [m EXCEPT !.err[t] = "ERROR", !.tmr = @ \ {t}] =
               [k EXCEPT !.err[t] = "ERROR", !.tmr = @ \ {t}]
    BY DEF KernelState
  <1>2. ResumeError(k, t) = Wake(k, t, "ERROR")
    <2>1. ResumeError(k, t) = Resume(m, t)
      BY DEF ResumeError
    <2> HIDE DEF m
    <2> QED  BY <1>1, <2>1 DEF Resume, Wake
  <1>3. "ERROR" \in Err
    BY DEF Err
  <1> QED  BY <1>2, <1>3, WakeEffect

\* A thread that is READY is on a list, so the bitmap is not empty.
LEMMA ReadyGroup ==
    ASSUME NEW k \in KernelState, KernelOK(k), NEW t \in Thread, k.stat[t] = "READY"
    PROVE  k.grp # {}
  <1>1. k.prio[t] \in Prio /\ t \in ToSet(k.rq[k.prio[t]])
    BY DEF KernelOK, ReadyListed, KernelState
  <1>2. k.rq[k.prio[t]] # << >>
    BY <1>1, EmptyList DEF KernelState
  <1> QED  BY <1>1, <1>2 DEF KernelOK, GroupExact

\* As long as the idle thread is never parked and the scheduler is not locked,
\* rt_schedule always leaves a RUNNING thread that no READY thread outranks.
LEMMA ScheduleWithIdle ==
    ASSUME NEW k \in KernelState, KernelOK(k), k.lock = 0,
           k.stat[Idle] \in {"READY", "RUNNING"}
    PROVE  LET n == Schedule(k)
           IN  /\ n \in KernelState
               /\ KernelOK(n)
               /\ n.prio = k.prio /\ n.err = k.err /\ n.tmr = k.tmr /\ n.lock = 0
               /\ \A t \in Thread : n.stat[t] = "SUSPEND" <=> k.stat[t] = "SUSPEND"
               /\ n.stat[Idle] \in {"READY", "RUNNING"}
               /\ n.stat[n.cur] = "RUNNING"
               /\ TopRuns(n)
  <1> DEFINE n == Schedule(k)
  <1>1. /\ n \in KernelState
        /\ KernelOK(n)
        /\ n.prio = k.prio /\ n.err = k.err
        /\ n.tmr = k.tmr /\ n.lock = k.lock
        /\ \A t \in Inactive(k) : n.stat[t] = k.stat[t]
        /\ Inactive(n) = Inactive(k)
        /\ k.lock = 0 /\ k.grp # {} => n.stat[n.cur] = "RUNNING" /\ TopRuns(n)
        /\ k.grp = {} => n = k
    BY ScheduleEffect
  <1> HIDE DEF n
  <1>2. \A t \in Thread : n.stat[t] = "SUSPEND" <=> k.stat[t] = "SUSPEND"
    BY <1>1 DEF Inactive
  <1>3. n.stat[Idle] \in {"READY", "RUNNING"}
    BY <1>1, KernelAssumption DEF Inactive
  <1>4. CASE k.grp = {}
    <2>1. \A t \in Thread : k.stat[t] # "READY"
      BY <1>4, ReadyGroup
    <2>2. k.stat[k.cur] = "RUNNING"
      BY <2>1, KernelAssumption DEF KernelOK, OneRunning
    <2> QED  BY <1>1, <1>2, <1>3, <1>4, <2>1, <2>2 DEF TopRuns, n
  <1> QED  BY <1>1, <1>2, <1>3, <1>4 DEF n

\* InsertAt moves the elements from position i on by one.
LEMMA InsertAtPlaces ==
    ASSUME NEW S, NEW s \in Seq(S), NEW e \in S, NEW i \in 1 .. Len(s)
    PROVE  /\ InsertAt(s, i, e) \in Seq(S)
           /\ Len(InsertAt(s, i, e)) = Len(s) + 1
           /\ \A j \in 1 .. Len(s) + 1 :
                 InsertAt(s, i, e)[j] =
                     IF j < i THEN s[j] ELSE IF j = i THEN e ELSE s[j - 1]
  <1> DEFINE l == SubSeq(s, 1, i - 1)
             r == SubSeq(s, i, Len(s))
             x == l \o <<e>>
             w == x \o r
  <1>1. Len(s) \in Nat /\ i \in Nat /\ 1 <= i /\ i <= Len(s) /\ DOMAIN s = 1 .. Len(s)
    BY LenProperties
  <1>2. \A j \in 1 .. Len(s) : s[j] \in S
    BY ElementOfSeq
  <1>3. /\ l \in Seq(S) /\ Len(l) = i - 1
        /\ \A j \in 1 .. i - 1 : l[j] = s[j]
    <2>1. /\ l \in Seq(S)
          /\ Len(l) = IF 1 <= i - 1 THEN i - 1 - 1 + 1 ELSE 0
          /\ \A j \in 1 .. i - 1 - 1 + 1 : l[j] = s[1 + j - 1]
      BY <1>1, <1>2, SubSeqProperties, \A j \in 1 .. i - 1 : s[j] \in S
    <2> QED  BY <1>1, <2>1
  <1>4. /\ r \in Seq(S) /\ Len(r) = Len(s) - i + 1
        /\ \A j \in 1 .. Len(s) - i + 1 : r[j] = s[i + j - 1]
    <2>1. /\ r \in Seq(S)
          /\ Len(r) = IF i <= Len(s) THEN Len(s) - i + 1 ELSE 0
          /\ \A j \in 1 .. Len(s) - i + 1 : r[j] = s[i + j - 1]
      BY <1>1, <1>2, SubSeqProperties, \A j \in i .. Len(s) : s[j] \in S
    <2> QED  BY <1>1, <2>1
  <1> HIDE DEF l, r
  <1>5. /\ <<e>> \in Seq(S) /\ Len(<<e>>) = 1 /\ <<e>>[1] = e
    OBVIOUS
  <1>6. /\ x \in Seq(S) /\ Len(x) = i
        /\ \A j \in 1 .. i : x[j] = IF j < i THEN s[j] ELSE e
    <2>1. /\ x \in Seq(S) /\ Len(x) = Len(l) + Len(<<e>>)
          /\ \A j \in 1 .. Len(l) + Len(<<e>>) :
                x[j] = IF j <= Len(l) THEN l[j] ELSE <<e>>[j - Len(l)]
      BY <1>3, <1>5, ConcatProperties
    <2> QED  BY <1>1, <1>3, <1>5, <2>1
  <1> HIDE DEF x
  <1>7. /\ w \in Seq(S) /\ Len(w) = Len(s) + 1
        /\ \A j \in 1 .. Len(s) + 1 :
              w[j] = IF j < i THEN s[j] ELSE IF j = i THEN e ELSE s[j - 1]
    <2>1. /\ w \in Seq(S) /\ Len(w) = Len(x) + Len(r)
          /\ \A j \in 1 .. Len(x) + Len(r) :
                w[j] = IF j <= Len(x) THEN x[j] ELSE r[j - Len(x)]
      BY <1>4, <1>6, ConcatProperties
    <2> QED  BY <1>1, <1>4, <1>6, <2>1
  <1>8. InsertAt(s, i, e) = w
    BY DEF InsertAt, w, x, l, r
  <1> QED  BY <1>7, <1>8

\* InsertAt adds one element.
LEMMA InsertAtList ==
    ASSUME NEW S, NEW s \in Seq(S), NEW e \in S, NEW i \in 1 .. Len(s)
    PROVE  /\ InsertAt(s, i, e) \in Seq(S)
           /\ ToSet(InsertAt(s, i, e)) = ToSet(s) \cup {e}
           /\ Distinct(s) /\ e \notin ToSet(s) => Distinct(InsertAt(s, i, e))
  <1> DEFINE w == InsertAt(s, i, e)
  <1>1. Len(s) \in Nat /\ i \in Nat /\ 1 <= i /\ i <= Len(s) /\ DOMAIN s = 1 .. Len(s)
    BY LenProperties
  <1>2. /\ w \in Seq(S) /\ Len(w) = Len(s) + 1
        /\ \A j \in 1 .. Len(s) + 1 :
              w[j] = IF j < i THEN s[j] ELSE IF j = i THEN e ELSE s[j - 1]
    BY InsertAtPlaces
  <1> HIDE DEF w
  <1>3. DOMAIN w = 1 .. Len(s) + 1
    BY <1>2, LenProperties
  <1>4. ASSUME NEW y \in ToSet(w) PROVE y \in ToSet(s) \cup {e}
    <2>1. PICK j \in 1 .. Len(s) + 1 : w[j] = y
      BY <1>3 DEF ToSet
    <2>2. CASE j = i
      BY <1>2, <2>1, <2>2
    <2>3. CASE j < i
      BY <1>1, <1>2, <2>1, <2>3 DEF ToSet
    <2>4. CASE j > i
      <3>1. j - 1 \in 1 .. Len(s) /\ s[j - 1] = y
        BY <1>1, <1>2, <2>1, <2>4
      <3> QED  BY <1>1, <3>1 DEF ToSet
    <2> QED  BY <1>1, <2>1, <2>2, <2>3, <2>4
  <1>5. e \in ToSet(w)
    BY <1>1, <1>2, <1>3 DEF ToSet
  <1>6. ASSUME NEW y \in ToSet(s) PROVE y \in ToSet(w)
    <2>1. PICK j \in 1 .. Len(s) : s[j] = y
      BY <1>1 DEF ToSet
    <2>2. CASE j < i
      BY <1>1, <1>2, <1>3, <2>1, <2>2 DEF ToSet
    <2>3. CASE j >= i
      <3>1. j + 1 \in 1 .. Len(s) + 1 /\ w[j + 1] = y
        BY <1>1, <1>2, <2>1, <2>3
      <3> QED  BY <1>3, <3>1 DEF ToSet
    <2> QED  BY <1>1, <2>1, <2>2, <2>3
  <1>7. ASSUME Distinct(s), e \notin ToSet(s) PROVE Distinct(w)
    <2>1. \A j \in 1 .. Len(s) : s[j] # e
      BY <1>1, <1>7 DEF ToSet
    <2> SUFFICES ASSUME NEW a \in 1 .. Len(s) + 1, NEW b \in 1 .. Len(s) + 1,
                        w[a] = w[b]
                 PROVE  a = b
      BY <1>3 DEF Distinct
    <2> DEFINE f(j) == IF j < i THEN j ELSE j - 1
    <2>2. a = i <=> b = i
      BY <1>1, <1>2, <2>1
    <2>3. CASE a # i /\ b # i
      <3>1. f(a) \in 1 .. Len(s) /\ f(b) \in 1 .. Len(s)
        BY <1>1, <2>3
      <3>2. w[a] = s[f(a)] /\ w[b] = s[f(b)]
        BY <1>1, <1>2, <2>3
      <3>3. f(a) = f(b)
        BY <1>1, <1>7, <3>1, <3>2 DEF Distinct
      <3> QED  BY <1>1, <2>3, <3>3
    <2> QED  BY <2>2, <2>3
  <1> QED  BY <1>2, <1>4, <1>5, <1>6, <1>7 DEF w

\* The two places at which rt_ipc_list_suspend puts a thread on a wait list.
LEMMA EnqueueWaiterForm ==
    ASSUME NEW k, NEW S, NEW q \in Seq(S), NEW t \in S, NEW flag
    PROVE  \/ EnqueueWaiter(k, q, t, flag) = Append(q, t)
           \/ \E i \in 1 .. Len(q) : EnqueueWaiter(k, q, t, flag) = InsertAt(q, i, t)
  <1> DEFINE P == {j \in 1 .. Len(q) : k.prio[t] < k.prio[q[j]]}
             i == IF P # {} THEN Min(P) ELSE 0
             w == EnqueueWaiter(k, q, t, flag)
  <1>1. i = 0 \/ i \in 1 .. Len(q)
    <2>1. P \in SUBSET (1 .. Len(q))
      OBVIOUS
    <2> HIDE DEF P
    <2> QED  BY <2>1, SelectPosition
  <1>2. w = IF flag = "FIFO" \/ i = 0 THEN Append(q, t) ELSE InsertAt(q, i, t)
    BY DEF EnqueueWaiter, SelectInSeq
  <1> HIDE DEF i, w
  <1> QED  BY <1>1, <1>2 DEF w

\* Whatever the flag, the thread joins the wait list.
LEMMA EnqueueWaiterSet ==
    ASSUME NEW k, NEW S, NEW q \in Seq(S), NEW t \in S, NEW flag
    PROVE  ToSet(EnqueueWaiter(k, q, t, flag)) = ToSet(q) \cup {t}
  <1> DEFINE w == EnqueueWaiter(k, q, t, flag)
  <1>1. w = Append(q, t) \/ \E i \in 1 .. Len(q) : w = InsertAt(q, i, t)
    BY EnqueueWaiterForm
  <1> HIDE DEF w
  <1>2. CASE w = Append(q, t)
    <2>1. ToSet(Append(q, t)) = ToSet(q) \cup {t}
      BY AppendList
    <2> QED  BY <1>2, <2>1 DEF w
  <1>3. ASSUME NEW i \in 1 .. Len(q), w = InsertAt(q, i, t)
        PROVE  ToSet(w) = ToSet(q) \cup {t}
    <2>1. ToSet(InsertAt(q, i, t)) = ToSet(q) \cup {t}
      BY InsertAtList
    <2> QED  BY <1>3, <2>1
  <1> QED  BY <1>1, <1>2, <1>3 DEF w

\* It is a list with at least one member.
LEMMA EnqueueWaiterType ==
    ASSUME NEW k, NEW S, NEW q \in Seq(S), NEW t \in S, NEW flag
    PROVE  EnqueueWaiter(k, q, t, flag) \in Seq(S) /\ EnqueueWaiter(k, q, t, flag) # << >>
  <1> DEFINE w == EnqueueWaiter(k, q, t, flag)
  <1>1. w = Append(q, t) \/ \E i \in 1 .. Len(q) : w = InsertAt(q, i, t)
    BY EnqueueWaiterForm
  <1>2. ToSet(w) = ToSet(q) \cup {t}
    BY EnqueueWaiterSet
  <1> HIDE DEF w
  <1>3. w \in Seq(S)
    <2>1. CASE w = Append(q, t)
      BY <2>1, AppendList
    <2>2. ASSUME NEW i \in 1 .. Len(q), w = InsertAt(q, i, t) PROVE w \in Seq(S)
      BY <2>2, InsertAtList
    <2> QED  BY <1>1, <2>1, <2>2
  <1>4. w # << >>
    BY <1>2, <1>3, EmptyList
  <1> QED  BY <1>3, <1>4 DEF w

\* A thread that was not on it yet is on it once.
LEMMA EnqueueWaiterDistinct ==
    ASSUME NEW k, NEW S, NEW q \in Seq(S), NEW t \in S, NEW flag,
           Distinct(q), t \notin ToSet(q)
    PROVE  Distinct(EnqueueWaiter(k, q, t, flag))
  <1> DEFINE w == EnqueueWaiter(k, q, t, flag)
  <1>1. w = Append(q, t) \/ \E i \in 1 .. Len(q) : w = InsertAt(q, i, t)
    BY EnqueueWaiterForm
  <1> HIDE DEF w
  <1>2. CASE w = Append(q, t)
    <2>1. Distinct(Append(q, t))
      BY AppendList
    <2> QED  BY <1>2, <2>1 DEF w
  <1>3. ASSUME NEW i \in 1 .. Len(q), w = InsertAt(q, i, t) PROVE Distinct(w)
    <2>1. Distinct(InsertAt(q, i, t))
      BY InsertAtList
    <2> QED  BY <1>3, <2>1
  <1> QED  BY <1>1, <1>2, <1>3 DEF w

-----------------------------------------------------------------------------
(* rt_thread_control(RT_THREAD_CTRL_CHANGE_PRIORITY) *)

\* A thread that is not on a ready list can get any priority.
LEMMA SetPrio ==
    ASSUME NEW k \in KernelState, NEW t \in Thread, NEW p \in Prio,
           QueuesOK(k), k.stat[t] # "READY",
           NEW n \in KernelState, n.prio = [k.prio EXCEPT ![t] = p],
           n.stat = k.stat, n.rq = k.rq, n.grp = k.grp
    PROVE  QueuesOK(n)
  <1>1. ReadyListed(n)
    BY DEF QueuesOK, ReadyListed, KernelState
  <1> QED  BY <1>1 DEF QueuesOK, ReadyDistinct, GroupExact

\* A READY thread moves to the ready list of its new priority; nothing else
\* about the threads changes.
LEMMA ChangePriorityEffect ==
    ASSUME NEW k \in KernelState, KernelOK(k), NEW t \in Thread, NEW p \in Prio
    PROVE  LET n == ChangePriority(k, t, p)
           IN  /\ n \in KernelState
               /\ KernelOK(n)
               /\ n.cur = k.cur /\ n.stat = k.stat /\ n.err = k.err
               /\ n.tmr = k.tmr /\ n.lock = k.lock
               /\ n.prio = [k.prio EXCEPT ![t] = p]
  <1> DEFINE n == ChangePriority(k, t, p)
  <1>0. QueuesOK(k) /\ OneRunning(k) /\ k.stat \in [Thread -> Stat] /\ k.cur \in Thread
    BY DEF KernelOK, QueuesOK, KernelState
  <1>1. ASSUME k.stat[t] # "READY"
        PROVE  /\ n \in KernelState
               /\ QueuesOK(n)
               /\ n.cur = k.cur /\ n.stat = k.stat /\ n.err = k.err
               /\ n.tmr = k.tmr /\ n.lock = k.lock
               /\ n.prio = [k.prio EXCEPT ![t] = p]
    <2> DEFINE m == [k EXCEPT !.prio[t] = p]
    <2>1. /\ m \in KernelState
          /\ m.cur = k.cur /\ m.stat = k.stat /\ m.err = k.err
          /\ m.tmr = k.tmr /\ m.lock = k.lock /\ m.rq = k.rq /\ m.grp = k.grp
          /\ m.prio = [k.prio EXCEPT ![t] = p]
      BY DEF KernelState
    <2>2. n = m
      BY <1>1 DEF ChangePriority
    <2> HIDE DEF m, n
    <2>3. QueuesOK(m)
      BY <1>0, <1>1, <2>1, SetPrio
    <2> QED  BY <2>1, <2>2, <2>3
  <1>2. ASSUME k.stat[t] = "READY"
        PROVE  /\ n \in KernelState
               /\ QueuesOK(n)
               /\ n.cur = k.cur /\ n.stat = k.stat /\ n.err = k.err
               /\ n.tmr = k.tmr /\ n.lock = k.lock
               /\ n.prio = [k.prio EXCEPT ![t] = p]
    <2> DEFINE r == [RemoveThread(k, t) EXCEPT !.prio[t] = p]
               o == TakeOff(k, t, "SUSPEND")
               m == [o EXCEPT !.prio[t] = p]
    <2>1. t # k.cur
      BY <1>0, <1>2 DEF OneRunning
    <2>2. /\ o \in KernelState /\ QueuesOK(o)
          /\ o.cur = k.cur /\ o.prio = k.prio /\ o.err = k.err
          /\ o.tmr = k.tmr /\ o.lock = k.lock
          /\ o.stat = [k.stat EXCEPT ![t] = "SUSPEND"]
      BY <1>0, TakeOffQueues DEF Stat
    <2>3. n = InsertThread(r, t)
      BY <1>2 DEF ChangePriority
    <2>4. InsertThread(r, t) = InsertThread(m, t)
      <3> DEFINE q == RemoveFirst(k.rq[k.prio[t]], t)
                 a == [k.rq EXCEPT ![k.prio[t]] = q]
                 b == IF q = << >> THEN k.grp \ {k.prio[t]} ELSE k.grp
                 c == [k.prio EXCEPT ![t] = p]
                 d == [k.stat EXCEPT ![t] = "SUSPEND"]
      <3>1. /\ r = [k EXCEPT !.rq = a, !.grp = b, !.prio = c]
            /\ m = [k EXCEPT !.rq = a, !.grp = b, !.prio = c, !.stat = d]
        BY DEF TakeOff, RemoveThread, KernelState
      <3> HIDE DEF q, a, b, c, r, m
      <3>2. /\ r.cur = k.cur /\ r.stat = k.stat /\ r.prio = c /\ r.rq = a /\ r.grp = b
            /\ m.cur = k.cur /\ m.stat = d /\ m.prio = c /\ m.rq = a /\ m.grp = b
        BY <3>1 DEF KernelState
      <3> DEFINE e == [a EXCEPT ![c[t]] = Append(a[c[t]], t)]
                 f == b \cup {c[t]}
      <3>3. /\ InsertThread(r, t) = [r EXCEPT !.stat = [k.stat EXCEPT ![t] = "READY"],
                                              !.rq = e, !.grp = f]
            /\ InsertThread(m, t) = [m EXCEPT !.stat = [d EXCEPT ![t] = "READY"],
                                              !.rq = e, !.grp = f]
        BY <2>1, <3>2 DEF InsertThread
      <3>4. [d EXCEPT ![t] = "READY"] = [k.stat EXCEPT ![t] = "READY"]
        BY <1>0
      <3> DEFINE g == [k.stat EXCEPT ![t] = "READY"]
      <3>5. /\ InsertThread(r, t) = [r EXCEPT !.stat = g, !.rq = e, !.grp = f]
            /\ InsertThread(m, t) = [m EXCEPT !.stat = g, !.rq = e, !.grp = f]
        BY <3>3, <3>4
      <3> HIDE DEF d, e, f, g
      <3> QED  BY <3>1, <3>5, ZenonT(40) DEF KernelState
    <2> HIDE DEF r, o
    <2>5. o.stat[t] = "SUSPEND"
      BY <1>0, <2>2
    <2>6. /\ m \in KernelState /\ QueuesOK(m)
          /\ m.cur = o.cur /\ m.stat = o.stat /\ m.err = o.err
          /\ m.tmr = o.tmr /\ m.lock = o.lock
          /\ m.prio = [o.prio EXCEPT ![t] = p]
      <3>1. /\ m \in KernelState
            /\ m.cur = o.cur /\ m.stat = o.stat /\ m.err = o.err
            /\ m.tmr = o.tmr /\ m.lock = o.lock /\ m.rq = o.rq /\ m.grp = o.grp
            /\ m.prio = [o.prio EXCEPT ![t] = p]
        BY <2>2 DEF KernelState
      <3> HIDE DEF m
      <3>2. QueuesOK(m)
        BY <2>2, <2>5, <3>1, SetPrio
      <3> QED  BY <3>1, <3>2
    <2> HIDE DEF m, n
    <2>7. /\ n \in KernelState /\ QueuesOK(n)
          /\ n.cur = m.cur /\ n.prio = m.prio /\ n.err = m.err
          /\ n.tmr = m.tmr /\ n.lock = m.lock
          /\ n.stat = [m.stat EXCEPT ![t] = IF t = m.cur THEN "RUNNING" ELSE "READY"]
      BY <2>3, <2>4, <2>5, <2>6, InsertThreadQueues
    <2>8. n.stat = k.stat
      BY <1>0, <1>2, <2>1, <2>2, <2>6, <2>7
    <2> QED  BY <2>2, <2>6, <2>7, <2>8
  <1> HIDE DEF n
  <1>3. OneRunning(n)
    BY <1>0, <1>1, <1>2 DEF OneRunning
  <1> QED  BY <1>1, <1>2, <1>3 DEF n, KernelOK, QueuesOK

-----------------------------------------------------------------------------
(* Lists in priority order *)

\* The order of a wait list with RT_IPC_FLAG_PRIO.
ByUrgency(q, prio) == \A i, j \in 1 .. Len(q) : i < j => prio[q[i]] <= prio[q[j]]

Ranks(prio, S) == \A t \in S : prio[t] \in Nat

\* rt_ipc_list_resume of the first waiter keeps the order.
LEMMA TailInOrder ==
    ASSUME NEW S, NEW q \in Seq(S), q # << >>, NEW prio, ByUrgency(q, prio)
    PROVE  ByUrgency(Tail(q), prio)
  <1>1. /\ Len(q) \in Nat /\ Len(q) > 0
        /\ Len(Tail(q)) = Len(q) - 1
        /\ \A i \in 1 .. Len(q) - 1 : Tail(q)[i] = q[i + 1]
    BY EmptySeq, HeadTailProperties
  <1> QED  BY <1>1 DEF ByUrgency

\* The timeout of any waiter keeps the order.
LEMMA RemoveFirstInOrder ==
    ASSUME NEW S, NEW q \in Seq(S), NEW e, NEW prio, ByUrgency(q, prio)
    PROVE  ByUrgency(RemoveFirst(q, e), prio)
  <1>1. Len(q) \in Nat
    BY LenProperties
  <1>2. CASE ~ \E i \in 1 .. Len(q) : q[i] = e
    BY <1>2 DEF RemoveFirst
  <1>3. CASE \E i \in 1 .. Len(q) : q[i] = e
    <2> DEFINE P == {i \in 1 .. Len(q) : q[i] = e}
               m == Min(P)
               r == RemoveAt(q, m)
    <2>1. m \in P
      <3>1. P \in SUBSET (1 .. Len(q)) /\ P # {}
        BY <1>3
      <3> HIDE DEF P
      <3> QED  BY <3>1, SelectPosition
    <2>2. RemoveFirst(q, e) = r
      BY <1>3, <2>1 DEF RemoveFirst, SelectInSeq
    <2>3. m \in 1 .. Len(q)
      BY <2>1
    <2> HIDE DEF m
    <2>4. /\ Len(r) = Len(q) - 1
          /\ \A j \in 1 .. Len(q) - 1 : r[j] = IF j < m THEN q[j] ELSE q[j + 1]
      BY <2>3, RemoveAtList
    <2> HIDE DEF r
    <2> QED  BY <1>1, <2>2, <2>3, <2>4 DEF ByUrgency
  <1> QED  BY <1>2, <1>3

\* An insertion before the first element that ranks behind x: everyone before
\* that place ranks no later, everyone from it on ranks later.
LEMMA InsertInOrder ==
    ASSUME NEW S, NEW q \in Seq(S), NEW x \in S, NEW rank, \A y \in S : rank[y] \in Int,
           ByUrgency(q, rank)
    PROVE  LET P == {j \in 1 .. Len(q) : rank[x] < rank[q[j]]}
               i == IF P # {} THEN Min(P) ELSE 0
           IN  ByUrgency(IF i = 0 THEN Append(q, x) ELSE InsertAt(q, i, x), rank)
  <1> DEFINE P == {j \in 1 .. Len(q) : rank[x] < rank[q[j]]}
             i == IF P # {} THEN Min(P) ELSE 0
             w == IF i = 0 THEN Append(q, x) ELSE InsertAt(q, i, x)
             r(j) == rank[q[j]]
  <1>1. Len(q) \in Nat /\ \A j \in 1 .. Len(q) : r(j) \in Int
    BY LenProperties, ElementOfSeq
  <1>2. rank[x] \in Int
    OBVIOUS
  <1>3. w = IF i = 0 THEN Append(q, x) ELSE InsertAt(q, i, x)
    OBVIOUS
  <1> HIDE DEF w
  <1>4. ASSUME P = {} PROVE ByUrgency(w, rank)
    <2>1. \A j \in 1 .. Len(q) : r(j) <= rank[x]
      BY <1>1, <1>2, <1>4
    <2>2. w = Append(q, x)
      BY <1>3, <1>4
    <2>3. /\ Len(w) = Len(q) + 1
          /\ \A j \in 1 .. Len(q) : w[j] = q[j]
          /\ w[Len(q) + 1] = x
      BY <2>2, AppendProperties
    <2> QED  BY <1>1, <2>1, <2>3 DEF ByUrgency
  <1>5. ASSUME P # {} PROVE ByUrgency(w, rank)
    <2>1. i \in P /\ \A j \in P : i <= j
      <3>1. P \in SUBSET Nat
        BY <1>1
      <3> HIDE DEF P
      <3>2. \E m \in P : \A n \in P : m <= n
        BY <1>5, <3>1, LeastNat
      <3>3. i = Min(P)
        BY <1>5
      <3> QED  BY <3>2, <3>3 DEF Min
    <2> HIDE DEF i
    <2>2. /\ i \in 1 .. Len(q) /\ rank[x] < r(i)
          /\ \A j \in 1 .. Len(q) : j < i => r(j) <= rank[x]
      BY <1>1, <1>2, <2>1
    <2>3. \A j \in 1 .. Len(q) : i <= j => rank[x] <= r(j)
      BY <1>1, <1>2, <2>2 DEF ByUrgency
    <2>4. i # 0
      BY <2>2
    <2>5. /\ Len(w) = Len(q) + 1
          /\ \A j \in 1 .. Len(q) + 1 :
                w[j] = IF j < i THEN q[j] ELSE IF j = i THEN x ELSE q[j - 1]
      BY <1>3, <2>2, <2>4, InsertAtPlaces
    <2> SUFFICES ASSUME NEW a \in 1 .. Len(w), NEW b \in 1 .. Len(w), a < b
                 PROVE  rank[w[a]] <= rank[w[b]]
      BY DEF ByUrgency
    <2>6. CASE b < i
      BY SMTT(40), <1>1, <2>2, <2>5, <2>6 DEF ByUrgency
    <2>7. CASE b = i
      BY <1>1, <2>2, <2>5, <2>7
    <2>8. CASE a = i
      <3>1. b - 1 \in 1 .. Len(q) /\ i <= b - 1 /\ w[a] = x /\ w[b] = q[b - 1]
        BY <1>1, <2>2, <2>5, <2>8
      <3> QED  BY <2>3, <3>1
    <2>9. CASE a < i /\ b > i
      <3>1. w[a] = q[a] /\ w[b] = q[b - 1]
        BY <1>1, <2>2, <2>5, <2>9
      <3>2. a \in 1 .. Len(q) /\ b - 1 \in 1 .. Len(q) /\ i <= b - 1
        BY <1>1, <2>2, <2>5, <2>9
      <3>3. r(a) <= rank[x] /\ rank[x] <= r(b - 1)
        BY <2>2, <2>3, <2>9, <3>2
      <3> QED  BY <1>1, <1>2, <3>1, <3>2, <3>3
    <2>10. CASE a > i
      <3>1. /\ a - 1 \in 1 .. Len(q) /\ b - 1 \in 1 .. Len(q) /\ a - 1 < b - 1
            /\ w[a] = q[a - 1] /\ w[b] = q[b - 1]
        BY <1>1, <2>2, <2>5, <2>10
      <3> QED  BY <3>1 DEF ByUrgency
    <2> QED  BY <1>1, <2>2, <2>5, <2>6, <2>7, <2>8, <2>9, <2>10
  <1> QED  BY <1>4, <1>5 DEF w

\* A new waiter goes before the first one of lower priority.
LEMMA EnqueueInOrder ==
    ASSUME NEW m, NEW S, NEW q \in Seq(S), NEW t \in S,
           Ranks(m.prio, S), ByUrgency(q, m.prio)
    PROVE  ByUrgency(EnqueueWaiter(m, q, t, "PRIO"), m.prio)
  <1> DEFINE P == {j \in 1 .. Len(q) : m.prio[t] < m.prio[q[j]]}
             i == IF P # {} THEN Min(P) ELSE 0
             w == IF i = 0 THEN Append(q, t) ELSE InsertAt(q, i, t)
  <1>1. EnqueueWaiter(m, q, t, "PRIO") = w
    BY DEF EnqueueWaiter, SelectInSeq
  <1>2. PICK rank : rank = m.prio
    OBVIOUS
  <1>3. \A y \in S : rank[y] \in Int
    BY <1>2 DEF Ranks
  <1>4. ByUrgency(w, m.prio)
    BY <1>2, <1>3, InsertInOrder
  <1> QED  BY <1>1, <1>4

-----------------------------------------------------------------------------
(* The scheduler lock, and rt_thread_resume with interrupts enabled *)

\* A thread that is on no list is not there to be removed.
LEMMA RemoveAbsent ==
    ASSUME NEW S, NEW s \in Seq(S), NEW e, e \notin ToSet(s)
    PROVE  RemoveFirst(s, e) = s
  <1>1. ~ \E i \in 1 .. Len(s) : s[i] = e
    BY LenProperties DEF ToSet
  <1> QED  BY <1>1 DEF RemoveFirst

\* The first section of rt_thread_resume of a thread that is not ready stops its
\* timer.
LEMMA ResumeOffEffect ==
    ASSUME NEW k \in KernelState, KernelOK(k), NEW t \in Thread, k.stat[t] # "READY"
    PROVE  LET n == ResumeOff(k, t)
           IN  /\ n \in KernelState
               /\ KernelOK(n)
               /\ n.cur = k.cur /\ n.prio = k.prio /\ n.err = k.err /\ n.lock = k.lock
               /\ n.stat = k.stat
               /\ n.tmr = k.tmr \ {t}
  <1> DEFINE n == ResumeOff(k, t)
  <1>1. \A p \in Prio : RemoveFirst(k.rq[p], t) = k.rq[p]
    <2> TAKE p \in Prio
    <2>1. k.rq[p] \in Seq(Thread) /\ t \notin ToSet(k.rq[p])
      BY DEF KernelState, KernelOK, ReadyListed
    <2> QED  BY <2>1, RemoveAbsent
  <1>2. [p \in Prio |-> RemoveFirst(k.rq[p], t)] = k.rq
    BY <1>1 DEF KernelState
  <1>3. n = [k EXCEPT !.rq = k.rq, !.tmr = k.tmr \ {t}]
    BY <1>2 DEF ResumeOff
  <1> HIDE DEF n
  <1>4. /\ n \in KernelState
        /\ n.cur = k.cur /\ n.prio = k.prio /\ n.err = k.err /\ n.lock = k.lock
        /\ n.stat = k.stat /\ n.rq = k.rq /\ n.grp = k.grp /\ n.tmr = k.tmr \ {t}
    BY <1>3 DEF KernelState
  <1>5. KernelOK(n)
    BY <1>4, SameQueues
  <1> QED  BY <1>4, <1>5 DEF n

\* The nesting of the lock is a field of its own.
LEMMA SetLock ==
    ASSUME NEW k \in KernelState, NEW l \in Nat
    PROVE  LET n == [k EXCEPT !.lock = l]
           IN  /\ n \in KernelState
               /\ n.cur = k.cur /\ n.prio = k.prio /\ n.err = k.err /\ n.lock = l
               /\ n.stat = k.stat /\ n.rq = k.rq /\ n.grp = k.grp /\ n.tmr = k.tmr
  BY DEF KernelState

\* rt_enter_critical only counts.
LEMMA EnterCriticalEffect ==
    ASSUME NEW k \in KernelState, KernelOK(k)
    PROVE  LET n == EnterCritical(k)
           IN  /\ n \in KernelState
               /\ KernelOK(n)
               /\ n.cur = k.cur /\ n.prio = k.prio /\ n.err = k.err
               /\ n.stat = k.stat /\ n.tmr = k.tmr /\ n.lock = k.lock + 1
  <1> DEFINE n == EnterCritical(k)
  <1>1. /\ n \in KernelState
        /\ n.cur = k.cur /\ n.prio = k.prio /\ n.err = k.err /\ n.lock = k.lock + 1
        /\ n.stat = k.stat /\ n.rq = k.rq /\ n.grp = k.grp /\ n.tmr = k.tmr
    <2>1. n = [k EXCEPT !.lock = k.lock + 1] /\ k.lock + 1 \in Nat
      BY DEF EnterCritical, KernelState
    <2> QED  BY <2>1, SetLock
  <1> HIDE DEF n
  <1>2. KernelOK(n)
    BY <1>1, SameQueues
  <1> QED  BY <1>1, <1>2 DEF n

\* rt_exit_critical before its rt_schedule, with the lock taken once.
LEMMA ExitCriticalEffect ==
    ASSUME NEW k \in KernelState, KernelOK(k), k.lock = 1
    PROVE  LET n == ExitCritical(k)
           IN  /\ n \in KernelState
               /\ KernelOK(n)
               /\ n.cur = k.cur /\ n.prio = k.prio /\ n.err = k.err
               /\ n.stat = k.stat /\ n.tmr = k.tmr /\ n.lock = 0
  <1> DEFINE n == ExitCritical(k)
  <1>1. /\ n \in KernelState
        /\ n.cur = k.cur /\ n.prio = k.prio /\ n.err = k.err /\ n.lock = 0
        /\ n.stat = k.stat /\ n.rq = k.rq /\ n.grp = k.grp /\ n.tmr = k.tmr
    <2>1. n = [k EXCEPT !.lock = 0]
      BY DEF ExitCritical
    <2> QED  BY <2>1, SetLock
  <1> HIDE DEF n
  <1>2. KernelOK(n)
    BY <1>1, SameQueues
  <1> QED  BY <1>1, <1>2 DEF n

-----------------------------------------------------------------------------
(* The elements of a set, in a sequence *)

LEMMA SetInSequence ==
    ASSUME NEW A, IsFiniteSet(A)
    PROVE  LET s == SetToSeq(A)
           IN  s \in Seq(A) /\ Distinct(s) /\ ToSet(s) = A /\ Len(s) = Cardinality(A)
  <1> DEFINE s == SetToSeq(A)
             n == Cardinality(A)
  <1>1. n \in Nat /\ ExistsBijection(1 .. n, A)
    BY FS_CardinalityType
  <1>2. \E f \in [1 .. n -> A] : IsInjective(f)
    BY <1>1 DEF ExistsBijection, Bijection, Injection, IsInjective
  <1>3. s = CHOOSE f \in [1 .. n -> A] : IsInjective(f)
    BY DEF SetToSeq
  <1> HIDE DEF s
  <1>4. s \in [1 .. n -> A] /\ IsInjective(s)
    BY <1>2, <1>3
  <1>5. s \in Injection(1 .. n, A)
    BY <1>4 DEF Injection, IsInjective
  <1>6. Cardinality(1 .. n) = n
    <2>1. Cardinality(1 .. n) = IF 1 > n THEN 0 ELSE n - 1 + 1
      BY <1>1, FS_Interval
    <2> QED  BY <1>1, <2>1
  <1>7. s \in Surjection(1 .. n, A)
    BY <1>5, <1>6, FS_Injection
  <1>8. s \in Seq(A) /\ Len(s) = n /\ DOMAIN s = 1 .. n
    BY <1>1, <1>4, LenProperties
  <1>9. ToSet(s) = A
    BY <1>4, <1>7, <1>8 DEF Surjection, ToSet
  <1>10. Distinct(s)
    BY <1>4, <1>8 DEF Distinct, IsInjective
  <1> QED  BY <1>8, <1>9, <1>10 DEF s
=============================================================================
