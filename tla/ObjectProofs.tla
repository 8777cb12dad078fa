---------------------------- MODULE ObjectProofs ----------------------------
(***************************************************************************)
(* The safety of the objects of module MCServices that have wait lists:    *)
(* event, memory pool, completion, data queue, console line and work       *)
(* queue, each for any number of threads, priorities, blocks and items.    *)
(* The lemmas that end in Init, Keeps and Implies say of the inductive     *)
(* invariant of an object that it holds at first, that each step keeps it, *)
(* and what it implies.                                                    *)
(***************************************************************************)
EXTENDS Event, MemPool, DataQueue, Completion, WorkQueue, Leuart, IpcProofs

-----------------------------------------------------------------------------
(* Sections after which several threads wait no more *)

LEMMA WaitersLeave ==
    ASSUME IpcInv, NEW H,
           wl' \in [WaitList -> Seq(App)],
           \A l \in WaitList : Distinct(wl'[l]) /\ ToSet(wl'[l]) = ToSet(wl[l]) \ H,
           k'.tmr = k.tmr \ H,
           \A t \in Thread : k'.stat[t] = "SUSPEND" <=> k.stat[t] = "SUSPEND" /\ t \notin H,
           \A t \in Thread \ H : Waiting(t) =>
               /\ pc'[t] \in {"blocked", "wait"}
               /\ call'[t].op = call[t].op /\ k'.err[t] = k.err[t]
    PROVE  WaitersParked' /\ ParkedInCall' /\ \A t : Waiting(t)' <=> Waiting(t) /\ t \notin H
  <1> USE IpcTypes
  <1>1. \A t : Waiting(t)' <=> Waiting(t) /\ t \notin H
    BY DEF Waiting
  <1>2. WaitersParked'
    BY <1>1 DEF IpcInv, WaitersParked
  <1>3. ParkedInCall'
    <2> SUFFICES ASSUME NEW l \in WaitList, NEW t \in ToSet(wl'[l])
                 PROVE  /\ pc'[t] \in {"blocked", "wait"} /\ k'.err[t] = "EOK"
                        /\ call'[t].op = l
      BY DEF ParkedInCall
    <2>1. t \in ToSet(wl[l]) /\ t \in Thread \ H /\ Waiting(t)
      BY DEF Waiting
    <2>2. k.err[t] = "EOK" /\ call[t].op = l
      BY <2>1 DEF IpcInv, ParkedInCall
    <2> QED  BY <2>1, <2>2
  <1> QED  BY <1>1, <1>2, <1>3

-----------------------------------------------------------------------------
(* The event, for any number of threads, bits and calls *)

\* What a thread keeps of its rt_event_recv.
RecvKept == {[c EXCEPT !.got = g] : c \in Ask, g \in SUBSET Bit}

EventTypes ==
    /\ pc \in [Thread -> IpcPc]
    /\ call \in [Thread -> {NoCall} \cup RecvKept]
    /\ set \subseteq Bit

\* A thread is in rt_event_recv exactly while it waits or was woken.
InCall == \A t \in Thread : call[t] # NoCall <=> pc[t] \in {"blocked", "wait"}

\* The inductive invariant.
EventInv == IpcInv /\ EventTypes /\ InCall /\ EvNoneStranded /\ OutcomeTrue

LEMMA KeptForm ==
    ASSUME NEW r \in RecvKept
    PROVE  /\ r \in [op : {"recv"}, want : SUBSET Bit, got : SUBSET Bit,
                     mode : {"AND", "OR"}, clear : BOOLEAN]
           /\ r.op = "recv" /\ r # NoCall
           /\ \A g \in SUBSET Bit : [r EXCEPT !.got = g] \in RecvKept
  <1>1. PICK c \in Ask, h \in SUBSET Bit : r = [c EXCEPT !.got = h]
    BY DEF RecvKept
  <1>2. c \in RecvCalls
    BY <1>1, AskAssumption
  <1>3. PICK want \in SUBSET Bit, mode \in {"AND", "OR"}, clear \in BOOLEAN :
            c = [op |-> "recv", want |-> want, got |-> want, mode |-> mode, clear |-> clear]
    BY <1>2 DEF RecvCalls, RecvCall
  <1>4. r = [op |-> "recv", want |-> want, got |-> h, mode |-> mode, clear |-> clear]
    BY <1>1, <1>3
  <1>5. ASSUME NEW g \in SUBSET Bit PROVE [r EXCEPT !.got = g] \in RecvKept
    <2>1. [r EXCEPT !.got = g] = [c EXCEPT !.got = g]
      BY <1>3, <1>4
    <2>2. [c EXCEPT !.got = g] \in RecvKept
      BY DEF RecvKept
    <2> QED  BY <2>1, <2>2
  <1>6. r # NoCall
    <2>1. "want" \in DOMAIN r /\ "want" \notin DOMAIN NoCall
      BY <1>4 DEF NoCall
    <2> QED  BY <2>1
  <1> QED  BY <1>4, <1>5, <1>6

LEMMA AskKept == Ask \subseteq RecvKept /\ \A c \in Ask : c.op = "recv"
  <1> SUFFICES ASSUME NEW c \in Ask PROVE c \in RecvKept /\ c.op = "recv"
    OBVIOUS
  <1>1. PICK want \in SUBSET Bit, mode \in {"AND", "OR"}, clear \in BOOLEAN :
            c = [op |-> "recv", want |-> want, got |-> want, mode |-> mode, clear |-> clear]
    BY AskAssumption DEF RecvCalls, RecvCall
  <1>2. c = [c EXCEPT !.got = want]
    BY <1>1
  <1> QED  BY <1>1, <1>2 DEF RecvKept

\* Of fewer events no more calls are satisfied.
LEMMA SatisfiedLess ==
    ASSUME NEW c, NEW A, NEW B, A \subseteq B, Satisfied(c, A)
    PROVE  Satisfied(c, B)
  BY DEF Satisfied

\* Everybody who was woken is on his way to try again.
LEMMA EventWoken ==
    ASSUME EventInv
    PROVE  /\ Woken = OnTheirWay("recv")
           /\ \A t \in Woken : call[t] \in RecvKept
           /\ \A t \in ToSet(wl["recv"]) : call[t] \in RecvKept
  <1>1. ASSUME NEW t \in Thread, pc[t] \in {"blocked", "wait"}
        PROVE  call[t] \in RecvKept /\ call[t].op = "recv"
    BY <1>1, KeptForm DEF EventInv, EventTypes, InCall
  <1>2. ToSet(wl["recv"]) \subseteq Thread
    BY IpcTypes, EventAssumption DEF EventInv
  <1>3. \A t \in ToSet(wl["recv"]) : pc[t] \in {"blocked", "wait"}
    BY EventAssumption DEF EventInv, IpcInv, ParkedInCall
  <1> QED  BY <1>1, <1>2, <1>3 DEF OnTheirWay, Woken

LEMMA EventInvImplies == EventInv => EvConsistent
  <1> SUFFICES ASSUME EventInv PROVE EvConsistent
    OBVIOUS
  <1>1. EvTypeOK
    <2>1. IpcTypeOK
      BY IpcTypes DEF EventInv, IpcTypeOK
    <2>2. \A t \in Thread : call[t] # NoCall => pc[t] \in {"blocked", "wait"}
      BY DEF EventInv, InCall
    <2>3. call \in [Thread -> {NoCall} \cup
                        {[c EXCEPT !.got = g] : c \in Ask, g \in SUBSET Bit}]
      BY DEF EventInv, EventTypes, RecvKept
    <2> QED  BY <2>1, <2>2, <2>3 DEF EventInv, EventTypes, EvTypeOK
  <1> QED  BY <1>1 DEF EvConsistent, EventInv, IpcInv, Scheduled, KernelConsistent

LEMMA EventInit == EvInit => EventInv
  <1> SUFFICES ASSUME EvInit PROVE EventInv
    OBVIOUS
  <1>1. IpcInv
    BY IpcInvInit DEF EvInit
  <1>2. EventTypes /\ InCall /\ Woken = {}
    BY DEF EvInit, IpcInit, SectionsInit, EventTypes, InCall, IpcPc, Woken
  <1>3. wl["recv"] = << >>
    BY EventAssumption DEF EvInit, IpcInit, SectionsInit
  <1>4. EvNoneStranded /\ OutcomeTrue
    BY <1>2, <1>3 DEF EvNoneStranded, OutcomeTrue, ToSet
  <1> QED  BY <1>1, <1>2, <1>4 DEF EventInv

\* Sections that wake nobody: who waits is there with the same call, the set
\* does not grow, and who is on his way keeps what he was given.
LEMMA EventRests ==
    ASSUME EventInv, IpcInv', EventTypes', InCall',
           \A t \in ToSet(wl'["recv"]) :
               /\ ~ Satisfied(call'[t], set)
               /\ set' \subseteq set \/ ~ Satisfied(call'[t], set'),
           OnTheirWay("recv")' \subseteq OnTheirWay("recv"),
           \A t \in OnTheirWay("recv")' : call'[t] = call[t]
    PROVE  EventInv' /\ Woken' \subseteq Woken
  <1>1. EvNoneStranded'
    BY SatisfiedLess DEF EvNoneStranded
  <1>2. \A t \in Thread : pc'[t] \in {"blocked", "wait"} => call'[t].op = "recv"
    BY KeptForm DEF EventTypes, InCall
  <1>3. Woken' = OnTheirWay("recv")'
    BY <1>2 DEF OnTheirWay, Woken
  <1>4. Woken' \subseteq Woken
    BY <1>3, EventWoken
  <1>5. OutcomeTrue'
    BY <1>3, <1>4 DEF EventInv, OutcomeTrue
  <1> QED  BY <1>1, <1>4, <1>5 DEF EventInv

LEMMA EventFacts ==
    ASSUME EventInv
    PROVE  /\ IpcInv /\ Me \in Thread /\ DOMAIN pc = Thread /\ DOMAIN call = Thread
           /\ "recv" \in WaitList /\ wl["recv"] \in Seq(App) /\ App \subseteq Thread
           /\ \A t \in ToSet(wl["recv"]) : /\ t \in Thread /\ Waiting(t)
                                           /\ call[t] \in RecvKept
                                           /\ ~ Satisfied(call[t], set)
                                           /\ k.err[t] = "EOK" /\ pc[t] \in {"blocked", "wait"}
  <1>1. "recv" \in WaitList
    BY EventAssumption
  <1>2. \A t \in ToSet(wl["recv"]) : /\ t \in Thread /\ Waiting(t)
                                     /\ k.err[t] = "EOK" /\ pc[t] \in {"blocked", "wait"}
    BY <1>1, IpcTypes, WaitingPlace DEF EventInv, Waiting
  <1>3. \A t \in ToSet(wl["recv"]) : call[t] \in RecvKept /\ ~ Satisfied(call[t], set)
    BY EventWoken DEF EventInv, EvNoneStranded
  <1> QED  BY <1>1, <1>2, <1>3, IpcTypes DEF EventInv, EventTypes

LEMMA EventIpcStep ==
    ASSUME EventInv, IpcStep, UNCHANGED set
    PROVE  EventInv' /\ Woken' \subseteq Woken
  <1> USE EventFacts
  <1>1. /\ {"run", "wait"} \subseteq IpcPc /\ pc \in [Thread -> IpcPc]
        /\ NoCall \in {NoCall} \cup RecvKept /\ call \in [Thread -> {NoCall} \cup RecvKept]
    BY DEF EventInv, EventTypes, IpcPc
  <1>2. /\ IpcInv' /\ pc' \in [Thread -> IpcPc] /\ call' \in [Thread -> {NoCall} \cup RecvKept]
        /\ \A o : OnTheirWay(o)' = OnTheirWay(o)
        /\ \A l \in WaitList : ToSet(wl'[l]) \subseteq ToSet(wl[l])
        /\ \A t \in Thread :
              \/ pc'[t] = pc[t] /\ call'[t] = call[t]
              \/ pc[t] = "pend" /\ pc'[t] = "run" /\ call'[t] = call[t]
              \/ pc[t] = "blocked" /\ pc'[t] = "wait" /\ call'[t] = call[t]
              \/ /\ pc[t] = "wait" /\ k.err[t] # "EOK"
                 /\ pc'[t] = "run" /\ call'[t] = NoCall
    BY <1>1, IpcStepSection, Zenon
  <1>3. EventTypes'
    BY <1>2 DEF EventInv, EventTypes
  <1>4. InCall'
    BY <1>2 DEF EventInv, InCall
  <1>5. \A t \in Thread : k.err[t] = "EOK" /\ pc[t] \in {"blocked", "wait"} => call'[t] = call[t]
    BY <1>2
  <1>6. \A t \in ToSet(wl'["recv"]) : ~ Satisfied(call'[t], set)
    BY <1>2, <1>5, Zenon
  <1>7. \A t \in OnTheirWay("recv") : call'[t] = call[t]
    BY <1>5 DEF OnTheirWay, Woken
  <1> QED  BY <1>2, <1>3, <1>4, <1>6, <1>7, EventRests

LEMMA EventRecvNow ==
    ASSUME EventInv, NEW c, RecvNow(c)
    PROVE  EventInv' /\ Woken' \subseteq Woken
  <1> USE EventFacts
  <1>1. /\ pc[Me] = "run" /\ UNCHANGED <<wl, pc, call>> /\ set' \subseteq set
        /\ k' = [k EXCEPT !.err[Me] = "EOK"] /\ "EOK" \in Err
    BY DEF RecvNow, Calling, At, Err
  <1>2. IpcInv' /\ \A o : OnTheirWay(o)' = OnTheirWay(o) \ {Me}
    BY <1>1, QuietSection
  <1>3. EventTypes' /\ InCall'
    BY <1>1 DEF EventInv, EventTypes, InCall
  <1> QED  BY <1>1, <1>2, <1>3, EventRests

LEMMA EventRecvBlock ==
    ASSUME EventInv, NEW c \in Ask, NEW time \in Wait, RecvBlock(c, time)
    PROVE  EventInv' /\ Woken' \subseteq Woken
  <1> USE EventFacts
  <1>1. /\ Calling /\ UNCHANGED set /\ ~ Satisfied(c, set) /\ Testing(c)
        /\ Block("recv", EnqueueWaiter(k, wl["recv"], Me, Flag), c, time)
        /\ c \in RecvKept /\ c.op = "recv" /\ c # NoCall
    BY AskKept, KeptForm DEF RecvBlock, Testing
  <1>2. /\ IpcInv' /\ Me' = Me /\ \A o : OnTheirWay(o)' = OnTheirWay(o) \ {Me}
    <2>1. call \in [Thread -> {NoCall} \cup RecvKept] /\ pc \in [Thread -> IpcPc]
      BY DEF EventInv, EventTypes
    <2> QED  BY <1>1, <2>1, BlockSection, Zenon
  <1>3. /\ pc' = [pc EXCEPT ![Me] = "blocked"] /\ call' = [call EXCEPT ![Me] = c]
        /\ wl' = [wl EXCEPT !["recv"] = EnqueueWaiter(k, wl["recv"], Me, Flag)]
        /\ Me \in App
    BY <1>1 DEF Block, Goto, Calling
  <1>4. EventTypes' /\ InCall'
    BY <1>1, <1>3 DEF EventInv, EventTypes, InCall, IpcPc
  <1>5. ToSet(wl'["recv"]) = ToSet(wl["recv"]) \cup {Me}
    <2>1. wl'["recv"] = EnqueueWaiter(k, wl["recv"], Me, Flag)
      BY <1>3, IpcTypes
    <2>2. ToSet(EnqueueWaiter(k, wl["recv"], Me, Flag)) = ToSet(wl["recv"]) \cup {Me}
      BY <1>3, EnqueueWaiterSet
    <2> QED  BY <2>1, <2>2
  <1>6. \A t \in ToSet(wl'["recv"]) : ~ Satisfied(call'[t], set)
    BY <1>1, <1>3, <1>5
  <1>7. \A t \in OnTheirWay("recv")' : t \in Thread /\ call'[t] = call[t]
    BY <1>2, <1>3 DEF OnTheirWay, Woken
  <1> QED  BY <1>1, <1>2, <1>4, <1>6, <1>7, EventRests

LEMMA EventRecvReturn ==
    ASSUME EventInv, RecvReturn
    PROVE  EventInv' /\ Woken' \subseteq Woken
  <1> USE EventFacts
  <1>1. /\ pc[Me] = "wait" /\ k.err[Me] = "EOK" /\ UNCHANGED <<k, wl, set>>
        /\ pc' = [pc EXCEPT ![Me] = "run"] /\ call' = [call EXCEPT ![Me] = NoCall]
    BY DEF RecvReturn, Retrying, EndCall, Goto, At
  <1>2. k' = [k EXCEPT !.err[Me] = "EOK"] /\ "EOK" \in Err
    BY <1>1, IpcTypes DEF KernelState, Err
  <1>3. pc'[Me] = "run" /\ \A t \in Thread \ {Me} : pc'[t] = pc[t] /\ call'[t] = call[t]
    BY <1>1
  <1>4. IpcInv' /\ \A o : OnTheirWay(o)' = OnTheirWay(o) \ {Me}
    BY <1>1, <1>2, <1>3, QuietSection, Zenon
  <1>5. EventTypes' /\ InCall'
    BY <1>1 DEF EventInv, EventTypes, InCall, IpcPc
  <1>6. \A t \in ToSet(wl'["recv"]) : ~ Satisfied(call'[t], set)
    <2> SUFFICES ASSUME NEW t \in ToSet(wl["recv"]) PROVE ~ Satisfied(call'[t], set)
      BY <1>1
    <2>1. t # Me
      <3>1. t \in ToSet(wl'["recv"]) /\ Waiting(t)'
        BY <1>1 DEF Waiting
      <3>2. pc'[t] \in {"blocked", "wait"}
        BY <1>4, <3>1 DEF IpcInv, ParkedInCall
      <3> QED  BY <1>3, <3>2
    <2> QED  BY <1>3, <2>1
  <1>7. \A t \in OnTheirWay("recv")' : t \in Thread \ {Me}
    BY <1>4 DEF OnTheirWay, Woken
  <1> QED  BY <1>1, <1>3, <1>4, <1>5, <1>6, <1>7, EventRests

\* rt_event_control(RT_IPC_CMD_RESET).
LEMMA EventReset ==
    ASSUME EventInv,
           \/ (ResetBegin \/ \E l \in WaitList : ResetResume(l)) /\ UNCHANGED set
           \/ Reset
    PROVE  EventInv' /\ Woken' \subseteq Woken
  <1> USE EventFacts
  <1>1. CASE ResetBegin /\ UNCHANGED set
    <2>1. /\ pc[Me] = "run" /\ UNCHANGED <<k, wl, call>> /\ Me # Idle
          /\ pc' = [pc EXCEPT ![Me] = "reset"]
      BY <1>1 DEF ResetBegin, Calling, Goto, At, App
    <2>2. k' = [k EXCEPT !.err[Me] = k.err[Me]] /\ k.err[Me] \in Err
      BY <2>1, IpcTypes DEF KernelState
    <2>3. pc'[Me] = "reset" /\ \A t \in Thread \ {Me} : pc'[t] = pc[t] /\ call'[t] = call[t]
      BY <2>1
    <2>4. IpcInv' /\ \A o : OnTheirWay(o)' = OnTheirWay(o) \ {Me}
      BY <2>1, <2>2, <2>3, QuietSection, Zenon
    <2>5. EventTypes' /\ InCall'
      BY <1>1, <2>1 DEF EventInv, EventTypes, InCall, IpcPc
    <2> QED  BY <1>1, <2>1, <2>4, <2>5, EventRests
  <1>2. ASSUME NEW l \in WaitList, ResetResume(l), UNCHANGED set
        PROVE  EventInv' /\ Woken' \subseteq Woken
    <2>1. IpcInv' /\ \A o : OnTheirWay(o)' = OnTheirWay(o)
      BY <1>2, ResetResumeSection
    <2>2. UNCHANGED <<pc, call>> /\ wl' = [wl EXCEPT ![l] = Tail(@)] /\ wl[l] # << >>
      BY <1>2 DEF ResetResume, Popped
    <2>3. EventTypes' /\ InCall'
      BY <1>2, <2>2 DEF EventInv, EventTypes, InCall
    <2>4. ToSet(wl'["recv"]) \subseteq ToSet(wl["recv"])
      BY <2>2, IpcTypes, HeadTailList
    <2> QED  BY <1>2, <2>1, <2>2, <2>3, <2>4, EventRests
  <1>3. CASE Reset
    <2>1. ResetEnd /\ set' = {}
      BY <1>3 DEF Reset
    <2>2. IpcInv' /\ UNCHANGED wl /\ wl["recv"] = << >>
      BY <2>1, ResetEndSection
    <2>3. UNCHANGED <<k, wl, call>> /\ pc[Me] = "reset" /\ pc' = [pc EXCEPT ![Me] = "pend"]
      BY <2>1 DEF ResetEnd, Goto, At
    <2>4. EventTypes' /\ InCall'
      BY <2>1, <2>3 DEF EventInv, EventTypes, InCall, IpcPc
    <2>5. OnTheirWay("recv")' = OnTheirWay("recv")
      BY <2>3 DEF OnTheirWay, Woken, Waiting
    <2>6. ToSet(wl'["recv"]) = {}
      BY <2>2 DEF ToSet
    <2> QED  BY <2>2, <2>3, <2>4, <2>5, <2>6, EventRests
  <1> QED  BY <1>1, <1>2, <1>3

-----------------------------------------------------------------------------
(* The scan of rt_event_send *)

ScanRecord ==
    [k : KernelState, q : Seq(App), set : SUBSET Bit,
     call : [Thread -> {NoCall} \cup RecvKept]]

\* The waiters that the scan has served.
ServedIn(s) == ToSet(wl["recv"]) \ ToSet(s.q)

\* What the scan has made of the kernel and the list ...
ScanKernel(s) ==
    /\ s \in ScanRecord
    /\ KernelOK(s.k) /\ s.k.cur = k.cur /\ s.k.lock = 0 /\ s.k.err = k.err
    /\ s.k.tmr = k.tmr \ ServedIn(s)
    /\ s.k.stat[Idle] \in {"READY", "RUNNING"}
    /\ k.stat[k.cur] = "RUNNING" => s.k.stat[k.cur] = "RUNNING"
    /\ \A t \in Thread :
          s.k.stat[t] = "SUSPEND" <=> k.stat[t] = "SUSPEND" /\ t \notin ServedIn(s)
    /\ Distinct(s.q) /\ ToSet(s.q) \subseteq ToSet(wl["recv"])
    /\ ServedIn(s) = {} => s.k = k /\ s.q = wl["recv"]

\* ... what it has given to whom ...
GivenTo(s, t) ==
    \E g \in SUBSET Bit :
        /\ s.call[t] = [call[t] EXCEPT !.got = g]
        /\ g \subseteq call[t].want /\ Satisfied(call[t], g)
        /\ call[t].clear => g \cap s.set = {}

ScanCalls(s) ==
    /\ \A t \in Thread \ ServedIn(s) : s.call[t] = call[t]
    /\ \A t \in ServedIn(s) : GivenTo(s, t)

\* ... and in which order; the first i of the list have been looked at.
ScanOrder(s, i) ==
    LET q == wl["recv"]
    IN  /\ \A j \in 1 .. Len(q) : q[j] \in ServedIn(s) => j <= i
        /\ \A j \in 1 .. i : q[j] \in ToSet(s.q) => ~ Satisfied(call[q[j]], s.set)
        /\ \A j, m \in 1 .. Len(q) :
              j < m /\ q[j] \in ServedIn(s) /\ q[m] \in ServedIn(s) /\ call[q[j]].clear
                  => s.call[q[j]].got \cap s.call[q[m]].got = {}

LEMMA ServeKernel ==
    ASSUME EventInv, NEW s, ScanKernel(s), NEW t \in ToSet(s.q),
           NEW rest \in SUBSET Bit,
           NEW c \in [Thread -> {NoCall} \cup RecvKept],
           NEW n, n = [k |-> Resume(s.k, t), q |-> RemoveFirst(s.q, t), set |-> rest, call |-> c]
    PROVE  /\ ScanKernel(n)
           /\ ToSet(n.q) = ToSet(s.q) \ {t} /\ ServedIn(n) = ServedIn(s) \cup {t}
           /\ t \notin ServedIn(s)
  <1> USE EventFacts
  <1>1. /\ s.k \in KernelState /\ s.q \in Seq(App) /\ s.k.cur = k.cur /\ k.cur \in Thread
        /\ KernelOK(s.k) /\ Distinct(s.q) /\ t \in ToSet(wl["recv"]) /\ s.k.lock = 0
        /\ t \in Thread /\ t \in App /\ t \notin ServedIn(s)
    BY IpcTypes DEF ScanKernel, ScanRecord, ServedIn, Me
  <1>2. s.k.stat[t] = "SUSPEND"
    <2>1. k.stat[t] = "SUSPEND"
      BY <1>1, WaitingPlace
    <2> QED  BY <1>1, <2>1 DEF ScanKernel
  <1>3. LET m == Resume(s.k, t)
        IN  /\ m \in KernelState /\ KernelOK(m) /\ m.cur = s.k.cur /\ m.lock = s.k.lock
            /\ m.err = s.k.err /\ m.tmr = s.k.tmr \ {t}
            /\ m.stat = [s.k.stat EXCEPT ![t] = IF t = s.k.cur THEN "RUNNING" ELSE "READY"]
    <2>1. s.k \in KernelState /\ KernelOK(s.k) /\ t \in Thread
      BY ONLY <1>1
    <2> QED  BY ONLY <1>2, <2>1, ResumeEffect
  <1>4. /\ RemoveFirst(s.q, t) \in Seq(App) /\ Distinct(RemoveFirst(s.q, t))
        /\ ToSet(RemoveFirst(s.q, t)) = ToSet(s.q) \ {t}
    BY <1>1, RemoveFirstList
  <1>5. n \in ScanRecord
    BY <1>3, <1>4 DEF ScanRecord
  <1>6. ToSet(n.q) = ToSet(s.q) \ {t} /\ ServedIn(n) = ServedIn(s) \cup {t}
    BY <1>1, <1>4 DEF ServedIn
  <1>7. s.k.stat \in [Thread -> Stat] /\ t # Idle /\ Idle \in Thread
    BY <1>1, IpcTypes, Zenon DEF KernelState, App
  <1>8. /\ s.k.err = k.err /\ s.k.tmr = k.tmr \ ServedIn(s)
        /\ s.k.stat[Idle] \in {"READY", "RUNNING"}
        /\ k.stat[k.cur] = "RUNNING" => s.k.stat[k.cur] = "RUNNING"
        /\ \A u \in Thread :
              s.k.stat[u] = "SUSPEND" <=> k.stat[u] = "SUSPEND" /\ u \notin ServedIn(s)
        /\ ToSet(s.q) \subseteq ToSet(wl["recv"])
    BY DEF ScanKernel
  <1> DEFINE m == Resume(s.k, t)
  <1>9. /\ n.k = m /\ n.q = RemoveFirst(s.q, t)
        /\ m.stat = [s.k.stat EXCEPT ![t] = IF t = s.k.cur THEN "RUNNING" ELSE "READY"]
        /\ KernelOK(m) /\ m.cur = s.k.cur /\ m.lock = s.k.lock
        /\ m.err = s.k.err /\ m.tmr = s.k.tmr \ {t}
    BY <1>3
  <1> HIDE DEF m
  <1>10. /\ m.stat[Idle] \in {"READY", "RUNNING"}
         /\ k.stat[k.cur] = "RUNNING" => m.stat[k.cur] = "RUNNING"
         /\ \A u \in Thread :
              m.stat[u] = "SUSPEND" <=> k.stat[u] = "SUSPEND" /\ u \notin ServedIn(n)
    <2>1. \A u \in Thread : m.stat[u] = IF u # t THEN s.k.stat[u]
                                        ELSE IF t = s.k.cur THEN "RUNNING" ELSE "READY"
      BY <1>7, <1>9
    <2> QED  BY <1>1, <1>6, <1>7, <1>8, <2>1
  <1>11. m.tmr = k.tmr \ ServedIn(n) /\ m.err = k.err /\ m.cur = k.cur /\ m.lock = 0
    BY <1>1, <1>6, <1>8, <1>9
  <1>12. ServedIn(n) # {} /\ ToSet(n.q) \subseteq ToSet(wl["recv"]) /\ Distinct(n.q)
    BY <1>4, <1>6, <1>8, <1>9, Zenon
  <1>13. ScanKernel(n)
    BY <1>5, <1>9, <1>10, <1>11, <1>12, Zenon DEF ScanKernel
  <1> QED  BY <1>1, <1>6, <1>13

\* One waiter more.
LEMMA ServeKeeps ==
    ASSUME EventInv, NEW s, ScanKernel(s), ScanCalls(s),
           NEW i \in Nat, i < Len(wl["recv"]), ScanOrder(s, i)
    PROVE  LET n == Serve(s, wl["recv"][i + 1])
           IN  ScanKernel(n) /\ ScanCalls(n) /\ ScanOrder(n, i + 1)
  <1> DEFINE q == wl["recv"]
             t == q[i + 1]
             c == call[t]
             got == IF c.mode = "AND" THEN c.want ELSE c.want \cap s.set
             rest == IF c.clear THEN s.set \ got ELSE s.set
             n == Serve(s, t)
  <1> SUFFICES ScanKernel(n) /\ ScanCalls(n) /\ ScanOrder(n, i + 1)
    OBVIOUS
  <1> USE EventFacts
  <1>1. /\ q \in Seq(App) /\ Len(q) \in Nat /\ i + 1 \in 1 .. Len(q) /\ Distinct(q)
        /\ DOMAIN q = 1 .. Len(q) /\ \A j \in 1 .. Len(q) : q[j] \in ToSet(q)
    <2>1. q \in Seq(App) /\ Distinct(q)
      BY IpcTypes
    <2> QED  BY <2>1, LenProperties DEF ToSet
  <1>2. t \in ToSet(q) /\ t \in Thread /\ t \notin ServedIn(s) /\ t \in ToSet(s.q)
    <2>1. t \in ToSet(q)
      BY <1>1
    <2>2. t \notin ServedIn(s)
      BY <1>1 DEF ScanOrder
    <2> QED  BY <2>1, <2>2 DEF ServedIn
  <1>3. /\ s \in ScanRecord /\ s.call[t] = c /\ c \in RecvKept
        /\ c \in [op : {"recv"}, want : SUBSET Bit, got : SUBSET Bit,
                  mode : {"AND", "OR"}, clear : BOOLEAN]
        /\ s.set \in SUBSET Bit /\ s.call \in [Thread -> {NoCall} \cup RecvKept]
    BY <1>2, KeptForm DEF ScanKernel, ScanCalls, ScanRecord
  <1>4. \A j, m \in 1 .. Len(q) : q[j] = q[m] => j = m
    BY <1>1 DEF Distinct
  <1>5. CASE ~ Satisfied(c, s.set)
    <2>1. n = s
      BY <1>3, <1>5 DEF Serve
    <2>2. ScanOrder(s, i + 1)
      <3>1. ASSUME NEW j \in 1 .. i + 1, q[j] \in ToSet(s.q) PROVE ~ Satisfied(call[q[j]], s.set)
        <4>1. j \in 1 .. i \/ j = i + 1
          OBVIOUS
        <4> QED  BY <1>5, <3>1, <4>1 DEF ScanOrder
      <3>2. \A j \in 1 .. Len(q) : q[j] \in ServedIn(s) => j <= i + 1
        BY <1>1 DEF ScanOrder
      <3> QED  BY <3>1, <3>2 DEF ScanOrder
    <2> HIDE DEF n
    <2> QED  BY <2>1, <2>2
  <1>6. CASE Satisfied(c, s.set)
    <2> DEFINE given == [c EXCEPT !.got = got]
               calls == [s.call EXCEPT ![t] = given]
    <2>1. got \in SUBSET Bit /\ got \subseteq c.want /\ got \subseteq s.set /\ Satisfied(c, got)
      BY <1>3, <1>6 DEF Satisfied
    <2>2. rest \in SUBSET Bit /\ rest \subseteq s.set
      BY <1>3
    <2>3. c.clear => got \cap rest = {}
      OBVIOUS
    <2>4. given \in RecvKept /\ given.got = got
      BY <1>3, <2>1, KeptForm, Zenon
    <2> HIDE DEF got, rest
    <2>5. n = [k |-> Resume(s.k, t), q |-> RemoveFirst(s.q, t), set |-> rest, call |-> calls]
      BY <1>3, <1>6, Zenon DEF Serve, ScanRecord, got, rest
    <2> HIDE DEF given
    <2>6. calls \in [Thread -> {NoCall} \cup RecvKept]
      BY <1>3, <2>4
    <2>7. calls[t] = given /\ \A u \in Thread \ {t} : calls[u] = s.call[u]
      BY <1>2, <1>3
    <2> HIDE DEF calls, n, c
    <2>8. /\ ScanKernel(n) /\ ToSet(n.q) = ToSet(s.q) \ {t} /\ ServedIn(n) = ServedIn(s) \cup {t}
      <3>1. t \in ToSet(s.q) /\ rest \in SUBSET Bit
        BY <1>2, <2>2
      <3> HIDE DEF t
      <3> QED  BY ONLY EventInv, ScanKernel(s), <3>1, <2>5, <2>6, ServeKernel
    <2>9. n.set = rest /\ n.call = calls
      BY <2>5
    <2>10. ScanCalls(n)
      <3>1. \A u \in Thread \ ServedIn(n) : n.call[u] = call[u]
        BY <2>7, <2>8, <2>9 DEF ScanCalls
      <3>2. GivenTo(n, t)
        BY <2>1, <2>3, <2>7, <2>9 DEF GivenTo, given, c
      <3>3. ASSUME NEW u \in ServedIn(s) PROVE GivenTo(n, u)
        <4>1. u \in Thread /\ u # t
          BY <1>2 DEF ServedIn
        <4>2. n.call[u] = s.call[u] /\ n.set \subseteq s.set
          BY <2>2, <2>7, <2>9, <4>1
        <4>3. GivenTo(s, u)
          BY <3>3 DEF ScanCalls
        <4> QED  BY <4>2, <4>3 DEF GivenTo
      <3> QED  BY <2>8, <3>1, <3>2, <3>3 DEF ScanCalls
    <2>11. \A j \in 1 .. Len(q) : q[j] \in ServedIn(n) => j <= i + 1
      <3> SUFFICES ASSUME NEW j \in 1 .. Len(q), q[j] \in ServedIn(n) PROVE j <= i + 1
        OBVIOUS
      <3>1. CASE q[j] = t
        BY <1>1, <1>4, <3>1
      <3>2. CASE q[j] # t
        <4>1. j <= i
          BY <2>8, <3>2 DEF ScanOrder
        <4> QED  BY <1>1, <4>1
      <3> QED  BY <3>1, <3>2
    <2>12. \A j \in 1 .. i + 1 : q[j] \in ToSet(n.q) => ~ Satisfied(call[q[j]], n.set)
      <3> SUFFICES ASSUME NEW j \in 1 .. i + 1, q[j] \in ToSet(n.q)
                   PROVE  ~ Satisfied(call[q[j]], n.set)
        OBVIOUS
      <3>1. q[j] # t /\ q[j] \in ToSet(s.q)
        BY <2>8
      <3>2. j \in 1 .. i
        BY <3>1
      <3>3. ~ Satisfied(call[q[j]], s.set)
        BY <3>1, <3>2 DEF ScanOrder
      <3> QED  BY <2>2, <2>9, <3>3, SatisfiedLess
    <2>13. ASSUME NEW j \in 1 .. Len(q), NEW m \in 1 .. Len(q),
                  j < m, q[j] \in ServedIn(n), q[m] \in ServedIn(n), call[q[j]].clear
           PROVE  n.call[q[j]].got \cap n.call[q[m]].got = {}
      <3>1. m <= i + 1 /\ q[j] # q[m] /\ j < i + 1
        BY SMTT(40), <1>1, <1>4, <2>11, <2>13
      <3>2. q[j] # t
        BY <1>1, <1>4, <3>1
      <3>3. q[j] \in ServedIn(s) /\ q[j] \in Thread /\ q[m] \in Thread
        BY <1>1, <2>8, <2>13, <3>2
      <3>4. n.call[q[j]] = s.call[q[j]]
        BY <2>7, <2>9, <3>2, <3>3
      <3>5. CASE q[m] = t
        <4>1. n.call[q[m]].got = got
          BY <2>4, <2>7, <2>9, <3>5
        <4>2. GivenTo(s, q[j])
          BY <3>3 DEF ScanCalls
        <4>3. PICK g \in SUBSET Bit : /\ s.call[q[j]] = [call[q[j]] EXCEPT !.got = g]
                                      /\ g \cap s.set = {}
          BY <2>13, <4>2, Zenon DEF GivenTo
        <4>4. s.call[q[j]].got = g
          <5>1. call[q[j]] \in RecvKept
            BY <1>1
          <5> QED  BY <4>3, <5>1, KeptForm
        <4> QED  BY <2>1, <3>4, <4>1, <4>3, <4>4
      <3>6. CASE q[m] # t
        <4>1. q[m] \in ServedIn(s)
          BY <2>8, <2>13, <3>6
        <4>2. n.call[q[m]] = s.call[q[m]]
          BY <2>7, <2>9, <3>3, <3>6
        <4>3. s.call[q[j]].got \cap s.call[q[m]].got = {}
          BY <2>13, <3>3, <4>1 DEF ScanOrder
        <4> QED  BY <3>4, <4>2, <4>3
      <3> QED  BY <3>5, <3>6
    <2>14. ScanOrder(n, i + 1)
      BY <2>11, <2>12, <2>13 DEF ScanOrder
    <2> QED  BY <2>8, <2>10, <2>14
  <1> QED  BY <1>5, <1>6

\* The scan as the function that it is.
Scanning(f, start, q) ==
    f = [n \in 0 .. Len(q) |-> IF n = 0 THEN start ELSE Serve(f[n - 1], q[n])]

ScanExistsTo(start, q, N) ==
    \E f : f = [n \in 0 .. N |-> IF n = 0 THEN start ELSE Serve(f[n - 1], q[n])]

LEMMA ScanExists ==
    ASSUME NEW start, NEW q, NEW N \in Nat
    PROVE  ScanExistsTo(start, q, N)
  <1> USE DEF ScanExistsTo
  <1> DEFINE Bad == {m \in Nat : ~ ScanExistsTo(start, q, m)}
  <1>1. SUFFICES ASSUME Bad # {} PROVE FALSE
    OBVIOUS
  <1>2. PICK m \in Bad : \A j \in Bad : m <= j
    BY <1>1, LeastNat, Zenon
  <1>3. CASE m = 0
    <2> DEFINE f == [n \in 0 .. 0 |-> start]
    <2>1. f = [n \in 0 .. 0 |-> IF n = 0 THEN start ELSE Serve(f[n - 1], q[n])]
      OBVIOUS
    <2> QED  BY <1>2, <1>3, <2>1, Zenon
  <1>4. CASE m # 0
    <2>1. m \in Nat /\ m - 1 \in Nat /\ ~ m <= m - 1
      BY <1>2, <1>4
    <2>0. ScanExistsTo(start, q, m - 1)
      <3> HIDE DEF ScanExistsTo
      <3> QED  BY <1>2, <2>1
    <2>2. PICK f : f = [n \in 0 .. m - 1 |-> IF n = 0 THEN start ELSE Serve(f[n - 1], q[n])]
      BY <2>0
    <2> DEFINE g == [n \in 0 .. m |-> IF n = m THEN Serve(f[n - 1], q[n]) ELSE f[n]]
    <2>3. \A n \in 0 .. m - 1 : f[n] = IF n = 0 THEN start ELSE Serve(f[n - 1], q[n])
      BY <2>2
    <2>4. \A n \in 0 .. m : n # 0 => g[n - 1] = f[n - 1]
      BY <2>1
    <2>5. ASSUME NEW n \in 0 .. m
          PROVE  g[n] = IF n = 0 THEN start ELSE Serve(g[n - 1], q[n])
      BY <1>4, <2>1, <2>3, <2>4
    <2>6. g = [n \in 0 .. m |-> IF n = 0 THEN start ELSE Serve(g[n - 1], q[n])]
      BY <2>5, Zenon
    <2> QED  BY <1>2, <2>6, Zenon
  <1> QED  BY <1>3, <1>4

\* What the scan starts from.
ScanStart(new) == [k |-> k, q |-> wl["recv"], set |-> set \cup new, call |-> call]

LEMMA SentForm ==
    ASSUME NEW new, Len(wl["recv"]) \in Nat
    PROVE  \E f : /\ f[0] = ScanStart(new)
                  /\ \A n \in 1 .. Len(wl["recv"]) : f[n] = Serve(f[n - 1], wl["recv"][n])
                  /\ Sent(new) = f[Len(wl["recv"])]
  <1> DEFINE g == CHOOSE f : Scanning(f, ScanStart(new), wl["recv"])
  <1>1. ScanExistsTo(ScanStart(new), wl["recv"], Len(wl["recv"]))
    BY ScanExists
  <1>2. \E f : Scanning(f, ScanStart(new), wl["recv"])
    BY <1>1 DEF ScanExistsTo, Scanning
  <1>3. Scanning(g, ScanStart(new), wl["recv"])
    BY <1>2
  <1>4. Sent(new) = g[Len(wl["recv"])]
    BY DEF Sent, Scanning, ScanStart
  <1> HIDE DEF g
  <1>5. /\ g[0] = ScanStart(new)
        /\ \A n \in 1 .. Len(wl["recv"]) : g[n] = Serve(g[n - 1], wl["recv"][n])
    BY <1>3 DEF Scanning
  <1> QED  BY <1>4, <1>5

LEMMA ScanStarts ==
    ASSUME EventInv, NEW new \in SUBSET Bit
    PROVE  ScanKernel(ScanStart(new)) /\ ScanCalls(ScanStart(new)) /\ ScanOrder(ScanStart(new), 0)
  <1> DEFINE s == ScanStart(new)
  <1> USE EventFacts
  <1>1. s.k = k /\ s.q = wl["recv"] /\ s.set = set \cup new /\ s.call = call
    BY DEF ScanStart
  <1>2. s \in ScanRecord
    BY IpcTypes DEF ScanStart, ScanRecord, EventInv, EventTypes
  <1>3. ServedIn(s) = {}
    BY <1>1 DEF ServedIn
  <1> HIDE DEF s
  <1>4. ScanKernel(s)
    BY <1>1, <1>2, <1>3, IpcTypes DEF ScanKernel
  <1>5. ScanCalls(s)
    BY <1>1, <1>3 DEF ScanCalls
  <1>6. ScanOrder(s, 0)
    BY <1>3 DEF ScanOrder
  <1> QED  BY <1>4, <1>5, <1>6 DEF s

\* The state in which the scan ends.
LEMMA SentScanned ==
    ASSUME EventInv, NEW new \in SUBSET Bit
    PROVE  LET s == Sent(new)
           IN  ScanKernel(s) /\ ScanCalls(s) /\ ScanOrder(s, Len(wl["recv"]))
  <1> DEFINE q == wl["recv"]
             L == Len(q)
  <1>1. L \in Nat
    BY EventFacts, LenProperties
  <1>2. PICK f : /\ f[0] = ScanStart(new)
                 /\ \A n \in 1 .. L : f[n] = Serve(f[n - 1], q[n])
                 /\ Sent(new) = f[L]
    BY <1>1, SentForm
  <1> DEFINE Good(n) == ScanKernel(f[n]) /\ ScanCalls(f[n]) /\ ScanOrder(f[n], n)
             Bad == {n \in 0 .. L : ~ Good(n)}
  <1>3. Good(0)
    BY <1>2, ScanStarts
  <1>4. ASSUME NEW n \in 0 .. L - 1, Good(n) PROVE Good(n + 1)
    <2>1. n \in Nat /\ n < Len(wl["recv"]) /\ n + 1 \in 1 .. L /\ (n + 1) - 1 = n
      BY <1>1
    <2>2. f[n + 1] = Serve(f[n], wl["recv"][n + 1])
      BY <1>2, <2>1
    <2> HIDE DEF L
    <2> QED  BY <1>4, <2>1, <2>2, ServeKeeps
  <1>5. Good(L)
    <2> HIDE DEF Good
    <2>1. SUFFICES ASSUME Bad # {} PROVE FALSE
      BY <1>1
    <2>2. Bad \in SUBSET Nat
      BY <1>1
    <2>3. PICK m \in Bad : \A n \in Bad : m <= n
      BY <2>1, <2>2, LeastNat, Zenon
    <2>4. m # 0 /\ m \in 0 .. L /\ ~ Good(m)
      BY <1>3, <2>3
    <2>5. m - 1 \in 0 .. L - 1 /\ (m - 1) + 1 = m /\ m - 1 \in 0 .. L /\ ~ m <= m - 1
      BY <1>1, <2>4
    <2>6. Good(m - 1)
      BY <2>3, <2>5
    <2>7. Good((m - 1) + 1)
      BY <1>4, <2>5, <2>6
    <2> QED  BY <2>4, <2>5, <2>7
  <1> QED  BY <1>2, <1>5

\* What a send does to the waiters, whatever becomes of the current thread.
LEMMA SendEffect ==
    ASSUME EventInv, NEW new \in SUBSET Bit, NEW s, s = Sent(new), Send(s),
           k'.err = k.err, k'.tmr = s.k.tmr,
           \A t \in Thread : k'.stat[t] = "SUSPEND" <=> s.k.stat[t] = "SUSPEND",
           pc' \in [Thread -> IpcPc],
           \A t \in Thread : pc'[t] \in {"blocked", "wait"} <=> pc[t] \in {"blocked", "wait"}
    PROVE  /\ wl' \in [WaitList -> Seq(App)] /\ WaitersParked' /\ ParkedInCall'
           /\ EventTypes' /\ InCall' /\ EvNoneStranded' /\ OutcomeTrue'
           /\ TakesOnce
  <1> USE EventFacts
  <1> DEFINE q == wl["recv"]
  <1>1. ScanKernel(s) /\ ScanCalls(s) /\ ScanOrder(s, Len(q)) /\ s \in ScanRecord
    BY SentScanned DEF ScanKernel
  <1>2. /\ wl' = [wl EXCEPT !["recv"] = s.q] /\ set' = s.set /\ call' = s.call
        /\ s.q \in Seq(App) /\ Distinct(s.q) /\ ToSet(s.q) \subseteq ToSet(q)
        /\ s.call \in [Thread -> {NoCall} \cup RecvKept] /\ s.set \in SUBSET Bit
        /\ s.k.tmr = k.tmr \ ServedIn(s)
        /\ \A t \in Thread :
              s.k.stat[t] = "SUSPEND" <=> k.stat[t] = "SUSPEND" /\ t \notin ServedIn(s)
    BY <1>1 DEF Send, ScanKernel, ScanRecord
  <1>0. \A t \in ToSet(q) : \E j \in 1 .. Len(q) : t = q[j]
    <2>1. DOMAIN q = 1 .. Len(q)
      BY IpcTypes, LenProperties
    <2> QED  BY <2>1 DEF ToSet
  <1>3. /\ wl' \in [WaitList -> Seq(App)] /\ wl'["recv"] = s.q
        /\ \A l \in WaitList \ {"recv"} : wl'[l] = wl[l]
    BY <1>2, IpcTypes
  <1>4. ServedIn(s) \subseteq ToSet(q) /\ ToSet(s.q) = ToSet(q) \ ServedIn(s)
    BY <1>2 DEF ServedIn
  <1>5. \A l \in WaitList : Distinct(wl'[l]) /\ ToSet(wl'[l]) = ToSet(wl[l]) \ ServedIn(s)
    <2> SUFFICES ASSUME NEW l \in WaitList, l # "recv"
                 PROVE  Distinct(wl'[l]) /\ ToSet(wl'[l]) = ToSet(wl[l]) \ ServedIn(s)
      BY <1>2, <1>3, <1>4
    <2>1. ToSet(wl[l]) \cap ToSet(q) = {}
      BY DEF EventInv, IpcInv, WaitersParked
    <2> QED  BY <1>3, <1>4, <2>1, IpcTypes
  <1>6. \A t \in Thread \ ServedIn(s) : call'[t] = call[t]
    BY <1>1, <1>2 DEF ScanCalls
  <1>7. ASSUME NEW t \in ServedIn(s)
        PROVE  \E g \in SUBSET Bit :
                  /\ call'[t] = [call[t] EXCEPT !.got = g] /\ call'[t].got = g
                  /\ call'[t].want = call[t].want /\ call'[t].mode = call[t].mode
                  /\ g \subseteq call[t].want /\ Satisfied(call[t], g)
                  /\ call'[t].op = "recv"
                  /\ call[t].clear => g \cap set' = {}
    <2>1. call[t] \in RecvKept
      BY <1>4
    <2>2. PICK g \in SUBSET Bit :
                  /\ call'[t] = [call[t] EXCEPT !.got = g]
                  /\ g \subseteq call[t].want /\ Satisfied(call[t], g)
                  /\ call[t].clear => g \cap set' = {}
      BY <1>1, <1>2, ZenonT(40) DEF ScanCalls, GivenTo
    <2>3. /\ call'[t].got = g /\ call'[t].want = call[t].want
          /\ call'[t].mode = call[t].mode /\ call'[t].op = "recv"
      BY <2>1, <2>2, KeptForm
    <2> QED  BY <2>2, <2>3
  <1>8. \A t \in Thread : Waiting(t) /\ t \notin ServedIn(s) =>
            /\ pc'[t] \in {"blocked", "wait"} /\ call'[t].op = call[t].op /\ k'.err[t] = k.err[t]
    BY <1>6, WaitingPlace
  <1>9. /\ WaitersParked' /\ ParkedInCall'
        /\ \A t : Waiting(t)' <=> Waiting(t) /\ t \notin ServedIn(s)
    BY <1>2, <1>3, <1>5, <1>8, WaitersLeave, ZenonT(40)
  <1>10. EventTypes'
    BY <1>2 DEF EventTypes
  <1>11. InCall'
    <2> SUFFICES ASSUME NEW t \in Thread PROVE call'[t] # NoCall <=> pc'[t] \in {"blocked", "wait"}
      BY DEF InCall
    <2>1. CASE t \in ServedIn(s)
      <3>1. call'[t] # NoCall
        <4>1. PICK g \in SUBSET Bit : call'[t] = [call[t] EXCEPT !.got = g]
          BY <1>7, <2>1, ZenonT(40)
        <4>2. call[t] \in RecvKept
          BY <1>4, <2>1
        <4>3. [call[t] EXCEPT !.got = g] \in RecvKept
          BY <4>2, KeptForm, Zenon
        <4> QED  BY <4>1, <4>3, KeptForm
      <3> QED  BY <1>4, <2>1, <3>1
    <2>2. CASE t \notin ServedIn(s)
      BY <1>6, <2>2 DEF EventInv, InCall
    <2> QED  BY <2>1, <2>2
  <1>12. EvNoneStranded'
    <2> SUFFICES ASSUME NEW t \in ToSet(s.q) PROVE ~ Satisfied(call[t], s.set)
      BY <1>2, <1>3, <1>4, <1>6 DEF EvNoneStranded
    <2>1. PICK j \in 1 .. Len(q) : t = q[j]
      BY <1>0, <1>4
    <2> QED  BY <1>1, <2>1 DEF ScanOrder
  <1>13. /\ ServedIn(s) \cap Woken = {} /\ Woken' = Woken \cup ServedIn(s)
    BY <1>4, <1>9 DEF Woken
  <1>14. OutcomeTrue'
    <2> SUFFICES ASSUME NEW t \in Woken'
                 PROVE  call'[t].got \subseteq call'[t].want /\ Satisfied(call'[t], call'[t].got)
      BY DEF OutcomeTrue
    <2>1. CASE t \in Woken
      <3>1. t \in Thread \ ServedIn(s)
        BY <1>13, <2>1 DEF Woken
      <3> QED  BY <1>6, <2>1, <3>1 DEF EventInv, OutcomeTrue
    <2>2. CASE t \in ServedIn(s)
      <3>1. PICK g \in SUBSET Bit :
                  /\ call'[t].got = g /\ call'[t].want = call[t].want
                  /\ call'[t].mode = call[t].mode
                  /\ g \subseteq call[t].want /\ Satisfied(call[t], g)
        BY <1>7, <2>2, Zenon
      <3> QED  BY <3>1 DEF Satisfied
    <2> QED  BY <1>13, <2>1, <2>2
  <1>15. TakesOnce
    <2>0. Woken' \ Woken = ServedIn(s)
      BY <1>13
    <2> DEFINE place(t) == SelectInSeq(q, LAMBDA y : y = t)
    <2>1. \A j \in 1 .. Len(q) : place(q[j]) = j
      <3> SUFFICES ASSUME NEW j \in 1 .. Len(q) PROVE place(q[j]) = j
        BY Zenon
      <3>1. {i \in 1 .. Len(q) : q[i] = q[j]} = {j}
        <4>1. Distinct(q) /\ DOMAIN q = 1 .. Len(q)
          BY IpcTypes, LenProperties
        <4> QED  BY <4>1 DEF Distinct
      <3>2. {j} \in SUBSET (1 .. Len(q)) /\ q \in Seq(App)
        OBVIOUS
      <3>3. Min({j}) = j
        BY <3>2, SelectPosition
      <3> QED  BY <3>1, <3>3, Zenon DEF SelectInSeq
    <2>2. ASSUME NEW t \in ServedIn(s), call[t].clear
          PROVE  /\ call'[t].got \cap set' = {}
                 /\ \A u \in ServedIn(s) : place(t) < place(u) => call'[t].got \cap call'[u].got = {}
      <3>1. call'[t].got \cap set' = {}
        BY <1>7, <2>2, Zenon
      <3>2. ASSUME NEW u \in ServedIn(s), place(t) < place(u)
            PROVE  call'[t].got \cap call'[u].got = {}
        <4>1. PICK j \in 1 .. Len(q) : t = q[j]
          BY <1>0, <1>4
        <4>2. PICK m \in 1 .. Len(q) : u = q[m]
          BY <1>0, <1>4
        <4>3. place(q[j]) = j /\ place(q[m]) = m
          BY <2>1, Zenon
        <4>4. place(q[j]) < place(q[m])
          BY <3>2, <4>1, <4>2
        <4>5. j < m
          BY ONLY <4>3, <4>4
        <4> QED  BY <1>1, <1>2, <2>2, <4>1, <4>2, <4>5 DEF ScanOrder
      <3> QED  BY <3>1, <3>2, Zenon
    <2> QED  BY <2>0, <2>2, Zenon DEF TakesOnce
  <1> QED  BY <1>3, <1>9, <1>10, <1>11, <1>12, <1>14, <1>15

LEMMA EventThreadSend ==
    ASSUME EventInv, NEW new \in SUBSET Bit, ThreadSend(new)
    PROVE  EventInv' /\ TakesOnce
  <1> USE EventFacts
  <1> DEFINE s == Sent(new)
  <1>1. /\ pc[Me] = "run" /\ Me \in App /\ Send(s) /\ k' = s.k
        /\ pc' = [pc EXCEPT ![Me] = IF s.q = wl["recv"] THEN "run" ELSE "pend"]
    BY DEF ThreadSend, Calling, At, Goto
  <1>2. ScanKernel(s) /\ ScanCalls(s)
    BY SentScanned
  <1> HIDE DEF s
  <1>3. /\ k'.err = k.err /\ pc' \in [Thread -> IpcPc]
        /\ \A t \in Thread : pc'[t] \in {"blocked", "wait"} <=> pc[t] \in {"blocked", "wait"}
    BY <1>1, <1>2 DEF ScanKernel, EventInv, EventTypes, IpcPc
  <1>4. /\ wl' \in [WaitList -> Seq(App)] /\ WaitersParked' /\ ParkedInCall'
        /\ EventTypes' /\ InCall' /\ EvNoneStranded' /\ OutcomeTrue' /\ TakesOnce
    BY <1>1, <1>3, SendEffect DEF s
  <1>5. k.stat[Me] = "RUNNING" /\ Me' = Me
    BY <1>1, <1>2 DEF EventInv, IpcInv, Scheduled, ScanKernel, Me
  <1>6. Scheduled'
    BY <1>1, <1>2, <1>5 DEF Scheduled, ScanKernel, ScanRecord, Me
  <1>7. PreemptionPending' /\ IdleApart'
    <2>1. IdleApart'
      BY <1>3, IpcTypes DEF EventInv, IpcInv, IdleApart
    <2>2. CASE s.q = wl["recv"]
      <3>1. s.k = k
        BY <1>2, <2>2 DEF ScanKernel, ServedIn
      <3> QED  BY <1>1, <2>1, <3>1 DEF EventInv, IpcInv, PreemptionPending, Me
    <2>3. CASE s.q # wl["recv"]
      BY <1>1, <1>5, <2>1, <2>3 DEF PreemptionPending
    <2> QED  BY <2>2, <2>3
  <1> QED  BY <1>4, <1>6, <1>7 DEF EventInv, IpcInv

LEMMA EventIsrSend ==
    ASSUME EventInv, NEW new \in SUBSET Bit, IsrSend(new)
    PROVE  EventInv' /\ TakesOnce
  <1> USE EventFacts
  <1> DEFINE s == Sent(new)
  <1>1. /\ Send(s) /\ UNCHANGED pc
        /\ k' = IF s.q = wl["recv"] THEN k ELSE Schedule(s.k)
    BY DEF IsrSend
  <1>2. ScanKernel(s) /\ ScanCalls(s)
    BY SentScanned
  <1> HIDE DEF s
  <1>3. s.q = wl["recv"] => s.k = k
    BY <1>2 DEF ScanKernel, ServedIn
  <1>4. /\ s.k \in KernelState /\ KernelOK(s.k) /\ s.k.lock = 0
        /\ s.k.stat[Idle] \in {"READY", "RUNNING"} /\ s.k.err = k.err
    BY <1>2 DEF ScanKernel, ScanRecord
  <1>5. /\ Scheduled' /\ PreemptionPending' /\ k'.err = k.err /\ k'.tmr = s.k.tmr
        /\ \A t \in Thread : k'.stat[t] = "SUSPEND" <=> s.k.stat[t] = "SUSPEND"
    <2>1. CASE s.q = wl["recv"]
      BY <1>1, <1>3, <2>1 DEF EventInv, IpcInv, Scheduled, PreemptionPending, Me
    <2>2. CASE s.q # wl["recv"]
      BY <1>1, <1>4, <2>2, AfterSchedule
    <2> QED  BY <2>1, <2>2
  <1>6. pc' \in [Thread -> IpcPc]
    BY <1>1 DEF EventInv, EventTypes
  <1>7. /\ wl' \in [WaitList -> Seq(App)] /\ WaitersParked' /\ ParkedInCall'
        /\ EventTypes' /\ InCall' /\ EvNoneStranded' /\ OutcomeTrue' /\ TakesOnce
    BY <1>1, <1>5, <1>6, SendEffect DEF s
  <1>8. IdleApart'
    BY <1>1 DEF EventInv, IpcInv, IdleApart
  <1> QED  BY <1>5, <1>7, <1>8 DEF EventInv, IpcInv

LEMMA NobodyServed ==
    ASSUME Woken' \subseteq Woken
    PROVE  TakesOnce
  BY DEF TakesOnce

\* A step of a thread, of an interrupt handler or of the tick.
LEMMA EventKeeps ==
    ASSUME EventInv, [EvNext]_evSpecVars
    PROVE  EventInv' /\ (wl' # wl => TakesOnce)
  <1>1. CASE IpcStep /\ UNCHANGED set
    BY <1>1, EventIpcStep, NobodyServed
  <1>2. ASSUME NEW new \in SUBSET Bit \ {{}}, ThreadSend(new) \/ IsrSend(new)
        PROVE  EventInv' /\ TakesOnce
    BY <1>2, EventThreadSend, EventIsrSend
  <1>3. ASSUME NEW c \in Ask, RecvNow(c) \/ \E time \in Wait : RecvBlock(c, time)
        PROVE  EventInv' /\ Woken' \subseteq Woken
    BY <1>3, EventRecvNow, EventRecvBlock
  <1>4. CASE RecvReturn
    BY <1>4, EventRecvReturn, NobodyServed
  <1>5. CASE \/ (ResetBegin \/ \E l \in WaitList : ResetResume(l)) /\ UNCHANGED set
             \/ Reset
    BY <1>5, EventReset, NobodyServed
  <1>6. CASE UNCHANGED evSpecVars
    <2>1. IpcInv' /\ UNCHANGED <<k, wl, pc, call, set>>
      BY <1>6, SameIpc DEF evSpecVars, ipcVars, EventInv
    <2> QED  BY <2>1 DEF EventInv, EventTypes, InCall, EvNoneStranded, OutcomeTrue,
                         Woken, Waiting
  <1> QED  BY <1>1, <1>2, <1>3, <1>4, <1>5, <1>6, NobodyServed DEF EvNext

-----------------------------------------------------------------------------
(* The memory pool, for any number of threads and blocks *)

\* The free list is the chain of s, the blocks without the pool's address.
PoolChain(s) ==
    /\ Chained(MpBlock, Null, link, s, list) /\ Distinct(s)
    /\ ToSet(s) = {b \in MpBlock : link[b] # Pool}
    /\ count = Len(s)

PoolTypes ==
    /\ pc \in [Thread -> IpcPc]
    /\ call \in [Thread -> {NoCall} \cup {AllocCall(time) : time \in Wait}]
    /\ link \in [MpBlock -> MpBlock \cup {Null, Pool}]
    /\ suspended \in 0 .. MaxSuspended

\* Whoever waits is counted; a waiter that timed out may still be.
PoolCounts == Cardinality(ToSet(wl["alloc"])) <= suspended

\* No block is free beside a waiting thread unless as many are on their way.
PoolStrands == wl["alloc"] # << >> => count <= Cardinality(OnTheirWay("alloc"))

\* The inductive invariant.
PoolInv ==
    /\ IpcInv /\ PoolTypes /\ InCall /\ PoolCounts /\ PoolStrands
    /\ \E s : PoolChain(s)

LEMMA PoolFacts ==
    ASSUME MemPoolAssumption
    PROVE  /\ IsFiniteSet(MpBlock) /\ MpBlock # {} /\ Null \notin MpBlock
           /\ Pool \notin MpBlock /\ Null # Pool /\ "alloc" \in WaitList
           /\ MaxSuspended \in Nat /\ \A time : AllocCall(time).op = "alloc"
           /\ \A time : AllocCall(time).time = time
           /\ \A time : AllocCall(time) # NoCall
  <1>1. /\ IsFiniteSet(MpBlock) /\ MpBlock # {} /\ Null \notin MpBlock
        /\ Pool \notin MpBlock /\ Null # Pool /\ "alloc" \in WaitList
        /\ MaxSuspended \in Nat
    BY DEF MemPoolAssumption, IsFiniteSet
  <1>2. /\ \A time : AllocCall(time).op = "alloc" /\ AllocCall(time).time = time
        /\ \A time : AllocCall(time) # NoCall
    <2>1. \A time : "time" \in DOMAIN AllocCall(time) /\ "time" \notin DOMAIN NoCall
      BY DEF AllocCall, NoCall
    <2>2. \A time : AllocCall(time).op = "alloc" /\ AllocCall(time).time = time
      BY DEF AllocCall
    <2> QED  BY <2>1, <2>2
  <1> QED  BY <1>1, <1>2

LEMMA PoolChainForm ==
    Chain = ChainOf(MpBlock, MpBlock \cup {Null, Pool}, link, list)
  <1>1. Cardinality(MpBlock) = Cardinality(MpBlock)
    OBVIOUS
  <1>2. Chain =
          (CHOOSE f : f = [n \in 0 .. Cardinality(MpBlock) |->
              [b \in MpBlock \cup {Null, Pool} |->
                  IF b \notin MpBlock THEN << >>
                  ELSE IF n = 0 THEN <<b>>
                  ELSE <<b>> \o f[n - 1][link[b]]]])[Cardinality(MpBlock)][list]
    BY DEF Chain
  <1> QED  BY <1>1, <1>2 DEF ChainOf, Further

\* How many wait.
LEMMA PoolWaiters ==
    ASSUME IpcInv, "alloc" \in WaitList
    PROVE  /\ IsFiniteSet(ToSet(wl["alloc"])) /\ Cardinality(ToSet(wl["alloc"])) \in Nat
           /\ wl["alloc"] # << >> => Cardinality(ToSet(wl["alloc"])) > 0
           /\ \A R \in SUBSET ToSet(wl["alloc"]) :
                 /\ IsFiniteSet(R) /\ Cardinality(R) \in Nat
                 /\ Cardinality(R) <= Cardinality(ToSet(wl["alloc"]))
           /\ \A h \in ToSet(wl["alloc"]) : Cardinality(ToSet(wl["alloc"]) \ {h})
                                             = Cardinality(ToSet(wl["alloc"])) - 1
           /\ \A h : Cardinality(ToSet(wl["alloc"]) \cup {h})
                        <= Cardinality(ToSet(wl["alloc"])) + 1
  <1> DEFINE S == ToSet(wl["alloc"])
  <1>1. S \in SUBSET Thread /\ wl["alloc"] \in Seq(App)
    BY IpcTypes
  <1>2. wl["alloc"] # << >> => S # {}
    BY <1>1, EmptyList
  <1> HIDE DEF S
  <1>3. IsFiniteSet(S) /\ Cardinality(S) \in Nat
    BY <1>1, KernelAssumption, FS_Subset, FS_CardinalityType
  <1>4. S # {} => Cardinality(S) > 0
    <2>1. S # {} => Cardinality(S) # 0
      BY <1>3, FS_EmptySet
    <2> QED  BY <1>3, <2>1
  <1>5. \A R \in SUBSET S : IsFiniteSet(R) /\ Cardinality(R) \in Nat /\ Cardinality(R) <= Cardinality(S)
    BY <1>3, FS_Subset, FS_CardinalityType
  <1>6. \A h \in S : Cardinality(S \ {h}) = Cardinality(S) - 1
    BY <1>3, FS_RemoveElement, Zenon
  <1>7. \A h : Cardinality(S \cup {h}) <= Cardinality(S) + 1
    <2> SUFFICES ASSUME NEW h PROVE Cardinality(S \cup {h}) <= Cardinality(S) + 1
      BY Zenon
    <2>1. Cardinality(S \cup {h}) = IF h \in S THEN Cardinality(S) ELSE Cardinality(S) + 1
      BY <1>3, FS_AddElement, Zenon
    <2> QED  BY <1>3, <2>1
  <1> QED  BY <1>2, <1>3, <1>4, <1>5, <1>6, <1>7, Zenon DEF S

\* The first block is taken.
LEMMA PoolTake ==
    ASSUME MemPoolAssumption, PoolTypes, NEW s, PoolChain(s), Take
    PROVE  /\ \E q : PoolChain(q)'
           /\ link' \in [MpBlock -> MpBlock \cup {Null, Pool}]
           /\ count \in Nat \ {0} /\ count' = count - 1 /\ suspended' = suspended
  <1> USE PoolFacts
  <1>1. /\ count > 0 /\ count' = count - 1 /\ list' = link[list] /\ suspended' = suspended
        /\ link' = [link EXCEPT ![list] = Pool]
    BY DEF Take
  <1>2. /\ Chained(MpBlock, Null, link, s, list) /\ Distinct(s) /\ count = Len(s)
        /\ ToSet(s) = {b \in MpBlock : link[b] # Pool}
    BY DEF PoolChain
  <1>3. s \in Seq(MpBlock) /\ Len(s) \in Nat /\ s # << >>
    BY <1>1, <1>2, LenProperties, EmptySeq DEF Chained
  <1>4. /\ list \in MpBlock /\ list \in ToSet(s)
        /\ Chained(MpBlock, Null, link, Tail(s), link[list]) /\ Distinct(Tail(s))
        /\ ToSet(Tail(s)) = ToSet(s) \ {list} /\ Len(Tail(s)) = Len(s) - 1
        /\ Len(s) \in Nat \ {0}
    BY <1>2, <1>3, ChainedHead
  <1>5. link' \in [MpBlock -> MpBlock \cup {Null, Pool}]
    BY <1>1, <1>4 DEF PoolTypes
  <1>6. link'[list] = Pool /\ \A b \in MpBlock \ {list} : link'[b] = link[b]
    BY <1>1, <1>4 DEF PoolTypes
  <1>7. \A c \in ToSet(Tail(s)) : link'[c] = link[c]
    BY <1>2, <1>4, <1>6
  <1>8. Chained(MpBlock, Null, link', Tail(s), list')
    BY <1>1, <1>4, <1>7, ChainedSame, Zenon
  <1>9. ToSet(Tail(s)) = {b \in MpBlock : link'[b] # Pool}
    BY <1>2, <1>4, <1>6
  <1>10. PICK r : r = Tail(s)
    BY Zenon
  <1>12. PoolChain(r)'
    BY <1>1, <1>2, <1>4, <1>8, <1>9, <1>10 DEF PoolChain
  <1>11. \E q : PoolChain(q)'
    BY <1>12
  <1> QED  BY <1>1, <1>2, <1>4, <1>5, <1>11

\* A block is given back.
LEMMA PoolGive ==
    ASSUME MemPoolAssumption, PoolTypes, NEW s, PoolChain(s), NEW b \in MpBlock, Free(b)
    PROVE  /\ \E q : PoolChain(q)'
           /\ link' \in [MpBlock -> MpBlock \cup {Null, Pool}]
           /\ count \in Nat /\ count' = count + 1
  <1> USE PoolFacts
  <1>1. /\ link[b] = Pool /\ count' = count + 1 /\ list' = b
        /\ link' = [link EXCEPT ![b] = list]
    BY DEF Free
  <1>2. /\ Chained(MpBlock, Null, link, s, list) /\ Distinct(s) /\ count = Len(s)
        /\ ToSet(s) = {c \in MpBlock : link[c] # Pool}
    BY DEF PoolChain
  <1>3. list \in MpBlock \cup {Null} /\ b \notin ToSet(s)
    <2>1. list = Null <=> s = << >>
      BY <1>2, ChainedHead
    <2>2. s # << >> => list \in MpBlock
      BY <1>2, ChainedHead
    <2> QED  BY <1>1, <1>2, <2>1, <2>2
  <1>4. link' \in [MpBlock -> MpBlock \cup {Null, Pool}]
    BY <1>1, <1>3 DEF PoolTypes
  <1>5. link'[b] = list /\ \A c \in MpBlock \ {b} : link'[c] = link[c]
    BY <1>1 DEF PoolTypes
  <1>6. \A d \in ToSet(s) : link'[d] = link[d]
    BY <1>2, <1>3, <1>5
  <1> DEFINE q == <<b>> \o s
  <1>7. /\ Chained(MpBlock, Null, link', q, b) /\ Distinct(q) /\ ToSet(q) = ToSet(s) \cup {b}
        /\ Len(q) = Len(s) + 1 /\ Len(s) \in Nat
    <2>1. /\ Chained(MpBlock, Null, link, s, list) /\ Distinct(s) /\ b \in MpBlock
          /\ b \notin ToSet(s) /\ link'[b] = list /\ Null \notin MpBlock
          /\ \A d \in ToSet(s) : link'[d] = link[d]
      BY <1>2, <1>3, <1>5, <1>6
    <2> QED  BY ONLY <2>1, ChainedCons
  <1> HIDE DEF q
  <1>8. ToSet(q) = {c \in MpBlock : link'[c] # Pool}
    BY <1>2, <1>3, <1>5, <1>7
  <1>9. PICK r : r = q
    OBVIOUS
  <1>10. PoolChain(r)'
    BY <1>1, <1>2, <1>7, <1>8, <1>9 DEF PoolChain
  <1>11. \E x : PoolChain(x)'
    BY <1>10
  <1> QED  BY <1>1, <1>2, <1>4, <1>7, <1>11

\* Everybody who was woken is on his way to try again.
LEMMA PoolWoken ==
    ASSUME PoolTypes, InCall, MemPoolAssumption
    PROVE  Woken = OnTheirWay("alloc")
  <1>1. ASSUME NEW t \in Thread, pc[t] \in {"blocked", "wait"}
        PROVE  call[t].op = "alloc"
    BY <1>1, PoolFacts DEF PoolTypes, InCall
  <1>2. Woken = Woken
    OBVIOUS
  <1> QED  BY <1>1, <1>2 DEF OnTheirWay, Woken

LEMMA PoolInvImplies ==
    ASSUME PoolInv, MemPoolAssumption
    PROVE  MpConsistent /\ MpNoneStranded /\ MpBlocksAccounted
  <1> USE PoolFacts
  <1>1. PICK s : PoolChain(s)
    BY DEF PoolInv
  <1>2. Chain = s
    <2>1. Chained(MpBlock, Null, link, s, list) /\ Distinct(s)
      BY <1>1 DEF PoolChain
    <2> QED  BY <2>1, WalkIs, PoolChainForm
  <1>3. MpBlocksAccounted
    BY <1>1, <1>2 DEF MpBlocksAccounted, PoolChain
  <1>4. MpNoneStranded
    BY PoolWoken DEF PoolInv, PoolStrands, MpNoneStranded
  <1>5. list \in MpBlock \cup {Null} /\ count \in 0 .. Cardinality(MpBlock)
    <2>1. /\ Chained(MpBlock, Null, link, s, list) /\ Distinct(s) /\ count = Len(s)
          /\ s \in Seq(MpBlock)
      BY <1>1 DEF PoolChain, Chained
    <2>2. list \in MpBlock \cup {Null}
      BY <2>1, ChainedHead
    <2>3. Len(s) \in Nat /\ Len(s) <= Cardinality(MpBlock) /\ Cardinality(MpBlock) \in Nat
      BY <2>1, ChainLength
    <2> QED  BY <2>1, <2>2, <2>3
  <1>6. MpTypeOK
    BY <1>5, IpcTypes
       DEF MpTypeOK, IpcTypeOK, PoolInv, PoolTypes, IpcPc
  <1>7. KernelConsistent /\ PreemptionPending
    BY IpcTypes
       DEF KernelConsistent, PreemptionPending, PoolInv, IpcInv
  <1>8. WaitersParked
    BY DEF WaitersParked, PoolInv, IpcInv
  <1> QED  BY <1>3, <1>4, <1>6, <1>7, <1>8 DEF MpConsistent

\* All blocks are free at the start, in the order of their addresses.
LEMMA PoolInvInit ==
    ASSUME MpInit, MemPoolAssumption
    PROVE  PoolInv
  <1> USE PoolFacts
  <1> DEFINE order == SetToSeq(MpBlock)
  <1>1. /\ order \in Seq(MpBlock) /\ Distinct(order) /\ ToSet(order) = MpBlock
        /\ Len(order) = Cardinality(MpBlock) /\ Len(order) \in Nat
    BY SetInSequence, LenProperties
  <1>2. order # << >>
    BY <1>1 DEF ToSet
  <1>3. IpcInit
    BY DEF MpInit, IpcInit, SectionsInit, Prio
  <1>4. list = order[1] /\ count = Len(order) /\ suspended = 0
    BY <1>1 DEF MpInit
  <1>5. link = [b \in MpBlock |->
                   LET i == SelectInSeq(order, LAMBDA c : c = b)
                   IN  IF i = Len(order) THEN Null ELSE order[i + 1]]
    BY Zenon DEF MpInit
  <1> HIDE DEF order
  <1>6. ASSUME NEW j \in 1 .. Len(order)
        PROVE  SelectInSeq(order, LAMBDA c : c = order[j]) = j
    <2> DEFINE I == {i \in 1 .. Len(order) : order[i] = order[j]}
    <2>1. I = {j}
      BY <1>1, <1>6, LenProperties DEF Distinct
    <2>2. SelectInSeq(order, LAMBDA c : c = order[j]) = IF I # {} THEN Min(I) ELSE 0
      BY DEF SelectInSeq
    <2>3. Min({j}) = j
      BY <1>1 DEF Min
    <2> QED  BY <2>1, <2>2, <2>3, Zenon
  <1>7. ASSUME NEW j \in 1 .. Len(order)
        PROVE  /\ order[j] \in MpBlock
               /\ link[order[j]] = IF j = Len(order) THEN Null ELSE order[j + 1]
    <2>1. order[j] \in MpBlock
      BY <1>1, ElementOfSeq
    <2> QED  BY <1>5, <1>6, <2>1, Zenon
  <1>8. \A b \in MpBlock : link[b] \in MpBlock \cup {Null}
    <2> SUFFICES ASSUME NEW b \in MpBlock PROVE link[b] \in MpBlock \cup {Null}
      OBVIOUS
    <2>1. PICK j \in 1 .. Len(order) : b = order[j]
      BY <1>1, LenProperties DEF ToSet
    <2>2. j # Len(order) => j + 1 \in 1 .. Len(order)
      BY <1>1
    <2> QED  BY <1>1, <1>7, <2>1, <2>2, ElementOfSeq
  <1>9. PoolChain(order)
    <2>1. Chained(MpBlock, Null, link, order, list)
      BY <1>1, <1>2, <1>4, <1>7 DEF Chained
    <2> QED  BY <1>1, <1>4, <1>8, <2>1 DEF PoolChain
  <1>10. link \in [MpBlock -> MpBlock \cup {Null, Pool}]
    BY <1>5, <1>8, Zenon
  <1>11. /\ pc = [t \in Thread |-> "run"] /\ call = [t \in Thread |-> NoCall]
         /\ wl["alloc"] = << >>
    BY <1>3 DEF IpcInit, SectionsInit
  <1>12. PoolTypes /\ InCall /\ PoolStrands
    BY <1>4, <1>10, <1>11 DEF PoolTypes, InCall, PoolStrands, IpcPc
  <1>13. PoolCounts
    <2>1. ToSet(<< >>) = {}
      BY DEF ToSet
    <2>2. ToSet(wl["alloc"]) = {}
      BY <1>11, <2>1
    <2>3. Cardinality(ToSet(wl["alloc"])) = 0
      BY <2>2, FS_EmptySet
    <2> QED  BY <1>4, <2>3 DEF PoolCounts
  <1> QED  BY <1>3, <1>9, <1>12, <1>13, IpcInvInit DEF PoolInv

-----------------------------------------------------------------------------
(* The steps of the memory pool *)

\* Sections that do not touch the blocks and let nobody go on.
LEMMA PoolRests ==
    ASSUME PoolInv, IpcInv', PoolTypes', InCall', PoolCounts',
           UNCHANGED <<list, link, count>>,
           wl'["alloc"] # << >> => \/ count = 0
                                   \/ /\ wl["alloc"] # << >>
                                      /\ OnTheirWay("alloc")' = OnTheirWay("alloc")
    PROVE  PoolInv'
  <1>1. PICK s : PoolChain(s)
    BY DEF PoolInv
  <1>2. PoolChain(s)'
    BY <1>1 DEF PoolChain
  <1>3. PoolStrands'
    <2>1. Cardinality(OnTheirWay("alloc")') \in Nat
      <3>1. OnTheirWay("alloc")' \in SUBSET Thread
        BY DEF OnTheirWay, Woken
      <3> QED  BY <3>1, KernelAssumption, FS_Subset, FS_CardinalityType
    <2>2. Cardinality(OnTheirWay("alloc"))' = Cardinality(OnTheirWay("alloc")')
      OBVIOUS
    <2> QED  BY <2>1, <2>2 DEF PoolInv, PoolStrands
  <1> QED  BY <1>2, <1>3 DEF PoolInv

LEMMA PoolIpcStep ==
    ASSUME PoolInv, MemPoolAssumption, IpcStep, UNCHANGED mpVars
    PROVE  PoolInv'
  <1> USE PoolFacts
  <1>1. UNCHANGED <<list, link, count, suspended>>
    BY DEF mpVars
  <1>2. IpcStep
    BY DEF IpcStep
  <1> DEFINE C == {NoCall} \cup {AllocCall(time) : time \in Wait}
  <1>3. /\ {"run", "wait"} \subseteq IpcPc /\ pc \in [Thread -> IpcPc]
        /\ NoCall \in C /\ call \in [Thread -> C]
    BY DEF PoolInv, PoolTypes, IpcPc
  <1> HIDE DEF C
  <1>4. /\ IpcInv' /\ pc' \in [Thread -> IpcPc] /\ call' \in [Thread -> C]
        /\ \A o : OnTheirWay(o)' = OnTheirWay(o)
        /\ \A l \in WaitList : ToSet(wl'[l]) \subseteq ToSet(wl[l])
        /\ \A t \in Thread :
              \/ pc'[t] = pc[t] /\ call'[t] = call[t]
              \/ pc[t] = "pend" /\ pc'[t] = "run" /\ call'[t] = call[t]
              \/ pc[t] = "blocked" /\ pc'[t] = "wait" /\ call'[t] = call[t]
              \/ /\ pc[t] = "wait" /\ k.err[t] # "EOK"
                 /\ pc'[t] = "run" /\ call'[t] = NoCall
    BY <1>2, <1>3, IpcStepSection DEF PoolInv
  <1>5. PoolTypes' /\ InCall'
    BY <1>1, <1>4 DEF PoolInv, PoolTypes, InCall, C
  <1>6. PoolCounts'
    <2>1. Cardinality(ToSet(wl'["alloc"])) <= Cardinality(ToSet(wl["alloc"]))
          /\ Cardinality(ToSet(wl'["alloc"])) \in Nat /\ Cardinality(ToSet(wl["alloc"])) \in Nat
      BY <1>4, PoolWaiters DEF PoolInv
    <2> QED  BY <1>1, <2>1 DEF PoolInv, PoolCounts, PoolTypes
  <1>7. wl'["alloc"] # << >> => wl["alloc"] # << >>
    <2>1. wl["alloc"] \in Seq(App) /\ wl'["alloc"] \in Seq(App)
      BY <1>4, IpcTypes DEF PoolInv, IpcInv
    <2> QED  BY <1>4, <2>1, EmptyList, Zenon
  <1> QED  BY <1>1, <1>4, <1>5, <1>6, <1>7, PoolRests

LEMMA PoolAlloc ==
    ASSUME PoolInv, MemPoolAssumption, NEW c, c.op = "alloc", Alloc(c)
    PROVE  PoolInv'
  <1> USE PoolFacts
  <1>1. /\ Testing(c) /\ Take /\ UNCHANGED <<k, wl>>
        /\ pc' = [pc EXCEPT ![Me] = "run"] /\ call' = [call EXCEPT ![Me] = NoCall]
    BY DEF Alloc, EndCall, Goto
  <1>2. PICK s : PoolChain(s)
    BY DEF PoolInv
  <1>3. /\ \E q : PoolChain(q)'
        /\ link' \in [MpBlock -> MpBlock \cup {Null, Pool}]
        /\ count \in Nat \ {0} /\ count' = count - 1 /\ suspended' = suspended
    BY <1>1, <1>2, PoolTake DEF PoolInv
  <1>4. Me \in Thread /\ pc[Me] \notin {"pend", "blocked", "reset"} /\ k.err[Me] \in Err
        /\ k' = [k EXCEPT !.err[Me] = k.err[Me]]
    BY <1>1, TesterAwake, IpcTypes DEF PoolInv, KernelState
  <1>5. /\ pc' \in [Thread -> IpcPc] /\ pc'[Me] = "run" /\ call'[Me] = NoCall
        /\ call' \in [Thread -> {NoCall} \cup {AllocCall(time) : time \in Wait}]
        /\ \A t \in Thread \ {Me} : pc'[t] = pc[t] /\ call'[t] = call[t]
    BY <1>1, <1>4 DEF PoolInv, PoolTypes, IpcPc
  <1>6. IpcInv' /\ OnTheirWay("alloc")' = OnTheirWay("alloc") \ {Me}
    BY <1>1, <1>4, <1>5, QuietSection, Zenon DEF PoolInv
  <1>7. PoolTypes' /\ InCall' /\ PoolCounts'
    BY <1>1, <1>3, <1>4, <1>5 DEF PoolInv, PoolTypes, InCall, PoolCounts
  <1>8. PoolStrands'
    <2>1. /\ Cardinality(OnTheirWay("alloc") \ {Me}) >= Cardinality(OnTheirWay("alloc")) - 1
          /\ Cardinality(OnTheirWay("alloc")) \in Nat
          /\ Cardinality(OnTheirWay("alloc") \ {Me}) \in Nat
      BY WayCount, Zenon
    <2>2. Cardinality(OnTheirWay("alloc"))' = Cardinality(OnTheirWay("alloc") \ {Me})
      BY <1>6, Zenon
    <2> QED  BY <1>1, <1>3, <2>1, <2>2 DEF PoolInv, PoolStrands
  <1> QED  BY <1>3, <1>6, <1>7, <1>8 DEF PoolInv

LEMMA PoolAllocBlock ==
    ASSUME PoolInv, MemPoolAssumption, NEW time \in Wait,
           AllocBlock(AllocCall(time))
    PROVE  PoolInv'
  <1> USE PoolFacts
  <1> DEFINE c == AllocCall(time)
             q == <<Me>> \o wl["alloc"]
             C == {NoCall} \cup {AllocCall(w) : w \in Wait}
  <1>1. /\ Testing(c) /\ count = 0 /\ suspended < MaxSuspended
        /\ Block("alloc", q, c, c.time)
        /\ suspended' = suspended + 1 /\ UNCHANGED <<list, link, count>>
    BY DEF AllocBlock
  <1>2. c.op = "alloc" /\ c.time = time /\ c # NoCall /\ c \in C
    OBVIOUS
  <1>3. /\ pc \in [Thread -> IpcPc] /\ call \in [Thread -> C]
    BY DEF PoolInv, PoolTypes
  <1> HIDE DEF c, C
  <1>4. Me \in App /\ Me \in Thread /\ Me \notin ToSet(wl["alloc"]) /\ wl["alloc"] \in Seq(App)
        /\ Distinct(wl["alloc"])
    BY <1>1, TesterAwake, IpcTypes DEF PoolInv
  <1>5. q \in Seq(App) /\ ToSet(q) = ToSet(wl["alloc"]) \cup {Me} /\ Distinct(q)
    BY <1>4, ConsList
  <1> HIDE DEF q
  <1>6. /\ IpcInv' /\ \A o : OnTheirWay(o)' = OnTheirWay(o) \ {Me}
    <2>1. /\ IpcInv /\ "alloc" \in WaitList /\ c.op = "alloc" /\ time \in Wait
          /\ (pc[Me] \notin {"blocked", "wait"} \/ Testing(c)) /\ Me \in App
          /\ call \in [Thread -> C] /\ pc \in [Thread -> IpcPc] /\ q \in Seq(App)
          /\ ToSet(q) = ToSet(wl["alloc"]) \cup {Me}
          /\ (Me \notin ToSet(wl["alloc"]) => Distinct(q))
          /\ Block("alloc", q, c, time)
      BY <1>1, <1>2, <1>3, <1>4, <1>5 DEF PoolInv
    <2> QED  BY ONLY <2>1, BlockOnSection, Zenon
  <1>7. /\ pc' = [pc EXCEPT ![Me] = "blocked"] /\ call' = [call EXCEPT ![Me] = c]
        /\ wl' = [wl EXCEPT !["alloc"] = q]
    BY <1>1 DEF Block, Goto
  <1>8. PoolTypes' /\ InCall'
    BY <1>1, <1>2, <1>3, <1>4, <1>7 DEF PoolInv, PoolTypes, InCall, IpcPc, C
  <1>9. PoolCounts'
    <2>1. wl'["alloc"] = q
      BY <1>7, IpcTypes DEF PoolInv
    <2>2. /\ Cardinality(ToSet(wl["alloc"]) \cup {Me}) <= Cardinality(ToSet(wl["alloc"])) + 1
          /\ Cardinality(ToSet(wl["alloc"])) \in Nat
      BY PoolWaiters, Zenon DEF PoolInv
    <2>3. Cardinality(ToSet(wl["alloc"]) \cup {Me}) \in Nat
      BY <1>4, <1>5, KernelAssumption, FS_Subset, FS_CardinalityType, IpcTypes DEF PoolInv
    <2>4. Cardinality(ToSet(wl'["alloc"])) = Cardinality(ToSet(wl["alloc"]) \cup {Me})
      BY <1>5, <2>1, Zenon
    <2> QED  BY <1>1, <2>2, <2>3, <2>4 DEF PoolInv, PoolCounts, PoolTypes
  <1> QED  BY <1>1, <1>6, <1>8, <1>9, PoolRests

LEMMA PoolExpired ==
    ASSUME PoolInv, MemPoolAssumption, AllocExpired
    PROVE  PoolInv'
  <1> USE PoolFacts
  <1>1. count = 0 /\ Expired("alloc", "ETIMEOUT") /\ UNCHANGED <<list, link, count, suspended>>
    BY DEF AllocExpired, mpVars
  <1> DEFINE C == {NoCall} \cup {AllocCall(time) : time \in Wait}
  <1>2. /\ "run" \in IpcPc /\ "ETIMEOUT" \in Err /\ pc \in [Thread -> IpcPc]
        /\ NoCall \in C /\ call \in [Thread -> C]
    BY DEF PoolInv, PoolTypes, IpcPc, Err
  <1> HIDE DEF C
  <1>3. /\ IpcInv' /\ pc' \in [Thread -> IpcPc] /\ call' \in [Thread -> C] /\ wl' = wl
        /\ pc'[Me] = "run" /\ call'[Me] = NoCall
        /\ \A t \in Thread \ {Me} : pc'[t] = pc[t] /\ call'[t] = call[t]
    BY <1>1, <1>2, ExpiredSection DEF PoolInv
  <1>4. PoolTypes' /\ InCall' /\ PoolCounts'
    BY <1>1, <1>3 DEF PoolInv, PoolTypes, InCall, PoolCounts, C
  <1> QED  BY <1>1, <1>3, <1>4, PoolRests

LEMMA PoolIsrAlloc ==
    ASSUME PoolInv, MemPoolAssumption, IsrAlloc
    PROVE  PoolInv'
  <1> USE PoolFacts
  <1>1. Take /\ UNCHANGED <<k, wl, pc, call>>
    BY DEF IsrAlloc, ipcVars
  <1>2. PICK s : PoolChain(s)
    BY DEF PoolInv
  <1>3. /\ \E q : PoolChain(q)'
        /\ link' \in [MpBlock -> MpBlock \cup {Null, Pool}]
        /\ count \in Nat \ {0} /\ count' = count - 1 /\ suspended' = suspended
    BY <1>1, <1>2, PoolTake DEF PoolInv
  <1>4. IpcInv' /\ OnTheirWay("alloc")' = OnTheirWay("alloc")
    BY <1>1, SameIpc DEF PoolInv, ipcVars
  <1>5. PoolTypes' /\ InCall' /\ PoolCounts'
    BY <1>1, <1>3 DEF PoolInv, PoolTypes, InCall, PoolCounts
  <1>6. PoolStrands'
    <2>1. Cardinality(OnTheirWay("alloc")) \in Nat
      BY WayCount, Zenon
    <2>2. Cardinality(OnTheirWay("alloc"))' = Cardinality(OnTheirWay("alloc"))
      BY <1>4
    <2> QED  BY <1>1, <1>3, <2>1, <2>2 DEF PoolInv, PoolStrands
  <1> QED  BY <1>3, <1>4, <1>5, <1>6 DEF PoolInv

\* What a freed block does to the wait list: with a waiter counted, the first one
\* goes on; otherwise there is none.
LEMMA PoolServes ==
    ASSUME PoolInv, MemPoolAssumption, NEW b \in MpBlock, Free(b)
    PROVE  /\ suspended > 0 => /\ wl["alloc"] # << >> /\ suspended' = suspended - 1
                               /\ Served = ResumeFirst("alloc")
           /\ ~ suspended > 0 => /\ wl["alloc"] = << >> /\ suspended' = suspended
                                 /\ Served = k
           /\ Popped("alloc") = Popped("alloc")
  <1> USE PoolFacts
  <1>1. Wakes <=> suspended > 0
    BY DEF Wakes
  <1>2. CASE suspended > 0
    <2>1. wl["alloc"] # << >> /\ suspended' = suspended - 1
      BY <1>1, <1>2 DEF Free
    <2> DEFINE t == Head(wl["alloc"])
    <2>2. t \in Thread /\ k.err[t] = "EOK"
      BY <2>1, FirstWaiter DEF PoolInv
    <2>3. k \in KernelState
      BY IpcTypes DEF PoolInv
    <2>4. Served = Resume([k EXCEPT !.err[t] = "EOK"], t)
      BY <1>1, <1>2 DEF Served
    <2> HIDE DEF t
    <2>5. [k EXCEPT !.err[t] = "EOK"] = k
      BY <2>2, <2>3 DEF KernelState
    <2>6. Served = Resume(k, t)
      BY <2>4, <2>5
    <2>7. ResumeFirst("alloc") = Resume(k, t)
      BY <2>1 DEF ResumeFirst, t
    <2> QED  BY <1>2, <2>1, <2>6, <2>7 DEF Popped
  <1>3. CASE ~ suspended > 0
    <2>1. suspended' = suspended /\ Served = k
      BY <1>1, <1>3 DEF Free, Served
    <2>2. /\ Cardinality(ToSet(wl["alloc"])) \in Nat
          /\ wl["alloc"] # << >> => Cardinality(ToSet(wl["alloc"])) > 0
      BY PoolWaiters DEF PoolInv
    <2>3. wl["alloc"] = << >>
      BY <1>3, <2>2 DEF PoolInv, PoolCounts, PoolTypes
    <2> QED  BY <1>3, <2>1, <2>3 DEF Popped
  <1> QED  BY <1>2, <1>3

\* With one waiter fewer and one more on his way for the block that was freed.
LEMMA PoolServed ==
    ASSUME PoolInv, MemPoolAssumption, IpcInv', NEW b \in MpBlock, Free(b),
           pc' \in [Thread -> IpcPc],
           call' \in [Thread -> {NoCall} \cup {AllocCall(time) : time \in Wait}], InCall',
           suspended > 0 => /\ wl' = Popped("alloc")
                            /\ OnTheirWay("alloc")'
                                  = OnTheirWay("alloc") \cup {Head(wl["alloc"])}
                            /\ Head(wl["alloc"]) \notin OnTheirWay("alloc"),
           ~ suspended > 0 => wl' = wl
    PROVE  PoolInv'
  <1> USE PoolFacts
  <1>1. PICK s : PoolChain(s)
    BY DEF PoolInv
  <1>2. /\ \E q : PoolChain(q)'
        /\ link' \in [MpBlock -> MpBlock \cup {Null, Pool}]
        /\ count \in Nat /\ count' = count + 1
    BY <1>1, PoolGive DEF PoolInv
  <1>3. /\ suspended > 0 => wl["alloc"] # << >> /\ suspended' = suspended - 1
        /\ ~ suspended > 0 => wl["alloc"] = << >> /\ suspended' = suspended
    BY PoolServes
  <1>4. suspended \in 0 .. MaxSuspended
    BY DEF PoolInv, PoolTypes
  <1>5. PoolTypes'
    BY <1>2, <1>3, <1>4 DEF PoolTypes
  <1>6. CASE suspended > 0
    <2> DEFINE h == Head(wl["alloc"])
    <2>1. /\ h \in ToSet(wl["alloc"])
          /\ ToSet(Popped("alloc")["alloc"]) = ToSet(wl["alloc"]) \ {h}
      BY <1>3, <1>6, FirstWaiter, ZenonT(40) DEF PoolInv
    <2>2. /\ wl' = Popped("alloc") /\ h \notin OnTheirWay("alloc")
          /\ OnTheirWay("alloc")' = OnTheirWay("alloc") \cup {h}
      BY <1>6
    <2> HIDE DEF h
    <2>3. /\ Cardinality(ToSet(wl["alloc"]) \ {h}) = Cardinality(ToSet(wl["alloc"])) - 1
          /\ Cardinality(ToSet(wl["alloc"])) \in Nat
      BY <2>1, PoolWaiters DEF PoolInv
    <2>4. ToSet(wl'["alloc"]) = ToSet(wl["alloc"]) \ {h}
      BY <2>1, <2>2
    <2>5. Cardinality(ToSet(wl'["alloc"])) = Cardinality(ToSet(wl["alloc"])) - 1
      BY <2>3, <2>4
    <2>6. PoolCounts'
      BY <1>3, <1>4, <1>6, <2>3, <2>5 DEF PoolInv, PoolCounts
    <2>7. /\ Cardinality(OnTheirWay("alloc") \cup {h}) = Cardinality(OnTheirWay("alloc")) + 1
          /\ Cardinality(OnTheirWay("alloc")) \in Nat
      BY <2>2, WayCount, Zenon
    <2>8. Cardinality(OnTheirWay("alloc"))' = Cardinality(OnTheirWay("alloc") \cup {h})
      BY <2>2
    <2>9. count <= Cardinality(OnTheirWay("alloc"))
      BY <1>3, <1>6 DEF PoolInv, PoolStrands
    <2>10. PoolStrands'
      BY <1>2, <2>7, <2>8, <2>9 DEF PoolStrands
    <2> QED  BY <1>2, <1>5, <2>6, <2>10 DEF PoolInv
  <1>7. CASE ~ suspended > 0
    <2>1. PoolCounts' /\ PoolStrands'
      BY <1>3, <1>7 DEF PoolInv, PoolCounts, PoolStrands
    <2> QED  BY <1>2, <1>5, <2>1 DEF PoolInv
  <1> QED  BY <1>6, <1>7

LEMMA PoolThreadFree ==
    ASSUME PoolInv, MemPoolAssumption, NEW b \in MpBlock, ThreadFree(b)
    PROVE  PoolInv'
  <1> USE PoolFacts
  <1>1. /\ pc[Me] = "run" /\ Me \in App /\ Free(b) /\ k' = Served /\ UNCHANGED call
        /\ wl' = IF suspended > 0 THEN Popped("alloc") ELSE wl
        /\ pc' = [pc EXCEPT ![Me] = IF suspended > 0 THEN "pend" ELSE "run"]
    <2>1. /\ Free(b) /\ k' = Served /\ UNCHANGED call
          /\ wl' = IF suspended > 0 THEN Popped("alloc") ELSE wl
          /\ Goto(IF suspended > 0 THEN "pend" ELSE "run") /\ Calling
      BY DEF ThreadFree, Wakes
    <2>2. Calling /\ Goto(IF suspended > 0 THEN "pend" ELSE "run")
      BY <2>1
    <2> QED  BY <2>1, <2>2, PoolServes DEF Calling, At, Goto
  <1>2. Me \in Thread /\ call[Me] = NoCall
        /\ pc \in [Thread -> IpcPc]
        /\ call \in [Thread -> {NoCall} \cup {AllocCall(time) : time \in Wait}]
    BY <1>1, IpcTypes DEF PoolInv, InCall, PoolTypes
  <1>3. /\ pc' \in [Thread -> IpcPc]
        /\ call' \in [Thread -> {NoCall} \cup {AllocCall(time) : time \in Wait}]
        /\ \A t \in Thread \ {Me} : pc'[t] = pc[t] /\ call'[t] = call[t]
        /\ pc'[Me] \in {"run", "pend"} /\ call'[Me] = NoCall
    BY <1>1, <1>2 DEF IpcPc
  <1>4. InCall'
    BY <1>1, <1>3 DEF PoolInv, InCall
  <1>5. \A o : OnTheirWay(o) \ {Me} = OnTheirWay(o)
    BY <1>1, WayMember
  <1>6. CASE suspended > 0
    <2>1. wl["alloc"] # << >> /\ Served = ResumeFirst("alloc")
      BY <1>1, <1>6, PoolServes
    <2>2. ThreadWakes("alloc")
      <3>1. [call EXCEPT ![Me] = NoCall] = call
        BY <1>2
      <3> QED  BY <1>1, <1>6, <2>1, <3>1 DEF ThreadWakes, EndCall, Goto
    <2> DEFINE h == Head(wl["alloc"])
    <2>3. /\ IpcInv' /\ h \notin OnTheirWay("alloc")
          /\ OnTheirWay("alloc")' = (OnTheirWay("alloc") \ {Me}) \cup {h}
      <3>1. Me \in DOMAIN pc /\ pc[Me] \notin {"pend", "blocked", "reset"}
            /\ IpcInv /\ "alloc" \in WaitList
        BY <1>1, <1>2 DEF PoolInv
      <3> QED  BY <1>3, <2>1, <2>2, <3>1, ThreadWakesSection
    <2>4. OnTheirWay("alloc")' = OnTheirWay("alloc") \cup {h}
      BY <1>5, <2>3
    <2> QED  BY <1>1, <1>3, <1>4, <1>6, <2>3, <2>4, PoolServed
  <1>7. CASE ~ suspended > 0
    <2>1. k' = k /\ wl' = wl
      BY <1>1, <1>7, PoolServes
    <2>2. k' = [k EXCEPT !.err[Me] = k.err[Me]] /\ k.err[Me] \in Err
      BY <1>2, <2>1, IpcTypes DEF PoolInv, KernelState
    <2>3. IpcInv'
      BY <1>1, <1>3, <2>1, <2>2, QuietSection, Zenon DEF PoolInv
    <2> QED  BY <1>1, <1>3, <1>4, <1>7, <2>1, <2>3, PoolServed
  <1> QED  BY <1>6, <1>7

LEMMA PoolIsrFree ==
    ASSUME PoolInv, MemPoolAssumption, NEW b \in MpBlock, IsrFree(b)
    PROVE  PoolInv'
  <1> USE PoolFacts
  <1>1. /\ IrqEnabled /\ Free(b) /\ UNCHANGED <<pc, call>>
        /\ k' = IF suspended > 0 THEN Schedule(Served) ELSE k
        /\ wl' = IF suspended > 0 THEN Popped("alloc") ELSE wl
    BY PoolServes
       DEF IsrFree, Wakes, IrqEnabled
  <1>2. /\ pc' \in [Thread -> IpcPc] /\ InCall'
        /\ call' \in [Thread -> {NoCall} \cup {AllocCall(time) : time \in Wait}]
    BY <1>1 DEF PoolInv, PoolTypes, InCall
  <1>3. CASE suspended > 0
    <2>1. wl["alloc"] # << >> /\ Served = ResumeFirst("alloc")
      BY <1>1, <1>3, PoolServes
    <2>2. IsrWakes("alloc")
      BY <1>1, <1>3, <2>1 DEF IsrWakes
    <2> DEFINE h == Head(wl["alloc"])
    <2>3. /\ IpcInv' /\ h \notin OnTheirWay("alloc")
          /\ OnTheirWay("alloc")' = OnTheirWay("alloc") \cup {h}
      BY <2>1, <2>2, IsrWakesSection DEF PoolInv
    <2> QED  BY <1>1, <1>2, <1>3, <2>3, PoolServed
  <1>4. CASE ~ suspended > 0
    <2>1. IpcInv' /\ wl' = wl
      BY <1>1, <1>4, SameIpc DEF PoolInv, ipcVars
    <2> QED  BY <1>1, <1>2, <1>4, <2>1, PoolServed
  <1> QED  BY <1>3, <1>4

\* A step of a thread, of an interrupt handler or of the tick.
LEMMA PoolKeeps ==
    ASSUME PoolInv, MemPoolAssumption, [MpNext]_mpSpecVars
    PROVE  PoolInv'
  <1>1. CASE IpcStep /\ UNCHANGED mpVars
    BY <1>1, PoolIpcStep
  <1>2. ASSUME NEW time \in Wait,
               Alloc(AllocCall(time)) \/ AllocBlock(AllocCall(time))
        PROVE  PoolInv'
    <2>1. time \in Wait /\ AllocCall(time).op = "alloc"
      BY <1>2, PoolFacts
    <2> QED  BY <1>2, <2>1, PoolAlloc, PoolAllocBlock
  <1>3. CASE AllocExpired \/ IsrAlloc
    BY <1>3, PoolExpired, PoolIsrAlloc
  <1>4. ASSUME NEW b \in MpBlock, ThreadFree(b) \/ IsrFree(b) PROVE PoolInv'
    BY <1>4, PoolThreadFree, PoolIsrFree
  <1>5. CASE UNCHANGED mpSpecVars
    <2>1. /\ UNCHANGED <<k, wl, pc, call, list, link, count, suspended>>
      BY <1>5 DEF mpSpecVars, ipcVars, mpVars
    <2>2. IpcInv' /\ OnTheirWay("alloc")' = OnTheirWay("alloc")
      BY <2>1, SameIpc DEF PoolInv, ipcVars
    <2>3. PoolTypes' /\ InCall' /\ PoolCounts'
      BY <2>1 DEF PoolInv, PoolTypes, InCall, PoolCounts
    <2> QED  BY <2>1, <2>2, <2>3, PoolRests
  <1> QED  BY <1>1, <1>2, <1>3, <1>4, <1>5 DEF MpNext

-----------------------------------------------------------------------------
(* The completion, for any number of threads *)

\* A step that leaves the object alone changes an error number only to that of
\* a wait whose time is up.
LEMMA StepErrors ==
    ASSUME IpcInv, IpcStep
    PROVE  \A t \in Thread : k'.err[t] \in {k.err[t], "ETIMEOUT"}
  <1> USE IpcTypes
  <1>1. ASSUME NEW t \in Thread, Startup(t) PROVE k'.err = k.err
    <2> DEFINE i == [k EXCEPT !.stat[t] = "SUSPEND"]
               m == Resume(i, t)
    <2>1. k.stat[t] = "INIT" /\ k' = Schedule(m)
      BY <1>1 DEF Startup
    <2>2. /\ i \in KernelState /\ i.cur = k.cur /\ i.prio = k.prio /\ i.rq = k.rq
          /\ i.grp = k.grp /\ i.err = k.err /\ i.tmr = k.tmr /\ i.lock = k.lock
          /\ i.stat = [k.stat EXCEPT ![t] = "SUSPEND"]
      BY Zenon DEF KernelState, Stat
    <2> HIDE DEF i
    <2>3. KernelOK(i) /\ i.stat[t] = "SUSPEND" /\ t # Idle
      BY <2>1, <2>2 DEF KernelOK, ReadyListed, ReadyDistinct, GroupExact, OneRunning
    <2> HIDE DEF m
    <2>4. /\ m \in KernelState /\ KernelOK(m)
          /\ m.cur = i.cur /\ m.lock = i.lock
          /\ m.stat = [i.stat EXCEPT ![t] = IF t = i.cur THEN "RUNNING" ELSE "READY"]
          /\ m.err = i.err
      BY <2>2, <2>3, ResumeEffect DEF m
    <2>5. m.stat[Idle] \in {"READY", "RUNNING"} /\ m.lock = 0
      BY <2>2, <2>3, <2>4
    <2>6. k'.err = m.err
      BY <2>1, <2>4, <2>5, AfterSchedule, Zenon
    <2> QED  BY <2>2, <2>4, <2>6
  <1>2. ASSUME NEW t \in Thread, TickTimeout(t)
        PROVE  \A u \in Thread : k'.err[u] \in {k.err[u], "ETIMEOUT"}
    <2> DEFINE m == Wake(k, t, "ETIMEOUT")
    <2>1. t \in k.tmr /\ k' = Schedule(m)
      BY <1>2 DEF TickTimeout, Timeout
    <2>2. k.stat[t] = "SUSPEND" /\ t # Idle
      BY <2>1 DEF IpcInv, WaitersParked
    <2>3. /\ m \in KernelState /\ KernelOK(m) /\ m.lock = k.lock
          /\ m.stat = [k.stat EXCEPT ![t] = IF t = k.cur THEN "RUNNING" ELSE "READY"]
          /\ m.err = [k.err EXCEPT ![t] = "ETIMEOUT"]
      <3>1. "ETIMEOUT" \in Err /\ k.stat[t] = "SUSPEND" /\ k \in KernelState /\ KernelOK(k)
        BY <2>2 DEF Err
      <3> QED  BY ONLY <3>1, t \in Thread, WakeEffect
    <2> HIDE DEF m
    <2>4. m.stat[Idle] \in {"READY", "RUNNING"} /\ m.lock = 0
      BY <2>2, <2>3
    <2>5. k'.err = m.err
      BY <2>1, <2>3, <2>4, AfterSchedule
    <2> QED  BY <2>3, <2>5
  <1>3. CASE CallSchedule \/ TickYield
    <2>1. k' = Schedule(k)
      BY <1>3 DEF CallSchedule, TickYield
    <2> QED  BY <2>1, AfterSchedule
  <1>4. CASE WaitFailed
    BY <1>4 DEF WaitFailed
  <1> QED  BY <1>1, <1>2, <1>3, <1>4 DEF IpcStep

DonePc == {"run", "pend", "blocked", "wait", "done"}

DoneTypes ==
    /\ pc \in [Thread -> DonePc]
    /\ call \in [Thread -> {NoCall} \cup {WaitCall(time) : time \in Wait}]
    /\ flag \in {"COMPLETED", "UNCOMPLETED"} /\ due \in BOOLEAN
    /\ answer \in [error : {"none", "EOK", "ETIMEOUT"}, due : BOOLEAN]
    /\ \A t \in Thread : k.err[t] \in {"EOK", "ETIMEOUT"}

\* Only the waiter waits, and it completes nothing.
OneWaits ==
    /\ \A t \in Thread : pc[t] \in {"blocked", "wait"} => t = Waiter
    /\ pc[Waiter] # "done"

\* Who was woken has a completion to take note of.
WokenIsDue == OnTheirWay("done") # {} => due

\* The inductive invariant.
DoneInv ==
    /\ IpcInv /\ DoneTypes /\ InCall /\ OneWaits /\ WokenIsDue
    /\ CpNoneStranded /\ CompletionTrue

LEMMA DoneFacts ==
    ASSUME CompletionAssumption
    PROVE  /\ Waiter \in App /\ Waiter \in Thread /\ "done" \in WaitList
           /\ \A time : WaitCall(time).op = "done" /\ WaitCall(time) # NoCall
  <1>1. Waiter \in App /\ Waiter \in Thread /\ "done" \in WaitList
    BY DEF CompletionAssumption, App
  <1>2. \A time : WaitCall(time).op = "done" /\ WaitCall(time) # NoCall
    <2>1. \A time : "time" \in DOMAIN WaitCall(time) /\ "time" \notin DOMAIN NoCall
      BY DEF WaitCall, NoCall
    <2>2. \A time : WaitCall(time).op = "done"
      BY DEF WaitCall
    <2> QED  BY <2>1, <2>2
  <1> QED  BY <1>1, <1>2

LEMMA DoneInvImplies ==
    ASSUME DoneInv, CompletionAssumption
    PROVE  CpConsistent
  <1>1. CpTypeOK
    BY IpcTypes
       DEF CpTypeOK, IpcTypeOK, DoneInv, DoneTypes, DonePc
  <1>2. KernelConsistent /\ PreemptionPending
    BY IpcTypes
       DEF KernelConsistent, PreemptionPending, DoneInv, IpcInv
  <1>3. WaitersParked
    BY DEF WaitersParked, DoneInv, IpcInv
  <1> QED  BY <1>1, <1>2, <1>3 DEF CpConsistent

LEMMA DoneInvInit ==
    ASSUME CpInit, CompletionAssumption
    PROVE  DoneInv
  <1> USE DoneFacts
  <1>1. IpcInit
    BY DEF CpInit, IpcInit, SectionsInit, Prio
  <1>2. flag = "UNCOMPLETED" /\ due = FALSE /\ answer = [error |-> "none", due |-> FALSE]
    BY DEF CpInit
  <1>3. /\ pc = [t \in Thread |-> "run"] /\ call = [t \in Thread |-> NoCall]
        /\ wl["done"] = << >> /\ k.err = [t \in Thread |-> "EOK"]
    BY <1>1 DEF IpcInit, SectionsInit
  <1>4. DoneTypes /\ InCall /\ OneWaits
    BY <1>2, <1>3, Zenon DEF DoneTypes, DonePc, InCall, OneWaits
  <1>5. WokenIsDue
    BY <1>3 DEF WokenIsDue, OnTheirWay, Woken
  <1>6. CpNoneStranded /\ CompletionTrue
    BY <1>2, <1>3 DEF CpNoneStranded, CompletionTrue
  <1> QED  BY <1>1, <1>4, <1>5, <1>6, IpcInvInit DEF DoneInv

-----------------------------------------------------------------------------
(* The steps of the completion *)

LEMMA DoneIpcStep ==
    ASSUME DoneInv, CompletionAssumption, IpcStep, UNCHANGED <<flag, due, answer>>
    PROVE  DoneInv'
  <1> USE DoneFacts
  <1> DEFINE C == {NoCall} \cup {WaitCall(time) : time \in Wait}
  <1>1. /\ {"run", "wait"} \subseteq DonePc /\ pc \in [Thread -> DonePc]
        /\ NoCall \in C /\ call \in [Thread -> C]
    BY DEF DoneInv, DoneTypes, DonePc
  <1> HIDE DEF C
  <1>2. /\ IpcInv' /\ pc' \in [Thread -> DonePc] /\ call' \in [Thread -> C]
        /\ \A o : OnTheirWay(o)' = OnTheirWay(o)
        /\ \A l \in WaitList : ToSet(wl'[l]) \subseteq ToSet(wl[l])
        /\ \A t \in Thread :
              \/ pc'[t] = pc[t] /\ call'[t] = call[t]
              \/ pc[t] = "pend" /\ pc'[t] = "run" /\ call'[t] = call[t]
              \/ pc[t] = "blocked" /\ pc'[t] = "wait" /\ call'[t] = call[t]
              \/ /\ pc[t] = "wait" /\ k.err[t] # "EOK"
                 /\ pc'[t] = "run" /\ call'[t] = NoCall
    BY <1>1, IpcStepSection DEF DoneInv
  <1>3. \A t \in Thread : k'.err[t] \in {k.err[t], "ETIMEOUT"}
    BY StepErrors DEF DoneInv
  <1>4. DoneTypes'
    BY <1>2, <1>3 DEF DoneInv, DoneTypes, C
  <1>5. InCall' /\ OneWaits'
    BY <1>2 DEF DoneInv, InCall, OneWaits
  <1>6. WokenIsDue' /\ CompletionTrue'
    BY <1>2 DEF DoneInv, WokenIsDue, CompletionTrue
  <1>7. wl'["done"] # << >> => wl["done"] # << >>
    <2>1. wl["done"] \in Seq(App) /\ wl'["done"] \in Seq(App)
      BY <1>2, IpcTypes DEF DoneInv, IpcInv
    <2> QED  BY <1>2, <2>1, EmptyList, Zenon
  <1>8. CpNoneStranded'
    BY <1>7 DEF DoneInv, CpNoneStranded
  <1> QED  BY <1>2, <1>4, <1>5, <1>6, <1>8 DEF DoneInv

LEMMA DoneWaitCompleted ==
    ASSUME DoneInv, CompletionAssumption, WaitCompleted
    PROVE  DoneInv'
  <1> USE DoneFacts
  <1>1. /\ pc[Waiter] = "run" /\ flag = "COMPLETED" /\ UNCHANGED <<k, wl, pc, call>>
        /\ flag' = "UNCOMPLETED" /\ due' = FALSE /\ answer' = [error |-> "EOK", due |-> due]
    BY DEF WaitCompleted, ipcVars, Answer, Calling, At
  <1>2. due = TRUE
    BY <1>1 DEF DoneInv, CompletionTrue, DoneTypes
  <1>3. IpcInv' /\ OnTheirWay("done")' = OnTheirWay("done")
    BY <1>1, SameIpc DEF DoneInv, ipcVars
  <1>4. DoneTypes' /\ InCall' /\ OneWaits'
    BY <1>1, Zenon DEF DoneInv, DoneTypes, InCall, OneWaits
  <1>5. OnTheirWay("done") = {}
    BY <1>1 DEF DoneInv, OneWaits, OnTheirWay, Woken
  <1>6. WokenIsDue' /\ CompletionTrue'
    BY <1>1, <1>2, <1>3, <1>5 DEF WokenIsDue, CompletionTrue
  <1>7. CpNoneStranded'
    BY <1>1 DEF CpNoneStranded
  <1> QED  BY <1>3, <1>4, <1>6, <1>7 DEF DoneInv

LEMMA DoneWaitBlock ==
    ASSUME DoneInv, CompletionAssumption, NEW time \in Wait, WaitBlock(time)
    PROVE  DoneInv'
  <1> USE DoneFacts
  <1> DEFINE c == WaitCall(time)
             q == Append(wl["done"], Me)
             C == {NoCall} \cup {WaitCall(w) : w \in Wait}
  <1>1. /\ pc[Me] = "run" /\ Me = Waiter /\ flag # "COMPLETED"
        /\ Block("done", q, c, time) /\ UNCHANGED <<flag, due, answer>>
    BY DEF WaitBlock, cpVars, Calling, At
  <1>2. c.op = "done" /\ c # NoCall /\ c \in C
    OBVIOUS
  <1>3. /\ pc \in [Thread -> DonePc] /\ call \in [Thread -> C]
    BY DEF DoneInv, DoneTypes
  <1> HIDE DEF c, C
  <1>4. wl["done"] \in Seq(App) /\ Distinct(wl["done"])
    BY IpcTypes DEF DoneInv
  <1>5. /\ q \in Seq(App) /\ ToSet(q) = ToSet(wl["done"]) \cup {Me}
        /\ Me \notin ToSet(wl["done"]) => Distinct(q)
    BY <1>1, <1>4, AppendList
  <1> HIDE DEF q
  <1>6. /\ IpcInv' /\ \A o : OnTheirWay(o)' = OnTheirWay(o) \ {Me}
    <2>1. /\ IpcInv /\ "done" \in WaitList /\ c.op = "done" /\ time \in Wait
          /\ (pc[Me] \notin {"blocked", "wait"} \/ Testing(c)) /\ Me \in App
          /\ call \in [Thread -> C] /\ pc \in [Thread -> DonePc] /\ q \in Seq(App)
          /\ ToSet(q) = ToSet(wl["done"]) \cup {Me}
          /\ (Me \notin ToSet(wl["done"]) => Distinct(q))
          /\ Block("done", q, c, time)
      BY <1>1, <1>2, <1>3, <1>5 DEF DoneInv
    <2> QED  BY ONLY <2>1, BlockOnSection, Zenon
  <1>7. /\ pc' = [pc EXCEPT ![Me] = "blocked"] /\ call' = [call EXCEPT ![Me] = c]
        /\ k' = SuspendOn(k, Me, time)
    BY <1>1 DEF Block, Goto
  <1>8. k'.err = [k.err EXCEPT ![Me] = "EOK"]
    <2>1. k.stat[Me] \in {"READY", "RUNNING"}
      BY <1>1 DEF DoneInv, IpcInv, Scheduled
    <2> DEFINE n == SuspendOn(k, Me, time)
    <2>2. n.err = [k.err EXCEPT ![Me] = "EOK"]
      BY <2>1, IpcTypes, SuspendOnError DEF DoneInv
    <2> HIDE DEF n
    <2> QED  BY <1>7, <2>2 DEF n
  <1>9. DoneTypes'
    <2>1. \A t \in Thread : k'.err[t] \in {"EOK", "ETIMEOUT"}
      BY <1>8, IpcTypes DEF DoneInv, DoneTypes
    <2> QED  BY <1>1, <1>2, <1>3, <1>7, <2>1 DEF DoneInv, DoneTypes, DonePc, C
  <1>10. InCall' /\ OneWaits'
    BY <1>1, <1>2, <1>3, <1>7 DEF DoneInv, InCall, OneWaits
  <1>11. due = FALSE
    BY <1>1 DEF DoneInv, CompletionTrue, DoneTypes
  <1>12. WokenIsDue' /\ CompletionTrue' /\ CpNoneStranded'
    BY <1>1, <1>6, <1>11
       DEF DoneInv, DoneTypes, WokenIsDue, CompletionTrue, CpNoneStranded
  <1> QED  BY <1>6, <1>9, <1>10, <1>12 DEF DoneInv

\* The waiter runs again: it was woken or its time was up.
LEMMA DoneWaitReturn ==
    ASSUME DoneInv, CompletionAssumption, WaitReturn
    PROVE  DoneInv'
  <1> USE DoneFacts
  <1>1. /\ pc[Me] = "wait" /\ UNCHANGED <<k, wl>>
        /\ flag' = "UNCOMPLETED" /\ due' = FALSE
        /\ answer' = [error |-> k.err[Me], due |-> due]
        /\ pc' = [pc EXCEPT ![Me] = "run"] /\ call' = [call EXCEPT ![Me] = NoCall]
    BY DEF WaitReturn, Answer, EndCall, Goto, At
  <1>2. Me \in Thread /\ Me = Waiter /\ k.stat[Me] = "RUNNING" /\ ~ Waiting(Me)
    BY <1>1, IpcTypes DEF DoneInv, OneWaits, IpcInv, Scheduled, WaitersParked
  <1>3. k.err[Me] \in Err /\ k' = [k EXCEPT !.err[Me] = k.err[Me]]
        /\ k.err[Me] \in {"EOK", "ETIMEOUT"}
    BY <1>1, <1>2, IpcTypes DEF DoneInv, KernelState, DoneTypes
  <1>4. k.err[Me] = "EOK" => due
    <2>1. call[Me].op = "done"
      BY <1>1, <1>2 DEF DoneInv, InCall, DoneTypes
    <2> QED  BY <1>1, <1>2, <2>1, WayMember DEF DoneInv, WokenIsDue
  <1>5. /\ pc' \in [Thread -> DonePc] /\ pc'[Me] = "run" /\ call'[Me] = NoCall
        /\ \A t \in Thread \ {Me} : pc'[t] = pc[t] /\ call'[t] = call[t]
    BY <1>1, <1>2 DEF DoneInv, DoneTypes, DonePc
  <1>6. IpcInv' /\ OnTheirWay("done")' = OnTheirWay("done") \ {Me}
    BY <1>1, <1>3, <1>5, QuietSection, Zenon DEF DoneInv
  <1>7. DoneTypes'
    BY <1>1, <1>3, <1>5, Zenon DEF DoneInv, DoneTypes
  <1>8. InCall' /\ OneWaits'
    BY <1>2, <1>5 DEF DoneInv, InCall, OneWaits
  <1>9. OnTheirWay("done") \subseteq {Me}
    BY <1>2 DEF DoneInv, OneWaits, OnTheirWay, Woken
  <1>10. WokenIsDue' /\ CompletionTrue' /\ CpNoneStranded'
    <2>1. WokenIsDue'
      BY <1>6, <1>9 DEF WokenIsDue
    <2>2. answer'.error = k.err[Me] /\ answer'.due = due
      BY <1>1
    <2>3. CompletionTrue'
      BY <1>1, <1>4, <2>2 DEF CompletionTrue
    <2>4. CpNoneStranded'
      BY <1>1 DEF CpNoneStranded
    <2> QED  BY <2>1, <2>3, <2>4
  <1> QED  BY <1>6, <1>7, <1>8, <1>10 DEF DoneInv

\* A rt_completion_done that finds the flag set.
LEMMA DoneAgain ==
    ASSUME DoneInv, flag = "COMPLETED", due' = TRUE, UNCHANGED <<k, wl, pc, call, flag, answer>>
    PROVE  DoneInv'
  <1>1. due = TRUE
    BY DEF DoneInv, CompletionTrue, DoneTypes
  <1>2. IpcInv' /\ OnTheirWay("done")' = OnTheirWay("done")
    BY SameIpc DEF DoneInv, ipcVars
  <1>3. DoneTypes' /\ InCall' /\ OneWaits'
    BY DEF DoneInv, DoneTypes, InCall, OneWaits
  <1>4. WokenIsDue' /\ CompletionTrue' /\ CpNoneStranded'
    BY <1>1, <1>2 DEF DoneInv, WokenIsDue, CompletionTrue, CpNoneStranded
  <1> QED  BY <1>2, <1>3, <1>4 DEF DoneInv

LEMMA DoneBegins ==
    ASSUME DoneInv, CompletionAssumption, DoneBegin
    PROVE  DoneInv'
  <1> USE DoneFacts
  <1>1. /\ pc[Me] = "run" /\ Me # Waiter /\ pc' = [pc EXCEPT ![Me] = "done"]
        /\ UNCHANGED <<k, wl, call, flag, due, answer>>
    BY DEF DoneBegin, cpVars, Calling, At, Goto
  <1>2. Me \in Thread /\ k.err[Me] \in Err /\ k' = [k EXCEPT !.err[Me] = k.err[Me]]
    BY <1>1, IpcTypes DEF DoneInv, KernelState
  <1>3. /\ pc' \in [Thread -> DonePc] /\ pc'[Me] = "done"
        /\ \A t \in Thread \ {Me} : pc'[t] = pc[t] /\ call'[t] = call[t]
    BY <1>1, <1>2 DEF DoneInv, DoneTypes, DonePc
  <1>4. IpcInv' /\ OnTheirWay("done")' = OnTheirWay("done") \ {Me}
    BY <1>1, <1>2, <1>3, QuietSection, Zenon DEF DoneInv
  <1>5. DoneTypes' /\ InCall' /\ OneWaits'
    BY <1>1, <1>2, <1>3 DEF DoneInv, DoneTypes, InCall, OneWaits
  <1>6. WokenIsDue' /\ CompletionTrue' /\ CpNoneStranded'
    BY <1>1, <1>4 DEF DoneInv, WokenIsDue, CompletionTrue, CpNoneStranded
  <1> QED  BY <1>4, <1>5, <1>6 DEF DoneInv

\* At most the waiter is on the list: waking it leaves nobody.
LEMMA OneLeaves ==
    ASSUME DoneInv, CompletionAssumption, wl["done"] # << >>
    PROVE  Popped("done")["done"] = << >> /\ k.err = ResumeFirst("done").err
  <1> USE DoneFacts
  <1> DEFINE h == Head(wl["done"])
  <1>1. ToSet(wl["done"]) \subseteq {Waiter}
    BY IpcTypes DEF DoneInv, IpcInv, ParkedInCall, OneWaits
  <1>2. /\ h \in ToSet(wl["done"]) /\ Popped("done") \in [WaitList -> Seq(App)]
        /\ ToSet(Popped("done")["done"]) = ToSet(wl["done"]) \ {h}
    BY FirstWaiter, ZenonT(40) DEF DoneInv
  <1> HIDE DEF h
  <1>3. ToSet(Popped("done")["done"]) = {} /\ Popped("done")["done"] \in Seq(App)
    BY <1>1, <1>2
  <1>4. Popped("done")["done"] = << >>
    BY <1>3, EmptyList
  <1>5. ResumeFirst("done").err = k.err
    BY ResumeKernel, Zenon DEF DoneInv
  <1> QED  BY <1>4, <1>5

\* The flag is set and the waiter, if any, woken.
LEMMA DoneSet ==
    ASSUME DoneInv, IpcInv', pc' \in [Thread -> DonePc],
           call' \in [Thread -> {NoCall} \cup {WaitCall(time) : time \in Wait}],
           InCall', OneWaits', k'.err = k.err, wl'["done"] = << >>,
           flag' = "COMPLETED", due' = TRUE, answer' = answer
    PROVE  DoneInv'
  <1>1. DoneTypes'
    BY DEF DoneInv, DoneTypes
  <1>2. WokenIsDue' /\ CompletionTrue' /\ CpNoneStranded'
    BY DEF DoneInv, WokenIsDue, CompletionTrue, CpNoneStranded
  <1> QED  BY <1>1, <1>2 DEF DoneInv

LEMMA DoneDone ==
    ASSUME DoneInv, CompletionAssumption, Done
    PROVE  DoneInv'
  <1> USE DoneFacts
  <1>1. /\ pc[Me] = "done" /\ ThreadWakes("done")
        /\ flag' = "COMPLETED" /\ due' = TRUE /\ answer' = answer
    BY DEF Done, SetFlag, At
  <1>2. /\ k' = ResumeFirst("done") /\ wl' = Popped("done")
        /\ pc' = [pc EXCEPT ![Me] = IF wl["done"] = << >> THEN "run" ELSE "pend"]
        /\ call' = [call EXCEPT ![Me] = NoCall]
    BY <1>1 DEF ThreadWakes, EndCall, Goto
  <1>3. Me \in Thread /\ Me # Waiter
    BY <1>1, IpcTypes DEF DoneInv, OneWaits
  <1>4. /\ pc' \in [Thread -> DonePc]
        /\ call' \in [Thread -> {NoCall} \cup {WaitCall(time) : time \in Wait}]
        /\ pc'[Me] \in {"run", "pend"} /\ call'[Me] = NoCall
        /\ \A t \in Thread \ {Me} : pc'[t] = pc[t] /\ call'[t] = call[t]
    BY <1>2, <1>3 DEF DoneInv, DoneTypes, DonePc
  <1>5. InCall' /\ OneWaits'
    BY <1>3, <1>4 DEF DoneInv, InCall, OneWaits
  <1>6. IpcInv'
    <2>1. /\ Me \in DOMAIN pc /\ pc[Me] \notin {"pend", "blocked", "reset"}
          /\ IpcInv /\ "done" \in WaitList
      BY <1>1, <1>3 DEF DoneInv, DoneTypes
    <2> QED  BY <1>1, <1>4, <2>1, ThreadWakesSection
  <1>7. wl'["done"] = << >> /\ k'.err = k.err
    <2>1. CASE wl["done"] = << >>
      BY <1>2, <2>1 DEF ResumeFirst, Popped
    <2>2. CASE wl["done"] # << >>
      BY <1>2, <2>2, OneLeaves
    <2> QED  BY <2>1, <2>2
  <1> QED  BY <1>1, <1>4, <1>5, <1>6, <1>7, DoneSet

LEMMA DoneIsr ==
    ASSUME DoneInv, CompletionAssumption, IsrDone
    PROVE  DoneInv'
  <1> USE DoneFacts
  <1>1. CASE flag = "COMPLETED"
    <2>1. due' = TRUE /\ UNCHANGED <<k, wl, pc, call, flag, answer>>
      BY <1>1 DEF IsrDone, ipcVars
    <2> QED  BY <1>1, <2>1, DoneAgain
  <1>2. CASE flag # "COMPLETED"
    <2>1. /\ IsrWakes("done") /\ flag' = "COMPLETED" /\ due' = TRUE /\ answer' = answer
      BY <1>2 DEF IsrDone, SetFlag
    <2>2. /\ k' = IF wl["done"] = << >> THEN k ELSE Schedule(ResumeFirst("done"))
          /\ wl' = Popped("done") /\ UNCHANGED <<pc, call>>
      BY <2>1 DEF IsrWakes
    <2>3. IpcInv'
      BY <2>1, IsrWakesSection DEF DoneInv
    <2>4. InCall' /\ OneWaits' /\ pc' \in [Thread -> DonePc]
          /\ call' \in [Thread -> {NoCall} \cup {WaitCall(time) : time \in Wait}]
      BY <2>2 DEF DoneInv, InCall, OneWaits, DoneTypes
    <2>5. wl'["done"] = << >> /\ k'.err = k.err
      <3>1. CASE wl["done"] = << >>
        BY <2>2, <3>1 DEF Popped
      <3>2. CASE wl["done"] # << >>
        <4> DEFINE m == ResumeFirst("done")
        <4>1. /\ m \in KernelState /\ KernelOK(m) /\ m.lock = 0
              /\ m.stat[Idle] \in {"READY", "RUNNING"}
          BY <3>2, ResumeKernel, Zenon DEF DoneInv
        <4>2. wl'["done"] = << >> /\ m.err = k.err
          BY <2>2, <3>2, OneLeaves
        <4> HIDE DEF m
        <4>3. k' = Schedule(m)
          BY <2>2, <3>2 DEF m
        <4>4. k'.err = m.err
          BY <4>1, <4>3, AfterSchedule
        <4> QED  BY <4>2, <4>4
      <3> QED  BY <3>1, <3>2
    <2> QED  BY <2>1, <2>3, <2>4, <2>5, DoneSet
  <1> QED  BY <1>1, <1>2

\* A step of a thread, of an interrupt handler or of the tick.
LEMMA DoneKeeps ==
    ASSUME DoneInv, CompletionAssumption, [CpNext]_cpSpecVars
    PROVE  DoneInv'
  <1>1. CASE ((\E t \in Thread : Startup(t) \/ TickTimeout(t)) \/ CallSchedule
                  \/ TickYield) /\ UNCHANGED cpVars
    <2>1. IpcStep /\ UNCHANGED <<flag, due, answer>>
      BY <1>1 DEF IpcStep, cpVars
    <2> QED  BY <2>1, DoneIpcStep
  <1>2. ASSUME NEW time \in Wait, WaitBlock(time) PROVE DoneInv'
    BY <1>2, DoneWaitBlock
  <1>3. CASE WaitCompleted \/ WaitReturn \/ DoneBegin \/ Done \/ IsrDone
    BY <1>3, DoneWaitCompleted, DoneWaitReturn, DoneBegins, DoneDone, DoneIsr
  <1>4. CASE DoneTwice
    BY <1>4, DoneAgain DEF DoneTwice, ipcVars
  <1>5. CASE UNCHANGED cpSpecVars
    <2>1. UNCHANGED <<k, wl, pc, call, flag, due, answer>>
      BY <1>5 DEF cpSpecVars, ipcVars, cpVars
    <2>2. IpcInv' /\ OnTheirWay("done")' = OnTheirWay("done")
      BY <2>1, SameIpc DEF DoneInv, ipcVars
    <2> QED  BY <2>1, <2>2 DEF DoneInv, DoneTypes, InCall, OneWaits, WokenIsDue,
                               CompletionTrue, CpNoneStranded
  <1> QED  BY <1>1, <1>2, <1>3, <1>4, <1>5 DEF CpNext

-----------------------------------------------------------------------------
(* The data queue, for any number of threads and items, as long as its free- *)
(* running indices do not wrap                                               *)

NoWrap == MaxPut < IndexMod

DataPc == IpcPc \ {"reset"}

DataTypes ==
    /\ pc \in [Thread -> DataPc]
    /\ call \in [Thread -> Calls]
    /\ item \in [0 .. Size - 1 -> Message \cup {Nothing}]
    /\ popped \in Message \cup {Nothing}

\* The put index counts the pushes, and no more items are in the ring than it has
\* slots.
DataIndices ==
    /\ pushes \in 0 .. MaxPut /\ put_index = pushes
    /\ get_index \in 0 .. put_index
    /\ put_index - get_index <= Size

\* No item waits beside a popper unless a popper is on its way to it; below the
\* low-water mark a pusher is on its way for every slot, or none waits.
DataStrands ==
    /\ wl["pop"] # << >> => put_index - get_index <= Cardinality(OnTheirWay("pop"))
    /\ wl["push"] # << >> =>
          Lwm + 1 - (put_index - get_index) <= Cardinality(OnTheirWay("push"))

\* The inductive invariant.
DataInv == IpcInv /\ DataTypes /\ InCall /\ DataIndices /\ DataStrands

LEMMA DataFacts ==
    ASSUME DataQueueAssumption
    PROVE  /\ "push" \in WaitList /\ "pop" \in WaitList /\ "push" # "pop"
           /\ Size \in Nat \ {0} /\ Lwm \in Nat /\ Lwm + 1 <= Size
           /\ IndexMod \in Int /\ MaxPut \in Nat
           /\ \A v, time : /\ PushCall(v, time).op = "push"
                           /\ PushCall(v, time).time = time
                           /\ PushCall(v, time).val = v
                           /\ PushCall(v, time) # NoCall
           /\ \A time : /\ PopCall(time).op = "pop" /\ PopCall(time).time = time
                        /\ PopCall(time) # NoCall
           /\ NoCall \in Calls
           /\ \A v \in Message, time \in Wait : PushCall(v, time) \in Calls
           /\ \A time \in Wait : PopCall(time) \in Calls
  <1>1. /\ "push" \in WaitList /\ "pop" \in WaitList /\ "push" # "pop"
        /\ Size \in Nat \ {0} /\ Lwm \in Nat /\ Lwm + 1 <= Size
        /\ MaxPut \in Nat /\ IndexMod \in Int
    BY DEF DataQueueAssumption
  <1>2. \A v, time : /\ PushCall(v, time).op = "push"
                     /\ PushCall(v, time).time = time
                     /\ PushCall(v, time).val = v
    BY DEF PushCall
  <1>3. \A time : PopCall(time).op = "pop" /\ PopCall(time).time = time
    BY DEF PopCall
  <1>4. \A v, time : PushCall(v, time) # NoCall /\ PopCall(time) # NoCall
    <2>1. \A v, time : /\ "time" \in DOMAIN PushCall(v, time)
                       /\ "time" \in DOMAIN PopCall(time) /\ "time" \notin DOMAIN NoCall
      BY DEF PushCall, PopCall, NoCall
    <2> QED  BY <2>1
  <1>5. /\ NoCall \in Calls
        /\ \A v \in Message, time \in Wait : PushCall(v, time) \in Calls
        /\ \A time \in Wait : PopCall(time) \in Calls
    BY DEF Calls
  <1> QED  BY <1>1, <1>2, <1>3, <1>4, <1>5

LEMMA SmallRemainder ==
    ASSUME NEW a \in Nat, NEW n \in Nat, a < n
    PROVE  a % n = a
  OBVIOUS

\* Everybody who was woken is on his way to try one operation again.
LEMMA DataWoken ==
    ASSUME DataTypes, InCall, DataQueueAssumption
    PROVE  \A o : WokenFor(o) = Cardinality(OnTheirWay(o))
  <1>1. Woken = Woken
    OBVIOUS
  <1>2. \A o : WokenFor(o) = Cardinality(OnTheirWay(o))
    BY <1>1 DEF WokenFor, OnTheirWay
  <1> QED  BY <1>2

LEMMA DataInvImplies ==
    ASSUME DataInv, DataQueueAssumption, NoWrap
    PROVE  DqConsistent /\ DqNoneStranded
  <1> USE DataFacts
  <1>1. put_index \in 0 .. IndexMod - 1 /\ get_index \in 0 .. IndexMod - 1
    BY DEF DataInv, DataIndices, NoWrap
  <1>2. DqTypeOK
    <2>1. IpcTypeOK
      BY IpcTypes DEF IpcTypeOK, DataInv
    <2>2. pc \in [Thread -> IpcPc \ {"reset"}]
      BY DEF DataInv, DataTypes, DataPc, IpcPc
    <2>3. {put_index, get_index} \subseteq 0 .. IndexMod - 1 /\ pushes \in 0 .. MaxPut
      BY <1>1 DEF DataInv, DataIndices
    <2> QED  BY <2>1, <2>2, <2>3 DEF DqTypeOK, DataInv, DataTypes
  <1>3. KernelConsistent /\ PreemptionPending
    BY IpcTypes
       DEF KernelConsistent, PreemptionPending, DataInv, IpcInv
  <1>4. WaitersParked
    BY DEF WaitersParked, DataInv, IpcInv
  <1>5. DqNoneStranded
    BY DataWoken DEF DqNoneStranded, Count, DataInv, DataStrands
  <1> QED  BY <1>2, <1>3, <1>4, <1>5 DEF DqConsistent

LEMMA DataInvInit ==
    ASSUME DqInit, DataQueueAssumption
    PROVE  DataInv
  <1> USE DataFacts
  <1>1. IpcInit
    BY DEF DqInit, IpcInit, SectionsInit, Prio
  <1>2. /\ item = [i \in 0 .. Size - 1 |-> Nothing] /\ popped = Nothing
        /\ put_index = 0 /\ get_index = 0 /\ pushes = 0
    BY DEF DqInit
  <1>3. /\ pc = [t \in Thread |-> "run"] /\ call = [t \in Thread |-> NoCall]
        /\ wl["push"] = << >> /\ wl["pop"] = << >>
    BY <1>1 DEF IpcInit, SectionsInit
  <1>4. DataTypes /\ InCall
    BY <1>2, <1>3 DEF DataTypes, DataPc, IpcPc, InCall
  <1>5. DataIndices /\ DataStrands
    BY <1>2, <1>3 DEF DataIndices, DataStrands
  <1> QED  BY <1>1, <1>4, <1>5, IpcInvInit DEF DataInv

-----------------------------------------------------------------------------
(* The steps of the data queue *)

LEMMA DataStores ==
    ASSUME DataQueueAssumption, NoWrap, DataTypes, DataIndices, NEW v \in Message, Store(v)
    PROVE  /\ item' \in [0 .. Size - 1 -> Message \cup {Nothing}]
           /\ popped' = popped /\ DataIndices'
           /\ put_index - get_index \in Nat
           /\ put_index' - get_index' = put_index - get_index + 1
  <1> USE DataFacts
  <1>1. /\ put_index - get_index # Size /\ pushes < MaxPut /\ pushes' = pushes + 1
        /\ item' = [item EXCEPT ![put_index % Size] = v]
        /\ put_index' = (put_index + 1) % IndexMod
        /\ get_index' = get_index /\ popped' = popped
    BY DEF Store, Full
  <1>2. put_index = pushes /\ pushes \in Nat /\ pushes + 1 <= MaxPut
        /\ get_index \in 0 .. put_index /\ put_index - get_index <= Size
    BY <1>1 DEF DataIndices
  <1>3. put_index + 1 \in Nat /\ put_index + 1 < IndexMod /\ IndexMod \in Nat
    BY <1>2 DEF NoWrap
  <1>4. put_index' = put_index + 1
    BY <1>1, <1>3, SmallRemainder
  <1>5. item' \in [0 .. Size - 1 -> Message \cup {Nothing}]
    BY <1>1, Zenon DEF DataTypes
  <1>6. DataIndices'
    BY <1>1, <1>2, <1>4 DEF DataIndices
  <1>7. put_index - get_index \in Nat /\ put_index' - get_index' = put_index - get_index + 1
    BY <1>1, <1>2, <1>4
  <1> QED  BY <1>1, <1>5, <1>6, <1>7

LEMMA DataFetches ==
    ASSUME DataQueueAssumption, NoWrap, DataTypes, DataIndices, Fetch
    PROVE  /\ popped' \in Message \cup {Nothing}
           /\ item' = item /\ DataIndices' /\ put_index' = put_index
           /\ put_index - get_index \in Nat
           /\ put_index - get_index' = put_index - get_index - 1
           /\ put_index' - get_index' = put_index - get_index - 1
  <1> USE DataFacts
  <1>1. /\ get_index # put_index /\ popped' = item[get_index % Size]
        /\ get_index' = (get_index + 1) % IndexMod
        /\ UNCHANGED <<item, put_index, pushes>>
    BY DEF Fetch, Empty
  <1>2. put_index = pushes /\ pushes \in 0 .. MaxPut
        /\ get_index \in 0 .. put_index /\ put_index - get_index <= Size
    BY <1>1 DEF DataIndices
  <1>3. get_index + 1 \in Nat /\ get_index + 1 < IndexMod /\ IndexMod \in Nat
    BY <1>1, <1>2 DEF NoWrap
  <1>4. get_index' = get_index + 1
    BY <1>1, <1>3, SmallRemainder
  <1>5. popped' \in Message \cup {Nothing}
    <2>1. get_index \in Nat
      BY <1>2
    <2>2. get_index % Size \in 0 .. Size - 1
      BY <2>1
    <2> QED  BY <1>1, <2>2 DEF DataTypes
  <1>6. DataIndices'
    BY <1>1, <1>2, <1>4 DEF DataIndices
  <1>7. /\ put_index - get_index \in Nat
        /\ put_index - get_index' = put_index - get_index - 1
        /\ put_index' - get_index' = put_index - get_index - 1
    BY <1>1, <1>2, <1>4
  <1> QED  BY <1>1, <1>5, <1>6, <1>7

\* How many are on their way after a step that takes the current thread from one
\* operation and brings a waiter to another.
LEMMA WayAfter ==
    ASSUME NEW o
    PROVE  /\ Cardinality(OnTheirWay(o)) \in Nat
           /\ \A h : OnTheirWay(o)' = OnTheirWay(o) \ {h} =>
                 /\ Cardinality(OnTheirWay(o)') \in Nat
                 /\ Cardinality(OnTheirWay(o)') >= Cardinality(OnTheirWay(o)) - 1
           /\ \A h : OnTheirWay(o)' = OnTheirWay(o) \cup {h} /\ h \notin OnTheirWay(o) =>
                 Cardinality(OnTheirWay(o)') = Cardinality(OnTheirWay(o)) + 1
           /\ Cardinality(OnTheirWay(o))' = Cardinality(OnTheirWay(o)')
  <1>1. Cardinality(OnTheirWay(o)) \in Nat
    BY WayCount, Zenon
  <1>2. ASSUME NEW h, OnTheirWay(o)' = OnTheirWay(o) \ {h}
        PROVE  /\ Cardinality(OnTheirWay(o)') \in Nat
               /\ Cardinality(OnTheirWay(o)') >= Cardinality(OnTheirWay(o)) - 1
    BY <1>2, WayCount, Zenon
  <1>3. ASSUME NEW h, OnTheirWay(o)' = OnTheirWay(o) \cup {h}, h \notin OnTheirWay(o)
        PROVE  Cardinality(OnTheirWay(o)') = Cardinality(OnTheirWay(o)) + 1
    BY <1>3, WayCount, Zenon
  <1>4. Cardinality(OnTheirWay(o))' = Cardinality(OnTheirWay(o)')
    OBVIOUS
  <1> QED  BY <1>1, <1>2, <1>3, <1>4, Zenon

LEMMA DataIpcStep ==
    ASSUME DataInv, DataQueueAssumption, IpcStep, UNCHANGED dqVars
    PROVE  DataInv'
  <1> USE DataFacts
  <1>1. UNCHANGED <<item, put_index, get_index, pushes, popped>>
    BY DEF dqVars
  <1>2. IpcStep
    BY DEF IpcStep
  <1> DEFINE C == Calls
  <1>3. /\ {"run", "wait"} \subseteq DataPc /\ pc \in [Thread -> DataPc]
        /\ NoCall \in C /\ call \in [Thread -> C]
    BY DEF DataInv, DataTypes, DataPc, IpcPc
  <1> HIDE DEF C
  <1>4. /\ IpcInv' /\ pc' \in [Thread -> DataPc] /\ call' \in [Thread -> C]
        /\ \A o : OnTheirWay(o)' = OnTheirWay(o)
        /\ \A l \in WaitList : ToSet(wl'[l]) \subseteq ToSet(wl[l])
        /\ \A t \in Thread :
              \/ pc'[t] = pc[t] /\ call'[t] = call[t]
              \/ pc[t] = "pend" /\ pc'[t] = "run" /\ call'[t] = call[t]
              \/ pc[t] = "blocked" /\ pc'[t] = "wait" /\ call'[t] = call[t]
              \/ /\ pc[t] = "wait" /\ k.err[t] # "EOK"
                 /\ pc'[t] = "run" /\ call'[t] = NoCall
    BY <1>2, <1>3, IpcStepSection DEF DataInv
  <1>5. DataTypes'
    BY <1>1, <1>4 DEF DataInv, DataTypes, C
  <1>6. InCall'
    BY <1>4 DEF DataInv, InCall
  <1>7. DataIndices'
    BY <1>1 DEF DataInv, DataIndices
  <1>8. \A l \in {"push", "pop"} : wl'[l] # << >> => wl[l] # << >>
    <2>1. wl["pop"] \in Seq(App) /\ wl'["pop"] \in Seq(App) /\ ToSet(wl'["pop"]) \subseteq ToSet(wl["pop"])
      BY <1>4, IpcTypes DEF DataInv, IpcInv
    <2>2. wl'["pop"] # << >> => wl["pop"] # << >>
      <3>1. wl["pop"] = << >> <=> ToSet(wl["pop"]) = {}
        BY ONLY <2>1, EmptyList
      <3>2. wl'["pop"] = << >> <=> ToSet(wl'["pop"]) = {}
        BY ONLY <2>1, EmptyList
      <3> QED  BY ONLY <2>1, <3>1, <3>2
    <2>3. wl["push"] \in Seq(App) /\ wl'["push"] \in Seq(App) /\ ToSet(wl'["push"]) \subseteq ToSet(wl["push"])
      BY <1>4, IpcTypes DEF DataInv, IpcInv
    <2>4. wl'["push"] # << >> => wl["push"] # << >>
      <3>1. wl["push"] = << >> <=> ToSet(wl["push"]) = {}
        BY ONLY <2>3, EmptyList
      <3>2. wl'["push"] = << >> <=> ToSet(wl'["push"]) = {}
        BY ONLY <2>3, EmptyList
      <3> QED  BY ONLY <2>3, <3>1, <3>2
    <2> QED  BY <2>2, <2>4
  <1>9. DataStrands'
    <2>1. /\ Cardinality(OnTheirWay("pop"))' = Cardinality(OnTheirWay("pop"))
          /\ Cardinality(OnTheirWay("push"))' = Cardinality(OnTheirWay("push"))
      BY <1>4
    <2> QED  BY <1>1, <1>8, <2>1 DEF DataInv, DataStrands
  <1> QED  BY <1>4, <1>5, <1>6, <1>7, <1>9 DEF DataInv

\* What a call of the current thread that ends does to it and to the others.
LEMMA DataEnds ==
    ASSUME DataInv, DataQueueAssumption, Me \in Thread,
           pc' = [pc EXCEPT ![Me] = "run"] \/ pc' = [pc EXCEPT ![Me] = "pend"],
           call' = [call EXCEPT ![Me] = NoCall]
    PROVE  /\ pc' \in [Thread -> DataPc] /\ call' \in [Thread -> Calls] /\ InCall'
           /\ pc'[Me] \in {"run", "pend"}
           /\ \A t \in Thread \ {Me} : pc'[t] = pc[t] /\ call'[t] = call[t]
  BY DataFacts DEF DataInv, DataTypes, InCall, DataPc, IpcPc

LEMMA DataPush ==
    ASSUME DataInv, DataQueueAssumption, NoWrap, NEW v \in Message, NEW time \in Wait,
           Push(PushCall(v, time))
    PROVE  DataInv'
  <1> USE DataFacts
  <1> DEFINE c == PushCall(v, time)
  <1>1. Testing(c) /\ Store(v) /\ ThreadWakes("pop") /\ c.op = "push"
    BY DEF Push
  <1> HIDE DEF c
  <1>2. /\ item' \in [0 .. Size - 1 -> Message \cup {Nothing}]
        /\ popped' = popped /\ DataIndices'
        /\ put_index - get_index \in Nat
        /\ put_index' - get_index' = put_index - get_index + 1
    BY <1>1, DataStores DEF DataInv
  <1>3. /\ pc' = [pc EXCEPT ![Me] = IF wl["pop"] = << >> THEN "run" ELSE "pend"]
        /\ call' = [call EXCEPT ![Me] = NoCall]
    BY <1>1 DEF ThreadWakes, EndCall, Goto
  <1>4. Me \in Thread /\ pc[Me] \notin {"pend", "blocked", "reset"} /\ Me \in DOMAIN pc
    BY <1>1, TesterAwake, IpcTypes DEF DataInv, DataTypes
  <1>5. /\ pc' \in [Thread -> DataPc] /\ call' \in [Thread -> Calls] /\ InCall'
        /\ \A t \in Thread \ {Me} : pc'[t] = pc[t] /\ call'[t] = call[t]
    BY <1>3, <1>4, DataEnds, Zenon
  <1> DEFINE h == Head(wl["pop"])
  <1>6. /\ IpcInv'
        /\ wl'["push"] = wl["push"]
        /\ OnTheirWay("push")' = OnTheirWay("push") \ {Me}
        /\ wl["pop"] = << >> => wl'["pop"] = << >>
        /\ wl["pop"] # << >> => /\ h \notin OnTheirWay("pop")
                                /\ OnTheirWay("pop")' = (OnTheirWay("pop") \ {Me}) \cup {h}
    BY <1>1, <1>4, <1>5, ThreadWakesSection DEF DataInv
  <1> HIDE DEF h
  <1>7. OnTheirWay("pop") \ {Me} = OnTheirWay("pop")
    BY <1>1, TesterElsewhere
  <1>8. wl'["pop"] # << >> =>
            put_index' - get_index' <= Cardinality(OnTheirWay("pop")')
    <2>1. wl["pop"] # << >> => /\ Cardinality(OnTheirWay("pop")) \in Nat
                               /\ Cardinality(OnTheirWay("pop")') = Cardinality(OnTheirWay("pop")) + 1
      BY <1>6, <1>7, WayAfter
    <2> QED  BY <1>2, <1>6, <2>1 DEF DataInv, DataStrands
  <1>9. wl'["push"] # << >> =>
            Lwm + 1 - (put_index' - get_index') <= Cardinality(OnTheirWay("push")')
    <2>1. /\ Cardinality(OnTheirWay("push")) \in Nat /\ Cardinality(OnTheirWay("push")') \in Nat
          /\ Cardinality(OnTheirWay("push")') >= Cardinality(OnTheirWay("push")) - 1
      BY <1>6, WayAfter, Zenon
    <2> QED  BY <1>2, <1>6, <2>1 DEF DataInv, DataStrands
  <1>10. DataStrands'
    BY <1>8, <1>9, WayAfter DEF DataStrands
  <1>11. DataTypes'
    BY <1>2, <1>5 DEF DataInv, DataTypes
  <1> QED  BY <1>2, <1>5, <1>6, <1>10, <1>11 DEF DataInv

\* A thread waits in operation l of the data queue.
LEMMA DataBlocks ==
    ASSUME DataInv, DataQueueAssumption, NEW l \in {"push", "pop"}, NEW time \in Wait,
           NEW c, c \in Calls, c.op = l, c # NoCall, Testing(c),
           Block(l, Append(wl[l], Me), c, time),
           UNCHANGED <<item, put_index, get_index, pushes, popped>>,
           l = "pop" => put_index = get_index,
           l = "push" => put_index - get_index = Size
    PROVE  DataInv'
  <1> USE DataFacts
  <1> DEFINE q == Append(wl[l], Me)
             C == Calls
  <1>1. /\ pc \in [Thread -> DataPc] /\ call \in [Thread -> C] /\ c \in C
        /\ l \in WaitList /\ Block(l, q, c, time)
    BY DEF DataInv, DataTypes
  <1> HIDE DEF C
  <1>2. Me \in App /\ Me \in Thread /\ Me \notin ToSet(wl[l]) /\ wl[l] \in Seq(App)
        /\ Distinct(wl[l])
    BY <1>1, TesterAwake, IpcTypes DEF DataInv
  <1>3. q \in Seq(App) /\ ToSet(q) = ToSet(wl[l]) \cup {Me} /\ Distinct(q)
    BY <1>2, AppendList
  <1> HIDE DEF q
  <1>4. /\ IpcInv' /\ \A o : OnTheirWay(o)' = OnTheirWay(o) \ {Me}
        /\ \A j \in WaitList \ {l} : wl'[j] = wl[j]
    <2>1. /\ IpcInv /\ l \in WaitList /\ c.op = l /\ time \in Wait
          /\ (pc[Me] \notin {"blocked", "wait"} \/ Testing(c)) /\ Me \in App
          /\ call \in [Thread -> C] /\ pc \in [Thread -> DataPc] /\ q \in Seq(App)
          /\ ToSet(q) = ToSet(wl[l]) \cup {Me}
          /\ (Me \notin ToSet(wl[l]) => Distinct(q))
          /\ Block(l, q, c, time)
      BY <1>1, <1>2, <1>3 DEF DataInv
    <2> QED  BY ONLY <2>1, BlockOnSection, Zenon
  <1>5. /\ pc' = [pc EXCEPT ![Me] = "blocked"] /\ call' = [call EXCEPT ![Me] = c]
    BY <1>1 DEF Block, Goto
  <1>6. DataTypes'
    BY <1>1, <1>2, <1>5 DEF DataInv, DataTypes, DataPc, IpcPc, C
  <1>7. InCall'
    BY <1>1, <1>2, <1>5 DEF DataInv, DataTypes, InCall
  <1>8. DataIndices'
    BY DEF DataInv, DataIndices
  <1>9. \A o : o # l => OnTheirWay(o)' = OnTheirWay(o)
    <2> SUFFICES ASSUME NEW o, o # l PROVE OnTheirWay(o)' = OnTheirWay(o)
      OBVIOUS
    <2>1. OnTheirWay(o) \ {Me} = OnTheirWay(o)
      <3>1. Testing(c) /\ o # c.op
        OBVIOUS
      <3> QED  BY ONLY <3>1, TesterElsewhere
    <2>2. OnTheirWay(o)' = OnTheirWay(o) \ {Me}
      BY ONLY <1>4
    <2> QED  BY <2>1, <2>2
  <1>10. /\ Cardinality(OnTheirWay("pop")') \in Nat /\ Cardinality(OnTheirWay("push")') \in Nat
    <2>1. OnTheirWay("pop")' = OnTheirWay("pop") \ {Me}
          /\ OnTheirWay("push")' = OnTheirWay("push") \ {Me}
      BY <1>4
    <2> QED  BY <2>1, WayAfter
  <1>11. DataStrands'
    <2>1. CASE l = "pop"
      <3>1. put_index' - get_index' = 0
        BY <2>1 DEF DataInv, DataIndices
      <3>2. wl'["push"] = wl["push"] /\ OnTheirWay("push")' = OnTheirWay("push")
        BY <1>4, <1>9, <2>1
      <3>3. wl'["pop"] # << >> => put_index' - get_index' <= Cardinality(OnTheirWay("pop")')
        BY <1>10, <3>1
      <3>4. wl'["push"] # << >> =>
               Lwm + 1 - (put_index' - get_index') <= Cardinality(OnTheirWay("push")')
        BY <3>2 DEF DataInv, DataStrands
      <3> QED  BY <3>3, <3>4, WayAfter DEF DataStrands
    <2>2. CASE l = "push"
      <3>1. put_index' - get_index' = Size /\ Lwm + 1 - Size <= 0 /\ Lwm + 1 - Size \in Int
        BY <2>2
      <3>2. wl'["pop"] = wl["pop"] /\ OnTheirWay("pop")' = OnTheirWay("pop")
        BY <1>4, <1>9, <2>2
      <3>3. wl'["pop"] # << >> => put_index' - get_index' <= Cardinality(OnTheirWay("pop")')
        BY <3>2 DEF DataInv, DataStrands
      <3>4. Lwm + 1 - (put_index' - get_index') <= Cardinality(OnTheirWay("push")')
        BY <1>10, <3>1
      <3> QED  BY <3>3, <3>4, WayAfter DEF DataStrands
    <2> QED  BY <2>1, <2>2
  <1> QED  BY <1>4, <1>6, <1>7, <1>8, <1>11 DEF DataInv

LEMMA DataPushBlock ==
    ASSUME DataInv, DataQueueAssumption, NEW v \in Message, NEW time \in Wait,
           PushBlock(PushCall(v, time))
    PROVE  DataInv'
  <1> USE DataFacts
  <1> DEFINE c == PushCall(v, time)
  <1>1. /\ Testing(c) /\ put_index - get_index = Size
        /\ Block("push", Append(wl["push"], Me), c, time)
        /\ UNCHANGED <<item, put_index, get_index, pushes, popped>>
    BY DEF PushBlock, Full, dqVars
  <1>2. c \in Calls /\ c.op = "push" /\ c # NoCall
    OBVIOUS
  <1> HIDE DEF c
  <1> QED  BY <1>1, <1>2, DataBlocks

LEMMA DataPopBlock ==
    ASSUME DataInv, DataQueueAssumption, NEW time \in Wait,
           PopBlock(PopCall(time))
    PROVE  DataInv'
  <1> USE DataFacts
  <1> DEFINE c == PopCall(time)
  <1>1. /\ Testing(c) /\ put_index = get_index
        /\ Block("pop", Append(wl["pop"], Me), c, time)
        /\ UNCHANGED <<item, put_index, get_index, pushes, popped>>
    BY DEF PopBlock, Empty, dqVars
  <1>2. c \in Calls /\ c.op = "pop" /\ c # NoCall
    OBVIOUS
  <1> HIDE DEF c
  <1> QED  BY <1>1, <1>2, DataBlocks

LEMMA DataPop ==
    ASSUME DataInv, DataQueueAssumption, NoWrap, NEW time \in Wait,
           Pop(PopCall(time))
    PROVE  DataInv'
  <1> USE DataFacts
  <1> DEFINE c == PopCall(time)
  <1>1. /\ Testing(c) /\ Fetch /\ c.op = "pop"
        /\ IF put_index - get_index' <= Lwm
           THEN ThreadWakes("push")
           ELSE EndCall("run") /\ UNCHANGED <<k, wl>>
    BY DEF Pop
  <1> HIDE DEF c
  <1>2. /\ popped' \in Message \cup {Nothing}
        /\ item' = item /\ DataIndices' /\ put_index' = put_index
        /\ put_index - get_index \in Nat
        /\ put_index - get_index' = put_index - get_index - 1
        /\ put_index' - get_index' = put_index - get_index - 1
    BY <1>1, DataFetches DEF DataInv
  <1>3. /\ pc' = [pc EXCEPT ![Me] = "run"] \/ pc' = [pc EXCEPT ![Me] = "pend"]
        /\ call' = [call EXCEPT ![Me] = NoCall]
    BY <1>1 DEF ThreadWakes, EndCall, Goto
  <1>4. Me \in Thread /\ pc[Me] \notin {"pend", "blocked", "reset"} /\ Me \in DOMAIN pc
    BY <1>1, TesterAwake, IpcTypes DEF DataInv, DataTypes
  <1>5. /\ pc' \in [Thread -> DataPc] /\ call' \in [Thread -> Calls] /\ InCall'
        /\ pc'[Me] \in {"run", "pend"}
        /\ \A t \in Thread \ {Me} : pc'[t] = pc[t] /\ call'[t] = call[t]
    BY <1>3, <1>4, DataEnds
  <1>6. OnTheirWay("push") \ {Me} = OnTheirWay("push")
    BY <1>1, TesterElsewhere
  <1>7. /\ IpcInv' /\ wl'["pop"] = wl["pop"]
        /\ OnTheirWay("pop")' = OnTheirWay("pop") \ {Me}
        /\ wl'["push"] # << >> =>
               Lwm + 1 - (put_index' - get_index') <= Cardinality(OnTheirWay("push")')
    <2>1. CASE put_index - get_index' <= Lwm
      <3> DEFINE h == Head(wl["push"])
      <3>1. ThreadWakes("push")
        BY <1>1, <2>1
      <3>2. /\ IpcInv' /\ wl'["pop"] = wl["pop"]
            /\ OnTheirWay("pop")' = OnTheirWay("pop") \ {Me}
            /\ wl["push"] = << >> => wl'["push"] = << >>
            /\ wl["push"] # << >> => /\ h \notin OnTheirWay("push")
                                     /\ OnTheirWay("push")' = (OnTheirWay("push") \ {Me}) \cup {h}
        BY <1>4, <1>5, <3>1, ThreadWakesSection DEF DataInv
      <3> HIDE DEF h
      <3>3. wl["push"] # << >> =>
               /\ Cardinality(OnTheirWay("push")) \in Nat
               /\ Cardinality(OnTheirWay("push")') = Cardinality(OnTheirWay("push")) + 1
        BY <1>6, <3>2, WayAfter
      <3> QED  BY <1>2, <3>2, <3>3 DEF DataInv, DataStrands
    <2>2. CASE ~ put_index - get_index' <= Lwm
      <3>1. EndCall("run") /\ UNCHANGED <<k, wl>>
        BY <1>1, <2>2
      <3>2. k' = [k EXCEPT !.err[Me] = k.err[Me]] /\ k.err[Me] \in Err /\ pc'[Me] = "run"
        BY <1>4, <3>1, IpcTypes DEF DataInv, KernelState, EndCall, Goto
      <3>3. IpcInv' /\ \A o : OnTheirWay(o)' = OnTheirWay(o) \ {Me}
        BY <1>4, <1>5, <3>1, <3>2, QuietSection, Zenon DEF DataInv
      <3>4. Cardinality(OnTheirWay("push")') \in Nat
        BY <3>3, WayAfter
      <3>5. Lwm + 1 - (put_index' - get_index') <= 0 /\ put_index' - get_index' \in Int
        BY <1>2, <2>2
      <3> QED  BY <3>1, <3>3, <3>4, <3>5
    <2> QED  BY <2>1, <2>2
  <1>8. wl'["pop"] # << >> =>
            put_index' - get_index' <= Cardinality(OnTheirWay("pop")')
    <2>1. /\ Cardinality(OnTheirWay("pop")) \in Nat /\ Cardinality(OnTheirWay("pop")') \in Nat
          /\ Cardinality(OnTheirWay("pop")') >= Cardinality(OnTheirWay("pop")) - 1
      BY <1>7, WayAfter, Zenon
    <2> QED  BY <1>2, <1>7, <2>1 DEF DataInv, DataStrands
  <1>9. DataStrands'
    BY <1>7, <1>8, WayAfter DEF DataStrands
  <1>10. DataTypes'
    BY <1>2, <1>5 DEF DataInv, DataTypes
  <1> QED  BY <1>2, <1>5, <1>7, <1>9, <1>10 DEF DataInv

LEMMA DataIsrPush ==
    ASSUME DataInv, DataQueueAssumption, NoWrap, NEW v \in Message, IsrPush(v)
    PROVE  DataInv'
  <1> USE DataFacts
  <1>1. Store(v) /\ IsrWakes("pop")
    BY DEF IsrPush
  <1>2. /\ item' \in [0 .. Size - 1 -> Message \cup {Nothing}]
        /\ popped' = popped /\ DataIndices'
        /\ put_index - get_index \in Nat
        /\ put_index' - get_index' = put_index - get_index + 1
    BY <1>1, DataStores DEF DataInv
  <1>3. UNCHANGED <<pc, call>>
    BY <1>1 DEF IsrWakes
  <1> DEFINE h == Head(wl["pop"])
  <1>4. /\ IpcInv'
        /\ wl'["push"] = wl["push"]
        /\ OnTheirWay("push")' = OnTheirWay("push")
        /\ wl["pop"] = << >> => wl'["pop"] = << >>
        /\ wl["pop"] # << >> => /\ h \notin OnTheirWay("pop")
                                /\ OnTheirWay("pop")' = OnTheirWay("pop") \cup {h}
    BY <1>1, IsrWakesSection DEF DataInv
  <1> HIDE DEF h
  <1>5. wl'["pop"] # << >> =>
            put_index' - get_index' <= Cardinality(OnTheirWay("pop")')
    <2>1. wl["pop"] # << >> => /\ Cardinality(OnTheirWay("pop")) \in Nat
                               /\ Cardinality(OnTheirWay("pop")') = Cardinality(OnTheirWay("pop")) + 1
      BY <1>4, WayAfter
    <2> QED  BY <1>2, <1>4, <2>1 DEF DataInv, DataStrands
  <1>6. wl'["push"] # << >> =>
            Lwm + 1 - (put_index' - get_index') <= Cardinality(OnTheirWay("push")')
    <2>1. Cardinality(OnTheirWay("push")) \in Nat
      BY WayAfter
    <2> QED  BY <1>2, <1>4, <2>1 DEF DataInv, DataStrands
  <1>7. DataStrands'
    BY <1>5, <1>6, WayAfter DEF DataStrands
  <1>8. DataTypes' /\ InCall'
    BY <1>2, <1>3 DEF DataInv, DataTypes, InCall
  <1> QED  BY <1>2, <1>4, <1>7, <1>8 DEF DataInv

LEMMA DataIsrPop ==
    ASSUME DataInv, DataQueueAssumption, NoWrap, IsrPop
    PROVE  DataInv'
  <1> USE DataFacts
  <1>1. /\ Fetch
        /\ IF put_index - get_index' <= Lwm THEN IsrWakes("push") ELSE UNCHANGED <<k, wl, pc, call>>
    BY DEF IsrPop, ipcVars
  <1>2. /\ popped' \in Message \cup {Nothing}
        /\ item' = item /\ DataIndices' /\ put_index' = put_index
        /\ put_index - get_index \in Nat
        /\ put_index - get_index' = put_index - get_index - 1
        /\ put_index' - get_index' = put_index - get_index - 1
    BY <1>1, DataFetches DEF DataInv
  <1>3. UNCHANGED <<pc, call>>
    BY <1>1 DEF IsrWakes
  <1>4. /\ IpcInv' /\ wl'["pop"] = wl["pop"]
        /\ OnTheirWay("pop")' = OnTheirWay("pop")
        /\ wl'["push"] # << >> =>
               Lwm + 1 - (put_index' - get_index') <= Cardinality(OnTheirWay("push")')
    <2>1. CASE put_index - get_index' <= Lwm
      <3> DEFINE h == Head(wl["push"])
      <3>1. IsrWakes("push")
        BY <1>1, <2>1
      <3>2. /\ IpcInv' /\ wl'["pop"] = wl["pop"]
            /\ OnTheirWay("pop")' = OnTheirWay("pop")
            /\ wl["push"] = << >> => wl'["push"] = << >>
            /\ wl["push"] # << >> => /\ h \notin OnTheirWay("push")
                                     /\ OnTheirWay("push")' = OnTheirWay("push") \cup {h}
        BY <3>1, IsrWakesSection DEF DataInv
      <3> HIDE DEF h
      <3>3. wl["push"] # << >> =>
               /\ Cardinality(OnTheirWay("push")) \in Nat
               /\ Cardinality(OnTheirWay("push")') = Cardinality(OnTheirWay("push")) + 1
        BY <3>2, WayAfter
      <3> QED  BY <1>2, <3>2, <3>3 DEF DataInv, DataStrands
    <2>2. CASE ~ put_index - get_index' <= Lwm
      <3>1. UNCHANGED <<k, wl, pc, call>>
        BY <1>1, <2>2
      <3>2. IpcInv' /\ \A o : OnTheirWay(o)' = OnTheirWay(o)
        BY <3>1, SameIpc DEF DataInv, ipcVars
      <3>3. Cardinality(OnTheirWay("push")') \in Nat
        <4>1. Cardinality(OnTheirWay("push")) \in Nat
          BY WayAfter
        <4> QED  BY <3>2, <4>1
      <3>4. Lwm + 1 - (put_index' - get_index') <= 0 /\ put_index' - get_index' \in Int
        BY <1>2, <2>2
      <3> QED  BY <3>1, <3>2, <3>3, <3>4
    <2> QED  BY <2>1, <2>2
  <1>5. wl'["pop"] # << >> =>
            put_index' - get_index' <= Cardinality(OnTheirWay("pop")')
    <2>1. Cardinality(OnTheirWay("pop")) \in Nat
      BY WayAfter
    <2> QED  BY <1>2, <1>4, <2>1 DEF DataInv, DataStrands
  <1>6. DataStrands'
    BY <1>4, <1>5, WayAfter DEF DataStrands
  <1>7. DataTypes' /\ InCall'
    BY <1>2, <1>3 DEF DataInv, DataTypes, InCall
  <1> QED  BY <1>2, <1>4, <1>6, <1>7 DEF DataInv

\* A step of a thread, of an interrupt handler or of the tick.
LEMMA DataKeeps ==
    ASSUME DataInv, DataQueueAssumption, NoWrap, [DqNext]_dqSpecVars
    PROVE  DataInv'
  <1>1. CASE IpcStep /\ UNCHANGED dqVars
    BY <1>1, DataIpcStep
  <1>2. ASSUME NEW v \in Message, NEW time \in Wait,
               Push(PushCall(v, time)) \/ PushBlock(PushCall(v, time))
        PROVE  DataInv'
    BY <1>2, DataPush, DataPushBlock
  <1>3. ASSUME NEW time \in Wait,
               Pop(PopCall(time)) \/ PopBlock(PopCall(time))
        PROVE  DataInv'
    BY <1>3, DataPop, DataPopBlock
  <1>4. ASSUME NEW v \in Message, IsrPush(v) PROVE DataInv'
    BY <1>4, DataIsrPush
  <1>5. CASE IsrPop
    BY <1>5, DataIsrPop
  <1>6. CASE UNCHANGED dqSpecVars
    <2>1. UNCHANGED <<k, wl, pc, call, item, put_index, get_index, pushes, popped>>
      BY <1>6 DEF dqSpecVars, ipcVars, dqVars
    <2>2. IpcInv' /\ \A o : OnTheirWay(o)' = OnTheirWay(o)
      BY <2>1, SameIpc DEF DataInv, ipcVars
    <2>3. DataStrands'
      BY <2>1, <2>2 DEF DataInv, DataStrands
    <2> QED  BY <2>1, <2>2, <2>3 DEF DataInv, DataTypes, InCall, DataIndices
  <1> QED  BY <1>1, <1>2, <1>3, <1>4, <1>5, <1>6 DEF DqNext

-----------------------------------------------------------------------------
(* The console line, for any number of threads and any size of the ring *)

LinePc == {"run", "pend", "blocked", "wait", "locked", "unlock"}

LineCalls == {NoCall, ReadCall, WriteCall, RxCall}

LineTypes ==
    /\ pc \in [Thread -> LinePc] /\ call \in [Thread -> LineCalls]
    /\ data_ptr \in [0 .. RxSize - 1 -> Byte \cup {NoByte}]
    /\ save_index \in 0 .. RxSize - 1 /\ read_index \in 0 .. RxSize - 1
    /\ lock \in {0, 1} /\ rx_sem \in 0 .. MaxRx
    /\ missed \in BOOLEAN /\ heard \in Byte \cup {NoByte}

\* A thread is between the start and the end of a read, of a write or of the
\* wait for a byte, or in none of them; only the shell reads and waits for one.
LinePlaces ==
    \A t \in Thread :
        /\ pc[t] \in {"locked", "unlock"} => call[t].op = "lock"
        /\ pc[t] \in {"blocked", "wait"} => call[t].op \in {"lock", "rx"}
        /\ call[t].op = "rx" => t = Shell

\* The threads that the device belongs to.
Owners == {t \in Thread : pc[t] \in {"locked", "unlock"} \/ t \in OnTheirWay("lock")}

\* The device is free or belongs to one thread.
LineOwner ==
    \/ lock = 1 /\ Owners = {}
    \/ lock = 0 /\ \E t \in Thread : Owners = {t}

\* A byte that the shell has not found is announced to it.
ByteAnnounced ==
    missed /\ read_index # save_index => rx_sem > 0 \/ OnTheirWay("rx") # {}

\* The inductive invariant.
LineInv ==
    /\ IpcInv /\ LineTypes /\ LinePlaces /\ LineOwner /\ ByteAnnounced
    /\ LeNoneStranded

LEMMA LineFacts ==
    ASSUME LeuartAssumption
    PROVE  /\ Shell \in App /\ Shell \in Thread /\ "lock" \in WaitList /\ "rx" \in WaitList
           /\ RxSize \in Nat \ {0, 1} /\ MaxRx \in Nat
           /\ ReadCall.op = "lock" /\ WriteCall.op = "lock" /\ RxCall.op = "rx"
           /\ NoCall.op = "none"
           /\ ReadCall # RxCall /\ WriteCall # RxCall
           /\ NoCall # ReadCall /\ NoCall # WriteCall
  BY DEF LeuartAssumption, App, ReadCall, WriteCall, RxCall, NoCall

LEMMA LineInvImplies ==
    ASSUME LineInv, LeuartAssumption
    PROVE  LeConsistent
  <1> USE LineFacts
  <1>1. LeTypeOK
    BY IpcTypes
       DEF LeTypeOK, IpcTypeOK, LineInv, LineTypes, LinePc, LineCalls
  <1>2. KernelConsistent /\ PreemptionPending
    BY IpcTypes
       DEF KernelConsistent, PreemptionPending, LineInv, IpcInv
  <1>3. WaitersParked
    BY DEF WaitersParked, LineInv, IpcInv
  <1>4. {t \in Thread : Owns(t)} = Owners
    <2> SUFFICES ASSUME NEW t \in Thread
                 PROVE  Owns(t) <=> pc[t] \in {"locked", "unlock"} \/ t \in OnTheirWay("lock")
      BY DEF Owners
    <2>1. call[t] \in {ReadCall, WriteCall} <=> call[t].op = "lock"
      BY DEF LineInv, LineTypes, LineCalls
    <2> QED  BY <2>1 DEF Owns, OnTheirWay
  <1>5. lock + Cardinality({t \in Thread : Owns(t)}) = 1
    <2>1. lock + Cardinality(Owners) = 1
      <3>1. CASE lock = 1 /\ Owners = {}
        BY <3>1, FS_EmptySet
      <3>2. CASE lock = 0 /\ \E t \in Thread : Owners = {t}
        <4>1. PICK t \in Thread : Owners = {t}
          BY <3>2
        <4>2. Cardinality({t}) = 1
          BY ONLY FS_Singleton
        <4>3. Cardinality(Owners) = 1
          BY ONLY <4>1, <4>2
        <4> QED  BY ONLY <3>2, <4>3
      <3> QED  BY <3>1, <3>2 DEF LineInv, LineOwner
    <2> QED  BY <1>4, <2>1, Zenon
  <1> QED  BY <1>1, <1>2, <1>3, <1>5 DEF LeConsistent

LEMMA LineInvInit ==
    ASSUME LeInit, LeuartAssumption
    PROVE  LineInv
  <1> USE LineFacts
  <1>1. IpcInit
    BY DEF LeInit, IpcInit, SectionsInit, Prio
  <1>2. /\ data_ptr = [i \in 0 .. RxSize - 1 |-> NoByte]
        /\ save_index = 0 /\ read_index = 0 /\ lock = 1 /\ rx_sem = 0
        /\ missed = FALSE /\ heard = NoByte
    BY DEF LeInit
  <1>3. /\ pc = [t \in Thread |-> "run"] /\ call = [t \in Thread |-> NoCall]
        /\ wl["rx"] = << >> /\ wl["lock"] = << >>
    BY <1>1 DEF IpcInit, SectionsInit
  <1>4. LineTypes
    <2>1. pc \in [Thread -> LinePc] /\ call \in [Thread -> LineCalls]
      BY <1>3 DEF LinePc, LineCalls
    <2>2. data_ptr \in [0 .. RxSize - 1 -> Byte \cup {NoByte}]
      BY <1>2
    <2>3. 0 \in 0 .. RxSize - 1 /\ 0 \in 0 .. MaxRx
      OBVIOUS
    <2> QED  BY <1>2, <2>1, <2>2, <2>3, Zenon DEF LineTypes
  <1>5. LinePlaces /\ OnTheirWay("lock") = {}
    BY <1>3 DEF LinePlaces, OnTheirWay, Woken
  <1>6. LineOwner
    BY <1>2, <1>3, <1>5 DEF LineOwner, Owners
  <1>7. ByteAnnounced /\ LeNoneStranded
    BY <1>2, <1>3 DEF ByteAnnounced, LeNoneStranded
  <1> QED  BY <1>1, <1>4, <1>5, <1>6, <1>7, IpcInvInit DEF LineInv

-----------------------------------------------------------------------------
(* The steps of the console line *)

LEMMA LineIpcStep ==
    ASSUME LineInv, LeuartAssumption, IpcStep,
           UNCHANGED <<data_ptr, save_index, read_index, lock, rx_sem, missed, heard>>
    PROVE  LineInv'
  <1> USE LineFacts
  <1>1. /\ {"run", "wait"} \subseteq LinePc /\ pc \in [Thread -> LinePc]
        /\ NoCall \in LineCalls /\ call \in [Thread -> LineCalls]
    BY DEF LineInv, LineTypes, LinePc, LineCalls
  <1>2. /\ IpcInv' /\ pc' \in [Thread -> LinePc] /\ call' \in [Thread -> LineCalls]
        /\ \A o : OnTheirWay(o)' = OnTheirWay(o)
        /\ \A l \in WaitList : ToSet(wl'[l]) \subseteq ToSet(wl[l])
        /\ \A t \in Thread :
              \/ pc'[t] = pc[t] /\ call'[t] = call[t]
              \/ pc[t] = "pend" /\ pc'[t] = "run" /\ call'[t] = call[t]
              \/ pc[t] = "blocked" /\ pc'[t] = "wait" /\ call'[t] = call[t]
              \/ /\ pc[t] = "wait" /\ k.err[t] # "EOK"
                 /\ pc'[t] = "run" /\ call'[t] = NoCall
    BY <1>1, IpcStepSection DEF LineInv
  <1>3. LineTypes'
    BY <1>2 DEF LineInv, LineTypes
  <1>4. LinePlaces'
    BY <1>2 DEF LineInv, LinePlaces
  <1>5. Owners' = Owners
    <2>1. \A t \in Thread : pc'[t] \in {"locked", "unlock"} <=> pc[t] \in {"locked", "unlock"}
      BY <1>2
    <2> QED  BY <1>2, <2>1 DEF Owners
  <1>6. LineOwner' /\ ByteAnnounced'
    BY <1>2, <1>5 DEF LineInv, LineOwner, ByteAnnounced
  <1>7. LeNoneStranded'
    <2>1. wl'["rx"] # << >> => wl["rx"] # << >>
      <3>1. wl["rx"] \in Seq(App) /\ wl'["rx"] \in Seq(App)
        BY <1>2, IpcTypes DEF LineInv, IpcInv
      <3> QED  BY <1>2, <3>1, EmptyList, Zenon
    <2>2. wl'["lock"] # << >> => wl["lock"] # << >>
      <3>1. wl["lock"] \in Seq(App) /\ wl'["lock"] \in Seq(App)
        BY <1>2, IpcTypes DEF LineInv, IpcInv
      <3> QED  BY <1>2, <3>1, EmptyList, Zenon
    <2> QED  BY <2>1, <2>2 DEF LineInv, LeNoneStranded
  <1> QED  BY <1>2, <1>3, <1>4, <1>6, <1>7 DEF LineInv

\* A section of the current thread, which had the device or runs on: it wakes
\* nobody and does not wait.
LEMMA LineGoesOn ==
    ASSUME LineInv, LeuartAssumption, Me \in Thread,
           pc[Me] \notin {"pend", "blocked"}, UNCHANGED wl,
           NEW e \in Err, k' = [k EXCEPT !.err[Me] = e],
           NEW p \in {"run", "locked", "unlock"}, pc' = [pc EXCEPT ![Me] = p],
           NEW c \in LineCalls, call' = [call EXCEPT ![Me] = c],
           p \in {"locked", "unlock"} => c.op = "lock",
           c.op = "rx" => Me = Shell
    PROVE  /\ IpcInv' /\ pc' \in [Thread -> LinePc] /\ call' \in [Thread -> LineCalls]
           /\ LinePlaces' /\ \A o : OnTheirWay(o)' = OnTheirWay(o) \ {Me}
           /\ Owners' = IF p \in {"locked", "unlock"} THEN Owners \cup {Me} ELSE Owners \ {Me}
  <1>1. /\ pc'[Me] = p /\ call'[Me] = c /\ pc[Me] # "reset"
        /\ \A t \in Thread \ {Me} : pc'[t] = pc[t] /\ call'[t] = call[t]
    BY DEF LineInv, LineTypes, LinePc
  <1>2. IpcInv' /\ \A o : OnTheirWay(o)' = OnTheirWay(o) \ {Me}
    BY <1>1, QuietSection DEF LineInv
  <1>3. pc' \in [Thread -> LinePc] /\ call' \in [Thread -> LineCalls]
    BY DEF LineInv, LineTypes, LinePc
  <1>4. LinePlaces'
    BY <1>1 DEF LineInv, LinePlaces
  <1>5. Owners' = IF p \in {"locked", "unlock"} THEN Owners \cup {Me} ELSE Owners \ {Me}
    BY <1>1, <1>2 DEF Owners
  <1> QED  BY <1>2, <1>3, <1>4, <1>5

\* A thread that runs and does not have the device.
LEMMA LineOutside ==
    ASSUME LineInv, Calling
    PROVE  /\ Me \in App /\ Me \in Thread /\ pc[Me] = "run"
           /\ Me \notin Owners /\ \A o : Me \notin OnTheirWay(o)
  BY DEF Calling, At, App, Owners, OnTheirWay, Woken

LEMMA LineBlocks ==
    ASSUME LineInv, LeuartAssumption, Calling, NEW l \in {"lock", "rx"},
           NEW c \in LineCalls, c.op = l, l = "rx" => Me = Shell,
           Block(l, Append(wl[l], Me), c, "forever")
    PROVE  /\ IpcInv' /\ pc' \in [Thread -> LinePc] /\ call' \in [Thread -> LineCalls]
           /\ LinePlaces' /\ \A o : OnTheirWay(o)' = OnTheirWay(o)
           /\ Owners' = Owners /\ \A j \in {"lock", "rx"} \ {l} : wl'[j] = wl[j]
  <1> USE LineFacts
  <1> DEFINE q == Append(wl[l], Me)
  <1>1. Me \in App /\ Me \in Thread /\ pc[Me] = "run" /\ \A o : Me \notin OnTheirWay(o)
    BY LineOutside
  <1>2. wl[l] \in Seq(App) /\ Distinct(wl[l]) /\ l \in WaitList
    BY IpcTypes DEF LineInv
  <1>3. /\ q \in Seq(App) /\ ToSet(q) = ToSet(wl[l]) \cup {Me}
        /\ Me \notin ToSet(wl[l]) => Distinct(q)
    BY <1>1, <1>2, AppendList
  <1> HIDE DEF q
  <1>4. /\ IpcInv' /\ \A o : OnTheirWay(o)' = OnTheirWay(o) \ {Me}
        /\ \A j \in WaitList \ {l} : wl'[j] = wl[j]
    <2>1. /\ IpcInv /\ l \in WaitList /\ c.op = l /\ "forever" \in Wait
          /\ (pc[Me] \notin {"blocked", "wait"} \/ Testing(c)) /\ Me \in App
          /\ call \in [Thread -> LineCalls] /\ pc \in [Thread -> LinePc] /\ q \in Seq(App)
          /\ ToSet(q) = ToSet(wl[l]) \cup {Me}
          /\ (Me \notin ToSet(wl[l]) => Distinct(q))
          /\ Block(l, q, c, "forever")
      BY <1>1, <1>2, <1>3 DEF LineInv, LineTypes, q, Wait
    <2> QED  BY ONLY <2>1, BlockOnSection, Zenon
  <1>5. /\ pc' = [pc EXCEPT ![Me] = "blocked"] /\ call' = [call EXCEPT ![Me] = c]
    BY DEF Block, Goto
  <1>6. pc' \in [Thread -> LinePc] /\ call' \in [Thread -> LineCalls]
    BY <1>5, Zenon DEF LineInv, LineTypes, LinePc
  <1>7. LinePlaces'
    BY <1>1, <1>5 DEF LineInv, LineTypes, LinePlaces
  <1>8. \A o : OnTheirWay(o)' = OnTheirWay(o)
    BY <1>1, <1>4
  <1>9. Owners' = Owners
    BY <1>1, <1>5, <1>8 DEF LineInv, LineTypes, Owners
  <1> QED  BY <1>4, <1>6, <1>7, <1>8, <1>9

LEMMA LineTakeLock ==
    ASSUME LineInv, LeuartAssumption, NEW c \in {ReadCall, WriteCall},
           TakeLock(c)
    PROVE  LineInv'
  <1> USE LineFacts
  <1>1. /\ Calling /\ c \in LineCalls /\ c.op = "lock"
        /\ UNCHANGED <<data_ptr, save_index, read_index, rx_sem, missed, heard>>
    BY DEF TakeLock, LineCalls
  <1>2. Me \in Thread /\ pc[Me] = "run" /\ Me \notin Owners /\ \A o : Me \notin OnTheirWay(o)
    BY <1>1, LineOutside
  <1>3. CASE lock > 0
    <2>1. /\ lock' = lock - 1 /\ k' = [k EXCEPT !.err[Me] = "EOK"] /\ "EOK" \in Err
          /\ call' = [call EXCEPT ![Me] = c] /\ pc' = [pc EXCEPT ![Me] = "locked"] /\ wl' = wl
      BY <1>3 DEF TakeLock, Goto, Err
    <2>2. /\ IpcInv' /\ pc' \in [Thread -> LinePc] /\ call' \in [Thread -> LineCalls]
          /\ LinePlaces' /\ \A o : OnTheirWay(o)' = OnTheirWay(o) \ {Me}
          /\ Owners' = Owners \cup {Me}
      BY <1>1, <1>2, <2>1, LineGoesOn, Zenon
    <2>3. lock = 1 /\ Owners = {} /\ lock' = 0
      BY <1>3, <2>1 DEF LineInv, LineOwner, LineTypes
    <2>4. LineTypes'
      BY <1>1, <2>2, <2>3 DEF LineInv, LineTypes
    <2>5. LineOwner'
      BY <1>2, <2>2, <2>3 DEF LineOwner
    <2>6. OnTheirWay("rx")' = OnTheirWay("rx")
      BY <1>2, <2>2
    <2>7. ByteAnnounced' /\ LeNoneStranded'
      BY <1>1, <2>1, <2>3, <2>6 DEF LineInv, ByteAnnounced, LeNoneStranded
    <2> QED  BY <2>2, <2>4, <2>5, <2>7 DEF LineInv
  <1>4. CASE ~ lock > 0
    <2>1. lock' = lock /\ Block("lock", Append(wl["lock"], Me), c, "forever")
      BY <1>4 DEF TakeLock
    <2>2. /\ IpcInv' /\ pc' \in [Thread -> LinePc] /\ call' \in [Thread -> LineCalls]
          /\ LinePlaces' /\ \A o : OnTheirWay(o)' = OnTheirWay(o)
          /\ Owners' = Owners /\ wl'["rx"] = wl["rx"]
      BY <1>1, <2>1, LineBlocks
    <2>3. LineTypes' /\ lock = 0
      BY <1>1, <1>4, <2>1, <2>2 DEF LineInv, LineTypes
    <2>4. LineOwner' /\ ByteAnnounced' /\ LeNoneStranded'
      BY <1>1, <2>1, <2>2, <2>3
         DEF LineInv, LineOwner, ByteAnnounced, LeNoneStranded
    <2> QED  BY <2>2, <2>3, <2>4 DEF LineInv
  <1> QED  BY <1>3, <1>4

LEMMA LineGotLock ==
    ASSUME LineInv, LeuartAssumption, GotLock
    PROVE  LineInv'
  <1> USE LineFacts
  <1>1. /\ pc[Me] = "wait" /\ k.err[Me] = "EOK" /\ call[Me].op = "lock"
        /\ pc' = [pc EXCEPT ![Me] = "locked"]
        /\ UNCHANGED <<k, wl, call, data_ptr, save_index, read_index, lock, rx_sem, missed, heard>>
    BY DEF GotLock, Retrying, At, Goto, lineVars
  <1>2. /\ Me \in Thread /\ k.stat[Me] = "RUNNING" /\ ~ Waiting(Me)
    BY <1>1, IpcTypes DEF LineInv, IpcInv, Scheduled, WaitersParked
  <1>3. k' = [k EXCEPT !.err[Me] = "EOK"] /\ "EOK" \in Err
    BY <1>1, IpcTypes DEF LineInv, KernelState, Err
  <1>4. call[Me] \in LineCalls /\ call' = [call EXCEPT ![Me] = call[Me]]
    BY <1>1, <1>2 DEF LineInv, LineTypes
  <1>5. /\ IpcInv' /\ pc' \in [Thread -> LinePc] /\ call' \in [Thread -> LineCalls]
        /\ LinePlaces' /\ \A o : OnTheirWay(o)' = OnTheirWay(o) \ {Me}
        /\ Owners' = Owners \cup {Me}
    <2> DEFINE c == call[Me]
    <2>1. /\ pc[Me] \notin {"pend", "blocked"} /\ UNCHANGED wl
          /\ c.op = "lock" /\ c \in LineCalls /\ c.op # "rx"
          /\ call' = [call EXCEPT ![Me] = c]
      BY <1>1, <1>4, Zenon
    <2> HIDE DEF c
    <2> QED  BY <1>1, <1>2, <1>3, <2>1, LineGoesOn, Zenon
  <1>6. Me \in OnTheirWay("lock") /\ Me \notin OnTheirWay("rx")
    BY <1>1, <1>2 DEF OnTheirWay, Woken
  <1>7. Owners' = Owners /\ OnTheirWay("rx")' = OnTheirWay("rx")
    BY <1>2, <1>5, <1>6, Zenon DEF Owners
  <1>8. LineTypes'
    BY <1>1, <1>5 DEF LineInv, LineTypes
  <1>9. LineOwner' /\ ByteAnnounced' /\ LeNoneStranded'
    BY <1>1, <1>7 DEF LineInv, LineOwner, ByteAnnounced, LeNoneStranded
  <1> QED  BY <1>5, <1>8, <1>9 DEF LineInv

\* The thread that has the device reads or writes.
LEMMA LineUses ==
    ASSUME LineInv, LeuartAssumption, pc[Me] = "locked",
           pc' = [pc EXCEPT ![Me] = "unlock"],
           UNCHANGED <<k, wl, call, data_ptr, save_index, lock, rx_sem>>
    PROVE  /\ IpcInv' /\ pc' \in [Thread -> LinePc] /\ call' \in [Thread -> LineCalls]
           /\ LinePlaces' /\ LineOwner' /\ \A o : OnTheirWay(o)' = OnTheirWay(o)
           /\ Me \in Thread
  <1> USE LineFacts
  <1>1. Me \in Thread /\ call[Me].op = "lock"
    BY IpcTypes DEF LineInv, LinePlaces
  <1>2. k' = [k EXCEPT !.err[Me] = k.err[Me]] /\ k.err[Me] \in Err
    BY <1>1, IpcTypes DEF LineInv, KernelState
  <1>3. call[Me] \in LineCalls /\ call' = [call EXCEPT ![Me] = call[Me]]
    BY <1>1 DEF LineInv, LineTypes
  <1>4. /\ IpcInv' /\ pc' \in [Thread -> LinePc] /\ call' \in [Thread -> LineCalls]
        /\ LinePlaces' /\ \A o : OnTheirWay(o)' = OnTheirWay(o) \ {Me}
        /\ Owners' = Owners \cup {Me}
    <2> DEFINE c == call[Me]
               e == k.err[Me]
    <2>1. /\ pc[Me] \notin {"pend", "blocked"} /\ UNCHANGED wl
          /\ c.op = "lock" /\ c \in LineCalls /\ c.op # "rx" /\ e \in Err
          /\ call' = [call EXCEPT ![Me] = c] /\ k' = [k EXCEPT !.err[Me] = e]
      BY <1>1, <1>2, <1>3, Zenon
    <2> HIDE DEF c, e
    <2> QED  BY <1>1, <2>1, LineGoesOn, Zenon
  <1>5. Me \in Owners /\ \A o : Me \notin OnTheirWay(o)
    BY <1>1 DEF Owners, OnTheirWay, Woken
  <1>6. Owners' = Owners /\ \A o : OnTheirWay(o)' = OnTheirWay(o)
    BY <1>4, <1>5
  <1>7. LineOwner'
    BY <1>6 DEF LineInv, LineOwner
  <1> QED  BY <1>1, <1>4, <1>6, <1>7

LEMMA LineRead ==
    ASSUME LineInv, LeuartAssumption, Read
    PROVE  LineInv'
  <1> USE LineFacts
  <1>1. /\ pc[Me] = "locked" /\ call[Me] = ReadCall /\ pc' = [pc EXCEPT ![Me] = "unlock"]
        /\ UNCHANGED <<k, wl, call, data_ptr, save_index, lock, rx_sem>>
    BY DEF Read, At, Goto
  <1>2. /\ IpcInv' /\ pc' \in [Thread -> LinePc] /\ call' \in [Thread -> LineCalls]
        /\ LinePlaces' /\ LineOwner' /\ \A o : OnTheirWay(o)' = OnTheirWay(o)
        /\ Me \in Thread
    BY <1>1, LineUses
  <1>3. CASE read_index # save_index
    <2>1. /\ heard' = data_ptr[read_index] /\ read_index' = After(read_index)
          /\ missed' = FALSE
      BY <1>3 DEF Read
    <2>2. read_index' \in 0 .. RxSize - 1 /\ heard' \in Byte \cup {NoByte}
      BY <2>1 DEF LineInv, LineTypes, After
    <2>3. LineTypes'
      BY <1>1, <1>2, <2>1, <2>2, Zenon DEF LineInv, LineTypes
    <2>4. ByteAnnounced'
      BY <2>1 DEF ByteAnnounced
    <2>5. wl["rx"] = << >>
      BY <1>3 DEF LineInv, LeNoneStranded
    <2>6. LeNoneStranded'
      BY <1>1, <2>5 DEF LineInv, LeNoneStranded
    <2> QED  BY <1>2, <2>3, <2>4, <2>6 DEF LineInv
  <1>4. CASE read_index = save_index
    <2>1. missed' = TRUE /\ UNCHANGED <<heard, read_index>>
      BY <1>4 DEF Read
    <2>2. LineTypes'
      BY <1>1, <1>2, <2>1 DEF LineInv, LineTypes
    <2>3. ByteAnnounced' /\ LeNoneStranded'
      BY <1>1, <1>4, <2>1 DEF LineInv, ByteAnnounced, LeNoneStranded
    <2> QED  BY <1>2, <2>2, <2>3 DEF LineInv
  <1> QED  BY <1>3, <1>4

LEMMA LineWrite ==
    ASSUME LineInv, LeuartAssumption, Write
    PROVE  LineInv'
  <1>1. /\ pc[Me] = "locked" /\ pc' = [pc EXCEPT ![Me] = "unlock"]
        /\ UNCHANGED <<k, wl, call, data_ptr, save_index, read_index, lock, rx_sem, missed, heard>>
    BY DEF Write, At, Goto, lineVars
  <1>2. /\ IpcInv' /\ pc' \in [Thread -> LinePc] /\ call' \in [Thread -> LineCalls]
        /\ LinePlaces' /\ LineOwner' /\ \A o : OnTheirWay(o)' = OnTheirWay(o)
    BY <1>1, LineUses
  <1>3. LineTypes'
    BY <1>1, <1>2 DEF LineInv, LineTypes
  <1>4. ByteAnnounced' /\ LeNoneStranded'
    BY <1>1, <1>2 DEF LineInv, ByteAnnounced, LeNoneStranded
  <1> QED  BY <1>2, <1>3, <1>4 DEF LineInv

LEMMA LineUnlock ==
    ASSUME LineInv, LeuartAssumption, Unlock
    PROVE  LineInv'
  <1> USE LineFacts
  <1>1. /\ pc[Me] = "unlock" /\ ThreadWakes("lock")
        /\ lock' = (IF wl["lock"] = << >> THEN lock + 1 ELSE lock)
        /\ UNCHANGED <<data_ptr, save_index, read_index, rx_sem, missed, heard>>
    BY DEF Unlock, At
  <1>2. /\ Me \in Thread /\ Me \in DOMAIN pc /\ Me \in Owners
        /\ \A o : Me \notin OnTheirWay(o)
    BY <1>1, IpcTypes DEF LineInv, LineTypes, Owners, OnTheirWay, Woken
  <1>3. /\ pc' = [pc EXCEPT ![Me] = IF wl["lock"] = << >> THEN "run" ELSE "pend"]
        /\ call' = [call EXCEPT ![Me] = NoCall]
    BY <1>1 DEF ThreadWakes, EndCall, Goto
  <1>4. /\ pc'[Me] \in {"run", "pend"} /\ call'[Me] = NoCall
        /\ \A t \in Thread \ {Me} : pc'[t] = pc[t] /\ call'[t] = call[t]
    BY <1>2, <1>3 DEF LineInv, LineTypes
  <1> DEFINE h == Head(wl["lock"])
  <1>5. /\ IpcInv' /\ wl'["rx"] = wl["rx"]
        /\ wl["lock"] = << >> => /\ wl'["lock"] = << >>
                                 /\ \A o : OnTheirWay(o)' = OnTheirWay(o) \ {Me}
        /\ wl["lock"] # << >> =>
              /\ h \in Thread /\ h # Me /\ h \notin OnTheirWay("lock")
              /\ OnTheirWay("lock")' = (OnTheirWay("lock") \ {Me}) \cup {h}
              /\ \A o : o # "lock" => OnTheirWay(o)' = OnTheirWay(o) \ {Me}
    BY <1>1, <1>2, <1>4, ThreadWakesSection DEF LineInv
  <1> HIDE DEF h
  <1>6. Owners = {Me} /\ lock = 0
    BY <1>2 DEF LineInv, LineOwner
  <1>7. LinePlaces'
    BY <1>4 DEF LineInv, LinePlaces
  <1>8. pc' \in [Thread -> LinePc] /\ call' \in [Thread -> LineCalls]
    BY <1>3, Zenon DEF LineInv, LineTypes, LinePc, LineCalls
  <1>9. OnTheirWay("rx")' = OnTheirWay("rx")
    <2>1. OnTheirWay("rx")' = OnTheirWay("rx") \ {Me}
      BY <1>5
    <2> QED  BY <1>2, <2>1
  <1>10. ByteAnnounced'
    BY <1>1, <1>9 DEF LineInv, ByteAnnounced
  <1>11. CASE wl["lock"] = << >>
    <2>1. lock' = 1
      BY <1>1, <1>6, <1>11
    <2>2. Owners' = {}
      BY <1>4, <1>5, <1>6, <1>11 DEF Owners
    <2>3. LineTypes' /\ LineOwner'
      BY <1>1, <1>8, <2>1, <2>2 DEF LineInv, LineTypes, LineOwner
    <2>4. LeNoneStranded'
      BY <1>1, <1>5, <1>11 DEF LineInv, LeNoneStranded
    <2> QED  BY <1>5, <1>7, <1>10, <2>3, <2>4 DEF LineInv
  <1>12. CASE wl["lock"] # << >>
    <2>1. lock' = 0
      BY <1>1, <1>6, <1>12
    <2>2. Owners' = {h} /\ h \in Thread
      BY <1>4, <1>5, <1>6, <1>12 DEF Owners
    <2>3. LineTypes' /\ LineOwner'
      BY <1>1, <1>8, <2>1, <2>2 DEF LineInv, LineTypes, LineOwner
    <2>4. LeNoneStranded'
      BY <1>1, <1>5, <2>1 DEF LineInv, LeNoneStranded
    <2> QED  BY <1>5, <1>7, <1>10, <2>3, <2>4 DEF LineInv
  <1> QED  BY <1>11, <1>12

LEMMA LineRxTake ==
    ASSUME LineInv, LeuartAssumption, RxTake
    PROVE  LineInv'
  <1> USE LineFacts
  <1>1. /\ Calling /\ Me = Shell /\ missed = TRUE
        /\ UNCHANGED <<data_ptr, save_index, read_index, lock, heard>>
    BY DEF RxTake, LineInv, LineTypes
  <1>2. Me \in Thread /\ pc[Me] = "run" /\ Me \notin Owners /\ \A o : Me \notin OnTheirWay(o)
    BY <1>1, LineOutside
  <1>3. CASE rx_sem > 0
    <2>1. /\ rx_sem' = rx_sem - 1 /\ missed' = FALSE
          /\ k' = [k EXCEPT !.err[Me] = "EOK"] /\ "EOK" \in Err /\ UNCHANGED <<wl, pc, call>>
      BY <1>3 DEF RxTake, Err
    <2>2. /\ pc' = [pc EXCEPT ![Me] = "run"] /\ call' = [call EXCEPT ![Me] = call[Me]]
          /\ call[Me] \in LineCalls
      BY <1>2, <2>1 DEF LineInv, LineTypes
    <2>3. /\ IpcInv' /\ pc' \in [Thread -> LinePc] /\ call' \in [Thread -> LineCalls]
          /\ LinePlaces' /\ \A o : OnTheirWay(o)' = OnTheirWay(o) \ {Me}
          /\ Owners' = Owners \ {Me}
      <3> DEFINE c == call[Me]
      <3>1. /\ pc[Me] \notin {"pend", "blocked"} /\ wl' = wl /\ c \in LineCalls
            /\ call' = [call EXCEPT ![Me] = c]
            /\ c.op = "rx" => Me = Shell
        BY <1>1, <1>2, <2>1, <2>2, Zenon
      <3> HIDE DEF c
      <3> QED  BY <1>2, <2>1, <2>2, <3>1, <1>1, LineGoesOn, Zenon
    <2>4. Owners' = Owners
      BY <1>2, <2>3
    <2>5. LineTypes'
      <3>1. rx_sem' \in 0 .. MaxRx
        BY <1>3, <2>1 DEF LineInv, LineTypes
      <3> QED  BY <1>1, <2>1, <2>3, <3>1, Zenon DEF LineInv, LineTypes
    <2>6. LineOwner' /\ ByteAnnounced'
      BY <1>1, <2>1, <2>4 DEF LineInv, LineOwner, ByteAnnounced
    <2>7. LeNoneStranded'
      BY <1>1, <1>3, <2>1 DEF LineInv, LineTypes, LeNoneStranded
    <2> QED  BY <2>3, <2>5, <2>6, <2>7 DEF LineInv
  <1>4. CASE ~ rx_sem > 0
    <2>1. /\ rx_sem' = rx_sem /\ missed' = missed
          /\ Block("rx", Append(wl["rx"], Me), RxCall, "forever")
      BY <1>4 DEF RxTake
    <2>2. /\ IpcInv' /\ pc' \in [Thread -> LinePc] /\ call' \in [Thread -> LineCalls]
          /\ LinePlaces' /\ \A o : OnTheirWay(o)' = OnTheirWay(o)
          /\ Owners' = Owners /\ wl'["lock"] = wl["lock"]
      <3>1. RxCall \in LineCalls /\ RxCall.op = "rx"
        BY DEF LineCalls
      <3> QED  BY <1>1, <2>1, <3>1, LineBlocks
    <2>3. OnTheirWay("rx") = {}
      <3>1. OnTheirWay("rx") \subseteq {Shell}
        BY DEF OnTheirWay, Woken, LineInv, LinePlaces
      <3> QED  BY <1>1, <1>2, <3>1
    <2>4. rx_sem = 0 /\ read_index = save_index
      BY <1>1, <1>4, <2>3 DEF LineInv, LineTypes, ByteAnnounced
    <2>5. LineTypes'
      BY <1>1, <2>1, <2>2 DEF LineInv, LineTypes
    <2>6. LineOwner' /\ ByteAnnounced' /\ LeNoneStranded'
      BY <1>1, <2>1, <2>2, <2>4
         DEF LineInv, LineOwner, ByteAnnounced, LeNoneStranded
    <2> QED  BY <2>2, <2>5, <2>6 DEF LineInv
  <1> QED  BY <1>3, <1>4

LEMMA LineRxGot ==
    ASSUME LineInv, LeuartAssumption, RxGot
    PROVE  LineInv'
  <1> USE LineFacts
  <1>1. /\ pc[Me] = "wait" /\ k.err[Me] = "EOK" /\ call[Me].op = "rx"
        /\ missed' = FALSE
        /\ pc' = [pc EXCEPT ![Me] = "run"] /\ call' = [call EXCEPT ![Me] = NoCall]
        /\ UNCHANGED <<k, wl, data_ptr, save_index, read_index, lock, rx_sem, heard>>
    BY DEF RxGot, Retrying, At, EndCall, Goto
  <1>2. Me \in Thread
    BY IpcTypes DEF LineInv
  <1>3. k' = [k EXCEPT !.err[Me] = "EOK"] /\ "EOK" \in Err
    BY <1>1, IpcTypes DEF LineInv, KernelState, Err
  <1>4. NoCall \in LineCalls
    BY DEF LineCalls
  <1>5. /\ IpcInv' /\ pc' \in [Thread -> LinePc] /\ call' \in [Thread -> LineCalls]
        /\ LinePlaces' /\ \A o : OnTheirWay(o)' = OnTheirWay(o) \ {Me}
        /\ Owners' = Owners \ {Me}
    <2>1. pc[Me] \notin {"pend", "blocked"} /\ UNCHANGED wl /\ NoCall.op # "rx"
      BY <1>1
    <2> QED  BY <1>1, <1>2, <1>3, <1>4, <2>1, LineGoesOn, Zenon
  <1>6. Owners' = Owners
    <2>1. Me \notin Owners
      BY <1>1 DEF Owners, OnTheirWay
    <2> QED  BY <1>5, <2>1
  <1>7. LineTypes'
    BY <1>1, <1>5, Zenon DEF LineInv, LineTypes
  <1>8. LineOwner' /\ ByteAnnounced' /\ LeNoneStranded'
    BY <1>1, <1>6 DEF LineInv, LineOwner, ByteAnnounced, LeNoneStranded
  <1> QED  BY <1>5, <1>7, <1>8 DEF LineInv

\* The state of the ring, as the interrupt handler works on it.
RingState ==
    [data : [0 .. RxSize - 1 -> Byte \cup {NoByte}], save : 0 .. RxSize - 1,
     read : 0 .. RxSize - 1]

LEMMA SavedType ==
    ASSUME LeuartAssumption, NEW r \in RingState, NEW v \in Byte
    PROVE  Saved(r, v) \in RingState
  <1>1. RxSize \in Nat \ {0, 1}
    BY LineFacts
  <1>2. \A i \in 0 .. RxSize - 1 : After(i) \in 0 .. RxSize - 1
    BY <1>1 DEF After
  <1>3. /\ r.data \in [0 .. RxSize - 1 -> Byte \cup {NoByte}]
        /\ r.save \in 0 .. RxSize - 1 /\ r.read \in 0 .. RxSize - 1
    BY DEF RingState
  <1>4. /\ [r.data EXCEPT ![r.save] = v] \in [0 .. RxSize - 1 -> Byte \cup {NoByte}]
        /\ After(r.save) \in 0 .. RxSize - 1
        /\ (IF After(r.save) = r.read THEN After(r.read) ELSE r.read) \in 0 .. RxSize - 1
    BY <1>2, <1>3, Zenon
  <1> QED  BY <1>4 DEF Saved, RingState

\* The rounds of the loop of the interrupt handler, and that there are such.
LEMMA RxIsrRounds ==
    ASSUME LeuartAssumption, NEW n \in 1 .. 2, NEW bytes \in [1 .. n -> Byte],
           NEW r \in RingState
    PROVE  LET saved[i \in 0 .. Len(bytes)] ==
                   IF i = 0 THEN r ELSE Saved(saved[i - 1], bytes[i])
           IN  saved[Len(bytes)] \in RingState
  <1> DEFINE saved[i \in 0 .. Len(bytes)] ==
                 IF i = 0 THEN r ELSE Saved(saved[i - 1], bytes[i])
  <1>1. Len(bytes) = n /\ \A i : i \in 0 .. n <=> i \in {0, 1} \/ (i = 2 /\ n = 2)
    <2>1. Len(bytes) = n
      <3>1. bytes \in Seq(Byte) /\ DOMAIN bytes = 1 .. n
        OBVIOUS
      <3>2. Len(bytes) \in Nat /\ 1 .. Len(bytes) = 1 .. n
        BY <3>1, LenProperties
      <3>3. n \in 1 .. Len(bytes) /\ n + 1 \notin 1 .. Len(bytes)
        BY <3>2
      <3> QED  BY <3>2, <3>3
    <2>2. \A i : i \in 0 .. n <=> i \in {0, 1} \/ (i = 2 /\ n = 2)
      BY n = 1 \/ n = 2
    <2> QED  BY <2>1, <2>2
  <1> DEFINE two == Saved(Saved(r, bytes[1]), bytes[2])
             g == [i \in 0 .. Len(bytes) |->
                       IF i = 0 THEN r ELSE IF i = 1 THEN Saved(r, bytes[1]) ELSE two]
  <1>2. g = [i \in 0 .. Len(bytes) |-> IF i = 0 THEN r ELSE Saved(g[i - 1], bytes[i])]
    <2> HIDE DEF saved
    <2>1. ASSUME NEW i \in 0 .. Len(bytes)
          PROVE  g[i] = IF i = 0 THEN r ELSE Saved(g[i - 1], bytes[i])
      <3>1. i \in {0, 1, 2} /\ (i = 2 => n = 2)
        BY <1>1
      <3>2. CASE i = 0
        BY <3>2
      <3>3. CASE i = 1
        <4>1. g[1] = Saved(r, bytes[1]) /\ g[0] = r
          BY <1>1, <3>3
        <4> QED  BY <3>3, <4>1
      <3>4. CASE i = 2
        <4>1. g[2] = two /\ g[1] = Saved(r, bytes[1])
          BY <1>1, <3>1, <3>4
        <4> QED  BY <3>4, <4>1
      <3> QED  BY <3>1, <3>2, <3>3, <3>4
    <2>2. g = [i \in 0 .. Len(bytes) |-> g[i]]
      OBVIOUS
    <2> HIDE DEF g
    <2> QED  BY <2>1, <2>2, Zenon
  <1> HIDE DEF g
  <1>3. saved = [i \in 0 .. Len(bytes) |-> IF i = 0 THEN r ELSE Saved(saved[i - 1], bytes[i])]
    BY <1>2
  <1> HIDE DEF saved
  <1>4. saved[0] = r
    BY <1>1, <1>3
  <1>5. saved[1] = Saved(saved[0], bytes[1]) /\ saved[1] \in RingState
    <2>1. saved[1] = Saved(saved[0], bytes[1])
      BY <1>1, <1>3
    <2>2. bytes[1] \in Byte
      OBVIOUS
    <2> QED  BY <1>4, <2>1, <2>2, SavedType
  <1>6. CASE n = 1
    BY <1>1, <1>5, <1>6 DEF saved
  <1>7. CASE n = 2
    <2>1. saved[2] = Saved(saved[1], bytes[2])
      BY <1>1, <1>3, <1>7
    <2>2. bytes[2] \in Byte
      BY <1>7
    <2>3. saved[2] \in RingState
      BY <1>5, <2>1, <2>2, SavedType
    <2> QED  BY <1>1, <1>7, <2>3 DEF saved
  <1> QED  BY <1>6, <1>7

LEMMA LineRxIsr ==
    ASSUME LineInv, LeuartAssumption, NEW n \in 1 .. 2, NEW bytes \in [1 .. n -> Byte],
           RxIsr(bytes)
    PROVE  LineInv'
  <1> USE LineFacts
  <1>1. /\ IsrWakes("rx")
        /\ wl["rx"] = << >> => rx_sem < MaxRx
        /\ rx_sem' = (IF wl["rx"] = << >> THEN rx_sem + 1 ELSE rx_sem)
        /\ UNCHANGED <<lock, missed, heard>>
    BY DEF RxIsr
  <1>2. UNCHANGED <<pc, call>>
    BY <1>1 DEF IsrWakes
  <1>3. /\ data_ptr' \in [0 .. RxSize - 1 -> Byte \cup {NoByte}]
        /\ save_index' \in 0 .. RxSize - 1 /\ read_index' \in 0 .. RxSize - 1
    <2> DEFINE z == [data |-> data_ptr, save |-> save_index, read |-> read_index]
               saved[i \in 0 .. Len(bytes)] ==
                   IF i = 0 THEN z ELSE Saved(saved[i - 1], bytes[i])
    <2>1. z \in RingState
      BY DEF LineInv, LineTypes, RingState
    <2>2. /\ data_ptr' = saved[Len(bytes)].data /\ save_index' = saved[Len(bytes)].save
          /\ read_index' = saved[Len(bytes)].read
      BY DEF RxIsr
    <2>3. saved[Len(bytes)] \in RingState
      <3> HIDE DEF z
      <3> QED  BY <2>1, RxIsrRounds, Zenon
    <2> HIDE DEF saved
    <2> QED  BY <2>2, <2>3 DEF RingState
  <1> DEFINE h == Head(wl["rx"])
  <1>4. /\ IpcInv' /\ wl'["lock"] = wl["lock"]
        /\ wl["rx"] = << >> => /\ wl'["rx"] = << >>
                               /\ \A o : OnTheirWay(o)' = OnTheirWay(o)
        /\ wl["rx"] # << >> => /\ h \in Thread
                               /\ OnTheirWay("rx")' = OnTheirWay("rx") \cup {h}
                               /\ \A o : o # "rx" => OnTheirWay(o)' = OnTheirWay(o)
    BY <1>1, IsrWakesSection DEF LineInv
  <1>5. LinePlaces'
    BY <1>2 DEF LineInv, LinePlaces
  <1>6. OnTheirWay("lock")' = OnTheirWay("lock")
    BY <1>4
  <1>7. LineOwner'
    <2>1. Owners' = Owners
      BY <1>2, <1>6 DEF Owners
    <2> QED  BY <1>1, <2>1 DEF LineInv, LineOwner
  <1>8. wl'["rx"] = << >>
    <2>1. CASE wl["rx"] # << >>
      <3>1. h = Shell /\ ToSet(Popped("rx")["rx"]) = ToSet(wl["rx"]) \ {h}
            /\ Popped("rx") \in [WaitList -> Seq(App)]
        <4>1. /\ h \in Thread /\ call[h].op = "rx"
              /\ Popped("rx") \in [WaitList -> Seq(App)]
              /\ \A j \in WaitList : ToSet(Popped("rx")[j]) = ToSet(wl[j]) \ {h}
          <5>1. IpcInv /\ "rx" \in WaitList /\ wl["rx"] # << >>
            BY <2>1 DEF LineInv
          <5> QED  BY ONLY <5>1, FirstWaiter, ZenonT(40)
        <4> HIDE DEF h
        <4> QED  BY <4>1, Zenon DEF LineInv, LinePlaces
      <3>2. \A t \in ToSet(wl["rx"]) : t = Shell
        <4>1. \A t \in ToSet(wl["rx"]) : t \in Thread /\ call[t].op = "rx"
          BY IpcTypes DEF LineInv, IpcInv, ParkedInCall
        <4> QED  BY <4>1 DEF LineInv, LinePlaces
      <3>3. ToSet(Popped("rx")["rx"]) = {} /\ Popped("rx")["rx"] \in Seq(App)
        BY <3>1, <3>2
      <3>4. wl' = Popped("rx")
        BY <1>1 DEF IsrWakes
      <3> HIDE DEF h
      <3>5. wl'["rx"] \in Seq(App) /\ ToSet(wl'["rx"]) = {}
        BY <3>3, <3>4
      <3> QED  BY ONLY <3>5, EmptyList
    <2> QED  BY <1>4, <2>1
  <1>9. LeNoneStranded'
    BY <1>1, <1>4, <1>8 DEF LineInv, LeNoneStranded
  <1> HIDE DEF h
  <1>10. ByteAnnounced'
    <2>1. CASE wl["rx"] # << >>
      BY <1>4, <2>1, Zenon DEF ByteAnnounced
    <2>2. CASE wl["rx"] = << >>
      <3>1. rx_sem' > 0
        BY <1>1, <2>2 DEF LineInv, LineTypes
      <3> QED  BY <3>1 DEF ByteAnnounced
    <2> QED  BY <2>1, <2>2
  <1>11. LineTypes'
    <2>1. rx_sem' \in 0 .. MaxRx
      BY <1>1 DEF LineInv, LineTypes
    <2> QED  BY <1>1, <1>2, <1>3, <2>1 DEF LineInv, LineTypes
  <1> QED  BY <1>4, <1>5, <1>7, <1>9, <1>10, <1>11 DEF LineInv

LEMMA LineKeeps ==
    ASSUME LineInv, LeuartAssumption, [LeNext]_leSpecVars
    PROVE  LineInv'
  <1>1. CASE UNCHANGED leSpecVars
    <2>1. UNCHANGED <<k, wl, pc, call, data_ptr, save_index, read_index, lock, rx_sem, missed, heard>>
      BY <1>1 DEF leSpecVars, ipcVars, lineVars
    <2>2. IpcInv' /\ \A o : OnTheirWay(o)' = OnTheirWay(o)
      BY <2>1, SameIpc DEF LineInv, ipcVars
    <2>3. LineTypes' /\ LinePlaces'
      BY <2>1 DEF LineInv, LineTypes, LinePlaces
    <2>4. LineOwner'
      <3>1. Owners' = Owners
        BY <2>1, <2>2 DEF Owners
      <3> QED  BY <2>1, <3>1 DEF LineInv, LineOwner
    <2>5. ByteAnnounced' /\ LeNoneStranded'
      BY <2>1, <2>2 DEF LineInv, ByteAnnounced, LeNoneStranded
    <2> QED  BY <2>2, <2>3, <2>4, <2>5 DEF LineInv
  <1>2. CASE ((\E t \in Thread : Startup(t)) \/ CallSchedule \/ TickYield)
             /\ UNCHANGED lineVars
    <2>1. IpcStep
      BY <1>2 DEF IpcStep
    <2>2. UNCHANGED <<data_ptr, save_index, read_index, lock, rx_sem, missed, heard>>
      BY <1>2 DEF lineVars
    <2> QED  BY <2>1, <2>2, LineIpcStep
  <1>3. CASE \E c \in {ReadCall, WriteCall} : TakeLock(c)
    BY <1>3, LineTakeLock
  <1>4. CASE \E n \in 1 .. 2 : \E bytes \in [1 .. n -> Byte] : RxIsr(bytes)
    BY <1>4, LineRxIsr, Zenon
  <1>5. CASE GotLock \/ Read \/ Write
    BY <1>5, LineGotLock, LineRead, LineWrite
  <1>6. CASE Unlock \/ RxTake \/ RxGot
    BY <1>6, LineUnlock, LineRxTake, LineRxGot
  <1> QED  BY <1>1, <1>2, <1>3, <1>4, <1>5, <1>6 DEF LeNext

-----------------------------------------------------------------------------
(* The work queue, for any number of threads and work items, whose calls do *)
(* not overlap and whose worker comes before all other threads              *)

\* The worker's priority is above that of every other thread.
WorkerFirst == \A t \in Thread \ {Worker} : BasePrio[Worker] < BasePrio[t]

WorkPc == {"run", "pend", "sleep", "asleep", "take", "work", "dozing",
           "done", "ack", "resume", "unlink", "insert", "synced"}

WorkTypes ==
    /\ pc \in [Thread -> WorkPc]
    /\ works \in Seq(Work) /\ Distinct(works)
    /\ current \in Work \cup {NoWork} /\ pending \subseteq Work
    /\ ended \in [Thread -> BOOLEAN]

\* Only the worker locks the scheduler, to acknowledge a run, and only its work
\* has a timer.
WorkKernel ==
    /\ k \in KernelState /\ KernelOK(k) /\ k.prio = BasePrio
    /\ k.lock = IF pc[Worker] = "ack" THEN 1 ELSE 0
    /\ k.stat[Idle] \in {"READY", "RUNNING"}
    /\ k.tmr \subseteq {Worker}
    /\ \/ k.stat[Me] = "RUNNING"
       \/ Me = Worker /\ k.stat[Worker] = "SUSPEND" /\ pc[Worker] \in {"asleep", "dozing"}

\* All other threads are suspended exactly while they wait for the end of a run.
WorkLists ==
    /\ wl \in [WaitList -> Seq(App)] /\ Distinct(wl["sync"])
    /\ \A l \in WaitList \ {"sync"} : wl[l] = << >>
    /\ \A t \in Thread \ {Worker} : t \in ToSet(wl["sync"]) <=> k.stat[t] = "SUSPEND"
    /\ Worker \notin ToSet(wl["sync"])
    /\ \A t \in ToSet(wl["sync"]) : pc[t] = "synced"

WorkPlaces ==
    /\ \A t \in Thread \ {Worker} :
          pc[t] \in {"run", "pend", "resume", "unlink", "insert", "synced"}
    /\ pc[Worker] \in {"run", "sleep", "asleep", "take", "work", "dozing", "done", "ack"}
    /\ pc[Worker] \in {"work", "dozing"} <=> current # NoWork

\* Before the end of the rt_thread_resume in a submission.
Resuming(t) == pc[t] \in {"resume", "unlink", "insert"}

\* The worker went to sleep without work, or is about to, and takes some next.
Idling == pc[Worker] \in {"asleep", "take"}

WorkerPhase ==
    /\ k.stat[Worker] # "CLOSE"
    /\ k.stat[Worker] = "INIT" => pc[Worker] = "run" /\ works = << >>
    /\ k.stat[Worker] = "READY" => Idling /\ pc[Me] = "pend"
    /\ k.stat[Worker] = "SUSPEND" => Idling \/ pc[Worker] \in {"work", "dozing"}
    /\ pc[Worker] = "sleep" => works = << >>
    /\ Idling /\ k.stat[Worker] # "SUSPEND" => works # << >>
    /\ Idling /\ works # << >> /\ k.stat[Worker] = "SUSPEND" => \E t \in Thread : Resuming(t)
    /\ Worker \in k.tmr => k.stat[Worker] = "SUSPEND" /\ pc[Worker] \in {"work", "dozing"}

\* One thread at a time resumes the worker, which has work and sleeps.
WorkResumed ==
    /\ \A t \in Thread : Resuming(t) =>
          k.stat[Worker] = "SUSPEND" /\ Idling /\ works # << >>
    /\ \A t, u \in Thread : Resuming(t) /\ Resuming(u) => t = u

\* Who waits for the end of a run waits while it lasts.
WorkSynced ==
    /\ \A t \in Thread : ~ ended[t] => t \in ToSet(wl["sync"]) /\ current # NoWork
    /\ wl["sync"] # << >> => current # NoWork \/ pc[Worker] \in {"done", "ack"}

WorkListed == pending \subseteq ToSet(works) /\ current \notin ToSet(works)

\* The inductive invariant.
WorkInv ==
    /\ WorkTypes /\ WorkKernel /\ WorkLists /\ WorkPlaces /\ WorkerPhase /\ WorkResumed
    /\ WorkSynced /\ WorkListed


LEMMA WorkFacts ==
    ASSUME WorkInv, WorkQueueAssumption
    PROVE  /\ k \in KernelState /\ KernelOK(k) /\ Me \in Thread /\ Me = k.cur
           /\ k.stat \in [Thread -> Stat] /\ k.tmr \in SUBSET Thread
           /\ Worker \in App /\ Worker \in Thread /\ Worker # Idle /\ Idle \in Thread
           /\ NoWork \notin Work /\ "sync" \in WaitList
           /\ wl["sync"] \in Seq(App) /\ ToSet(wl["sync"]) \subseteq App
           /\ App \subseteq Thread /\ Idle \notin App
           /\ \A t \in Thread : k.stat[t] = "RUNNING" => t = Me
           /\ k.stat[Me] # "READY"
           /\ pc \in [Thread -> WorkPc] /\ ToSet(works) \subseteq Work
  <1>1. /\ k \in KernelState /\ KernelOK(k) /\ Me \in Thread /\ Me = k.cur
        /\ k.stat \in [Thread -> Stat] /\ k.tmr \in SUBSET Thread
        /\ Idle \in Thread
    BY KernelAssumption DEF WorkInv, WorkKernel, KernelState, Me
  <1>2. App \subseteq Thread /\ Idle \notin App /\ App = App
    BY DEF App
  <1>3. Worker \in App /\ NoWork \notin Work /\ "sync" \in WaitList
    BY <1>2 DEF WorkQueueAssumption
  <1>4. wl["sync"] \in Seq(App)
    BY <1>3 DEF WorkInv, WorkLists
  <1>5. ToSet(wl["sync"]) \subseteq App
    <2>1. \A i \in DOMAIN wl["sync"] : wl["sync"][i] \in App
      BY <1>4, LenProperties, ElementOfSeq
    <2> QED  BY <2>1 DEF ToSet
  <1>6. /\ \A t \in Thread : k.stat[t] = "RUNNING" => t = Me
        /\ k.stat[Me] # "READY"
    BY <1>1 DEF KernelOK, OneRunning
  <1>7. ToSet(works) \subseteq Work
    <2>1. works \in Seq(Work)
      BY DEF WorkInv, WorkTypes
    <2>2. \A i \in DOMAIN works : works[i] \in Work
      BY <2>1, LenProperties, ElementOfSeq
    <2> QED  BY <2>2 DEF ToSet
  <1> QED  BY <1>1, <1>2, <1>3, <1>4, <1>5, <1>6, <1>7 DEF WorkInv, WorkTypes

\* The rt_schedule of a kernel state that is not locked runs the worker if that
\* is ready.
LEMMA WorkSwitch ==
    ASSUME WorkerFirst, Worker \in Thread,
           NEW m \in KernelState, KernelOK(m), m.lock = 0, m.prio = BasePrio,
           m.stat[Idle] \in {"READY", "RUNNING"}
    PROVE  LET n == Schedule(m)
           IN  /\ n \in KernelState /\ KernelOK(n) /\ n.prio = BasePrio /\ n.lock = 0
               /\ n.tmr = m.tmr /\ n.stat[Idle] \in {"READY", "RUNNING"}
               /\ n.cur \in Thread /\ n.stat[n.cur] = "RUNNING"
               /\ \A t \in Thread : n.stat[t] = "SUSPEND" <=> m.stat[t] = "SUSPEND"
               /\ m.stat[Worker] \in {"READY", "RUNNING"} => n.cur = Worker
               /\ m.stat[Worker] \notin {"READY", "RUNNING"} =>
                     n.cur # Worker /\ n.stat[Worker] = m.stat[Worker]
  <1> DEFINE n == Schedule(m)
  <1>1. /\ n \in KernelState /\ KernelOK(n) /\ n.prio = BasePrio /\ n.lock = 0
        /\ n.tmr = m.tmr /\ n.stat[Idle] \in {"READY", "RUNNING"}
        /\ n.stat[n.cur] = "RUNNING" /\ TopRuns(n)
        /\ \A t \in Thread : n.stat[t] = "SUSPEND" <=> m.stat[t] = "SUSPEND"
    BY ScheduleWithIdle
  <1>2. /\ \A t \in Inactive(m) : n.stat[t] = m.stat[t]
        /\ Inactive(n) = Inactive(m)
    BY ScheduleEffect
  <1> HIDE DEF n
  <1>3. n.cur \in Thread /\ n.prio \in [Thread -> Prio]
    BY <1>1 DEF KernelState
  <1>4. ASSUME m.stat[Worker] \in {"READY", "RUNNING"} PROVE n.cur = Worker
    <2>1. n.stat[Worker] \in {"READY", "RUNNING"}
      BY <1>2, <1>4 DEF Inactive
    <2>2. CASE n.stat[Worker] = "RUNNING"
      BY <1>1, <2>2 DEF KernelOK, OneRunning
    <2>3. CASE n.stat[Worker] = "READY"
      <3>1. n.prio[n.cur] <= n.prio[Worker]
        BY <1>1, <2>3 DEF TopRuns
      <3>2. BasePrio[Worker] \in Int /\ BasePrio[n.cur] \in Int
        BY <1>3, SectionsAssumption DEF Prio
      <3>3. n.cur # Worker => BasePrio[Worker] < BasePrio[n.cur]
        BY <1>3 DEF WorkerFirst
      <3> QED  BY <1>1, <3>1, <3>2, <3>3
    <2> QED  BY <2>1, <2>2, <2>3
  <1>5. ASSUME m.stat[Worker] \notin {"READY", "RUNNING"}
        PROVE  n.cur # Worker /\ n.stat[Worker] = m.stat[Worker]
    BY <1>1, <1>2, <1>5 DEF Inactive
  <1> QED  BY <1>1, <1>3, <1>4, <1>5 DEF n

\* The look at the list.
LEMMA WorkLook ==
    ASSUME WorkInv, WorkQueueAssumption, WorkerLook
    PROVE  WorkInv'
  <1> USE WorkFacts
  <1>1. /\ Me = Worker /\ pc[Me] = "run" /\ k' = k /\ wl' = wl
        /\ pc' = [pc EXCEPT ![Me] = IF works = << >> THEN "sleep" ELSE "take"]
        /\ works' = works /\ current' = current /\ pending' = pending /\ ended' = ended
    BY DEF WorkerLook, wqVars, At, Goto
  <1>5. WorkKernel' /\ Me' = Me
    BY <1>1 DEF WorkInv, WorkKernel, WorkPlaces, Me
  <1>6. WorkLists'
    BY <1>1 DEF WorkInv, WorkLists, WorkKernel, WorkPlaces
  <1>7. WorkTypes'
    BY <1>1 DEF WorkInv, WorkTypes, WorkPc
  <1>8. WorkPlaces'
    BY <1>1 DEF WorkInv, WorkKernel, WorkPlaces, WorkTypes, WorkerPhase
  <1>9. WorkResumed'
    BY <1>1, <1>5 DEF WorkInv, WorkKernel, WorkPlaces, WorkerPhase, WorkResumed, Resuming, Idling
  <1>10. WorkerPhase'
    BY <1>1, <1>5 DEF WorkInv, WorkKernel, WorkPlaces, WorkerPhase, WorkResumed, Resuming, Idling
  <1>11. WorkSynced'
    BY <1>1 DEF WorkInv, WorkKernel, WorkPlaces, WorkTypes, WorkSynced
  <1>12. WorkListed'
    BY <1>1 DEF WorkInv, WorkListed, WorkPlaces, WorkTypes
  <1> QED  BY <1>5, <1>6, <1>7, <1>8, <1>9, <1>10, <1>11, <1>12 DEF WorkInv

\* The worker takes the first work.
LEMMA WorkTake ==
    ASSUME WorkInv, WorkQueueAssumption, WorkerTake
    PROVE  WorkInv'
  <1> USE WorkFacts
  <1>1. /\ pc[Me] = "take" /\ works # << >> /\ k' = k /\ wl' = wl
        /\ current' = Head(works) /\ works' = Tail(works) /\ pending' = pending \ {Head(works)}
        /\ pc' = [pc EXCEPT ![Me] = "work"] /\ ended' = ended
    BY DEF WorkerTake, At, Goto
  <1>2. /\ Head(works) \in Work /\ Tail(works) \in Seq(Work) /\ Distinct(Tail(works))
        /\ ToSet(Tail(works)) = ToSet(works) \ {Head(works)} /\ Head(works) # NoWork
    BY <1>1, HeadTailList DEF WorkInv, WorkTypes
  <1>5. WorkKernel' /\ Me' = Me
    BY <1>1 DEF WorkInv, WorkKernel, WorkPlaces, Me
  <1>6. WorkLists'
    BY <1>1 DEF WorkInv, WorkLists, WorkKernel, WorkPlaces
  <1>7. WorkTypes'
    BY <1>1, <1>2 DEF WorkInv, WorkTypes, WorkPc
  <1>8. WorkPlaces'
    BY <1>1 DEF WorkInv, WorkKernel, WorkPlaces, WorkTypes, WorkerPhase
  <1>9. WorkResumed'
    BY <1>1, <1>5 DEF WorkInv, WorkKernel, WorkPlaces, WorkerPhase, WorkResumed, Resuming, Idling
  <1>10. WorkerPhase'
    BY <1>1, <1>5, Zenon
       DEF WorkInv, WorkKernel, WorkPlaces, WorkerPhase, WorkResumed, Resuming, Idling
  <1>11. WorkSynced'
    BY <1>1 DEF WorkInv, WorkKernel, WorkPlaces, WorkTypes, WorkSynced
  <1>12. WorkListed'
    BY <1>1, <1>2 DEF WorkInv, WorkListed, WorkPlaces, WorkTypes
  <1> QED  BY <1>5, <1>6, <1>7, <1>8, <1>9, <1>10, <1>11, <1>12 DEF WorkInv

\* The end of a run.
LEMMA WorkEnds ==
    ASSUME WorkInv, WorkQueueAssumption, WorkEnd
    PROVE  WorkInv'
  <1> USE WorkFacts
  <1>1. /\ pc[Me] = "work" /\ k' = k /\ wl' = wl
        /\ current' = NoWork /\ ended' = [t \in Thread |-> TRUE]
        /\ pc' = [pc EXCEPT ![Me] = "done"] /\ works' = works /\ pending' = pending
    BY DEF WorkEnd, At, Goto
  <1>5. WorkKernel' /\ Me' = Me
    BY <1>1 DEF WorkInv, WorkKernel, WorkPlaces, Me
  <1>6. WorkLists'
    BY <1>1 DEF WorkInv, WorkLists, WorkKernel, WorkPlaces
  <1>7. WorkTypes'
    BY <1>1 DEF WorkInv, WorkTypes, WorkPc
  <1>8. WorkPlaces'
    BY <1>1 DEF WorkInv, WorkKernel, WorkPlaces, WorkTypes, WorkerPhase
  <1>9. WorkResumed'
    BY <1>1, <1>5 DEF WorkInv, WorkKernel, WorkPlaces, WorkerPhase, WorkResumed, Resuming, Idling
  <1>10. WorkerPhase'
    BY <1>1, <1>5 DEF WorkInv, WorkKernel, WorkPlaces, WorkerPhase, WorkResumed, Resuming, Idling
  <1>11. WorkSynced'
    BY <1>1, Zenon DEF WorkInv, WorkKernel, WorkPlaces, WorkTypes, WorkSynced
  <1>12. WorkListed'
    BY <1>1 DEF WorkInv, WorkListed, WorkPlaces, WorkTypes
  <1> QED  BY <1>5, <1>6, <1>7, <1>8, <1>9, <1>10, <1>11, <1>12 DEF WorkInv

\* The return of rt_workqueue_cancel_work_sync.
LEMMA WorkSyncReturn ==
    ASSUME WorkInv, WorkQueueAssumption, SyncReturn
    PROVE  WorkInv'
  <1> USE WorkFacts
  <1>1. /\ pc[Me] = "synced" /\ k' = k /\ wl' = wl
        /\ pc' = [pc EXCEPT ![Me] = "run"]
        /\ works' = works /\ current' = current /\ pending' = pending /\ ended' = ended
    BY DEF SyncReturn, wqVars, At, Goto
  <1>5. WorkKernel' /\ Me' = Me
    BY <1>1 DEF WorkInv, WorkKernel, WorkPlaces, Me
  <1>6. WorkLists'
    BY <1>1 DEF WorkInv, WorkLists, WorkKernel, WorkPlaces
  <1>7. WorkTypes'
    BY <1>1 DEF WorkInv, WorkTypes, WorkPc
  <1>8. WorkPlaces'
    BY <1>1 DEF WorkInv, WorkKernel, WorkPlaces, WorkTypes, WorkerPhase
  <1>9. WorkResumed'
    BY <1>1, <1>5 DEF WorkInv, WorkKernel, WorkPlaces, WorkerPhase, WorkResumed, Resuming, Idling
  <1>10. WorkerPhase'
    BY <1>1, <1>5 DEF WorkInv, WorkKernel, WorkPlaces, WorkerPhase, WorkResumed, Resuming, Idling
  <1>11. WorkSynced'
    BY <1>1 DEF WorkInv, WorkKernel, WorkPlaces, WorkTypes, WorkSynced
  <1>12. WorkListed'
    BY <1>1 DEF WorkInv, WorkListed, WorkPlaces, WorkTypes
  <1> QED  BY <1>5, <1>6, <1>7, <1>8, <1>9, <1>10, <1>11, <1>12 DEF WorkInv

\* The test of rt_thread_resume.
LEMMA WorkResumeTest ==
    ASSUME WorkInv, WorkQueueAssumption, ResumeTest
    PROVE  WorkInv'
  <1> USE WorkFacts
  <1>1. /\ pc[Me] = "resume" /\ k' = k /\ wl' = wl
        /\ pc' = [pc EXCEPT ![Me] = IF k.stat[Worker] = "SUSPEND" THEN "unlink" ELSE "pend"]
        /\ works' = works /\ current' = current /\ pending' = pending /\ ended' = ended
    BY DEF ResumeTest, wqVars, At, Goto
  <1>5. WorkKernel' /\ Me' = Me
    BY <1>1 DEF WorkInv, WorkKernel, WorkPlaces, Me
  <1>6. WorkLists'
    BY <1>1 DEF WorkInv, WorkLists, WorkKernel, WorkPlaces
  <1>7. WorkTypes'
    BY <1>1 DEF WorkInv, WorkTypes, WorkPc
  <1>8. WorkPlaces'
    BY <1>1 DEF WorkInv, WorkKernel, WorkPlaces, WorkTypes, WorkerPhase
  <1>9. WorkResumed'
    BY <1>1, <1>5 DEF WorkInv, WorkKernel, WorkPlaces, WorkerPhase, WorkResumed, Resuming, Idling
  <1>10. WorkerPhase'
    BY <1>1, <1>5 DEF WorkInv, WorkKernel, WorkPlaces, WorkerPhase, WorkResumed, Resuming, Idling
  <1>11. WorkSynced'
    BY <1>1 DEF WorkInv, WorkKernel, WorkPlaces, WorkTypes, WorkSynced
  <1>12. WorkListed'
    BY <1>1 DEF WorkInv, WorkListed, WorkPlaces, WorkTypes
  <1> QED  BY <1>5, <1>6, <1>7, <1>8, <1>9, <1>10, <1>11, <1>12 DEF WorkInv

\* Who uses the queue: a client while nobody submits and the worker has no work
\* to take, or the work itself.
LEMMA WorkUser ==
    ASSUME WorkInv, WorkQueueAssumption, Serial, Using
    PROVE  /\ \A t \in Thread : ~ Resuming(t)
           /\ k.stat[Worker] # "INIT" /\ pc[Worker] # "sleep"
           /\ \/ Idling /\ k.stat[Worker] = "SUSPEND" /\ works = << >> /\ current = NoWork
                        /\ pc[Me] = "run" /\ Me \in App /\ Me # Worker
              \/ ~ Idling /\ pc[Me] = "run" /\ Me \in App /\ Me # Worker
                          /\ k.stat[Worker] = "SUSPEND" /\ pc[Worker] \in {"work", "dozing"}
              \/ ~ Idling /\ pc[Me] = "work" /\ Me = Worker /\ k.stat[Worker] = "RUNNING"
  <1> USE WorkFacts
  <1>1. \/ /\ Me \in App /\ pc[Me] = "run" /\ Me # Worker /\ k.stat[Worker] # "INIT"
           /\ \A t \in Thread : ~ Resuming(t)
        \/ pc[Me] = "work"
    BY DEF Using, Submitting, Resuming, Calling, At
  <1>2. CASE pc[Me] = "work"
    BY <1>2 DEF WorkInv, WorkPlaces, WorkKernel, WorkResumed, Idling, WorkerPhase
  <1>3. CASE /\ Me \in App /\ pc[Me] = "run" /\ Me # Worker /\ k.stat[Worker] # "INIT"
             /\ \A t \in Thread : ~ Resuming(t)
    <2>1. k.stat[Worker] = "SUSPEND"
      BY <1>3 DEF WorkInv, WorkerPhase, Stat
    <2>2. Idling \/ pc[Worker] \in {"work", "dozing"}
      BY <2>1 DEF WorkInv, WorkerPhase
    <2>3. Idling => works = << >> /\ current = NoWork
      BY <1>3, <2>1 DEF WorkInv, WorkerPhase, WorkPlaces, Idling
    <2> QED  BY <1>3, <2>1, <2>2, <2>3 DEF Idling
  <1> QED  BY <1>1, <1>2, <1>3

\* A submission, up to the end of its section.
LEMMA WorkEnqueue ==
    ASSUME WorkInv, WorkQueueAssumption, Serial, NEW w \in Work, Enqueue(w),
           pending' = pending \/ pending' = pending \cup {w}
    PROVE  WorkInv'
  <1> USE WorkFacts
  <1>1. /\ Using /\ current # w /\ works' = Append(RemoveFirst(works, w), w)
        /\ pc' = IF current = NoWork THEN [pc EXCEPT ![Me] = "resume"] ELSE pc
        /\ k' = k /\ wl' = wl /\ current' = current /\ ended' = ended
    BY DEF Enqueue, Goto
  <1>2. /\ works' \in Seq(Work) /\ Distinct(works') /\ works' # << >>
        /\ ToSet(works') = ToSet(works) \cup {w}
    <2> DEFINE r == RemoveFirst(works, w)
    <2>1. r \in Seq(Work) /\ Distinct(r) /\ ToSet(r) = ToSet(works) \ {w}
      BY RemoveFirstList DEF WorkInv, WorkTypes
    <2>2. works' = Append(r, w)
      BY <1>1
    <2> HIDE DEF r
    <2>3. /\ Append(r, w) \in Seq(Work) /\ Append(r, w) # << >>
          /\ ToSet(Append(r, w)) = ToSet(r) \cup {w} /\ Distinct(Append(r, w))
      BY <2>1, AppendList
    <2> QED  BY <2>1, <2>2, <2>3
  <1>3. /\ \A t \in Thread : ~ Resuming(t)
        /\ k.stat[Worker] # "INIT" /\ pc[Worker] # "sleep"
        /\ \/ Idling /\ k.stat[Worker] = "SUSPEND" /\ works = << >> /\ current = NoWork
                     /\ pc[Me] = "run" /\ Me \in App /\ Me # Worker
           \/ ~ Idling /\ pc[Me] = "run" /\ Me \in App /\ Me # Worker
                       /\ k.stat[Worker] = "SUSPEND" /\ pc[Worker] \in {"work", "dozing"}
           \/ ~ Idling /\ pc[Me] = "work" /\ Me = Worker /\ k.stat[Worker] = "RUNNING"
    BY <1>1, WorkUser
  <1>4. /\ current = NoWork => Idling /\ Me # Worker /\ pc[Me] = "run"
        /\ current # NoWork => ~ Idling /\ pc' = pc
    BY <1>1, <1>3 DEF WorkInv, WorkPlaces, Idling
  <1>5. WorkKernel' /\ Me' = Me
    BY <1>1, <1>4 DEF WorkInv, WorkKernel, WorkPlaces, Me
  <1>6. WorkLists'
    BY <1>1, <1>4 DEF WorkInv, WorkLists, WorkKernel, WorkPlaces
  <1>7. WorkTypes'
    BY <1>1, <1>2 DEF WorkInv, WorkTypes, WorkPc
  <1>8. WorkPlaces'
    BY <1>1, <1>4 DEF WorkInv, WorkPlaces
  <1>9. WorkResumed'
    <2>1. CASE current = NoWork
      BY <1>1, <1>2, <1>3, <1>4, <2>1 DEF WorkInv, WorkTypes, WorkResumed, Resuming, Idling
    <2>2. CASE current # NoWork
      BY <1>1, <1>2, <1>3, <1>4, <2>2 DEF WorkInv, WorkResumed, Resuming, Idling
    <2> QED  BY <2>1, <2>2
  <1>10. WorkerPhase'
    <2>1. CASE current = NoWork
      <3>1. pc'[Me] = "resume" /\ pc'[Worker] = pc[Worker] /\ k.stat[Worker] = "SUSPEND"
        BY <1>1, <1>3, <1>4, <2>1
      <3> QED  BY <1>1, <1>2, <1>4, <2>1, <3>1, <1>5 DEF WorkInv, WorkerPhase, Resuming, Idling
    <2>2. CASE current # NoWork
      BY <1>1, <1>3, <1>4, <1>5, <2>2 DEF WorkInv, WorkerPhase, Resuming, Idling
    <2> QED  BY <2>1, <2>2
  <1>11. WorkSynced'
    BY <1>1, <1>4 DEF WorkInv, WorkSynced
  <1>12. WorkListed'
    BY <1>1, <1>2 DEF WorkInv, WorkListed
  <1> QED  BY <1>5, <1>6, <1>7, <1>8, <1>9, <1>10, <1>11, <1>12 DEF WorkInv

\* rt_workqueue_cancel_work.
LEMMA WorkCancel ==
    ASSUME WorkInv, WorkQueueAssumption, Serial, NEW w \in Work, CancelWork(w)
    PROVE  WorkInv'
  <1> USE WorkFacts
  <1>1. /\ Using /\ works' = RemoveFirst(works, w) /\ pending' = pending \ {w}
        /\ k' = k /\ wl' = wl /\ pc' = pc /\ current' = current /\ ended' = ended
    BY DEF CancelWork, ipcVars
  <1>2. /\ works' \in Seq(Work) /\ Distinct(works') /\ ToSet(works') = ToSet(works) \ {w}
    BY <1>1, RemoveFirstList DEF WorkInv, WorkTypes
  <1>3. works = << >> => works' = << >>
    <2>1. works \in Seq(Work)
      BY DEF WorkInv, WorkTypes
    <2> QED  BY <1>2, <2>1, EmptyList, Zenon
  <1>4. /\ \A t \in Thread : ~ Resuming(t)
        /\ k.stat[Worker] # "INIT" /\ pc[Worker] # "sleep"
        /\ \/ Idling /\ k.stat[Worker] = "SUSPEND" /\ works = << >>
           \/ ~ Idling
    BY <1>1, WorkUser
  <1>5. WorkKernel' /\ WorkLists' /\ WorkTypes' /\ WorkPlaces' /\ WorkSynced' /\ WorkListed'
    BY <1>1, <1>2
       DEF WorkInv, WorkKernel, WorkLists, WorkTypes, WorkPlaces, WorkSynced, WorkListed, Me
  <1>6. WorkResumed' /\ WorkerPhase'
    BY <1>1, <1>3, <1>4 DEF WorkInv, WorkResumed, WorkerPhase, Resuming, Idling, Me
  <1> QED  BY <1>5, <1>6 DEF WorkInv

\* Steps after which the current thread is one that was ready, or the worker that
\* was started or whose work was woken.
LEMMA WorkMoves ==
    ASSUME WorkInv, WorkQueueAssumption,
           k' \in KernelState, KernelOK(k'), k'.prio = BasePrio, k'.lock = k.lock,
           k'.stat[Idle] \in {"READY", "RUNNING"}, k'.stat[Me'] = "RUNNING",
           \A t \in Thread \ {Worker} : k'.stat[t] = "SUSPEND" <=> k.stat[t] = "SUSPEND",
           \/ /\ Me' = Worker /\ k'.tmr = {}
              /\ k.stat[Worker] # "SUSPEND" \/ pc[Worker] \in {"work", "dozing"}
           \/ /\ Me' # Worker /\ k'.tmr = k.tmr /\ k'.stat[Worker] = k.stat[Worker]
              /\ k.stat[Worker] \in {"SUSPEND", "INIT"},
           pc' = pc \/ \E l \in {<<"pend", "run">>, <<"asleep", "take">>, <<"dozing", "work">>} :
                          pc[Me] = l[1] /\ pc' = [pc EXCEPT ![Me] = l[2]],
           wl' = wl, UNCHANGED <<works, current, pending, ended>>
    PROVE  WorkInv'
  <1> USE WorkFacts
  <1>0. Me' = k'.cur
    BY DEF Me
  <1>1. /\ pc' \in [Thread -> WorkPc] /\ \A t \in Thread : t # Me => pc'[t] = pc[t]
        /\ \/ pc'[Me] = pc[Me]
           \/ pc[Me] = "pend" /\ pc'[Me] = "run"
           \/ pc[Me] = "asleep" /\ pc'[Me] = "take"
           \/ pc[Me] = "dozing" /\ pc'[Me] = "work"
    BY DEF WorkPc
  <1>2. /\ \A t \in Thread : /\ pc'[t] = "synced" <=> pc[t] = "synced"
                             /\ Resuming(t)' <=> Resuming(t)
        /\ Idling' <=> Idling
        /\ pc'[Worker] \in {"work", "dozing"} <=> pc[Worker] \in {"work", "dozing"}
        /\ \A l \in {"run", "sleep", "done", "ack"} : pc'[Worker] = l <=> pc[Worker] = l
    BY <1>1 DEF Resuming, Idling, WorkInv, WorkPlaces
  <1>3. WorkTypes'
    BY <1>1 DEF WorkInv, WorkTypes
  <1>4. WorkLists'
    BY <1>2 DEF WorkInv, WorkLists
  <1>5. WorkPlaces'
    BY <1>1, <1>2 DEF WorkInv, WorkPlaces
  <1>6. WorkKernel'
    BY <1>2 DEF WorkInv, WorkKernel
  <1>7. WorkerPhase'
    <2>1. CASE Me' = Worker /\ k'.tmr = {}
      BY <1>0, <1>2, <2>1 DEF WorkInv, WorkerPhase, WorkPlaces, Idling
    <2>2. CASE /\ Me' # Worker /\ k'.tmr = k.tmr /\ k'.stat[Worker] = k.stat[Worker]
               /\ k.stat[Worker] \in {"SUSPEND", "INIT"}
      BY <1>0, <1>2, <2>2 DEF WorkInv, WorkerPhase
    <2> QED  BY <2>1, <2>2
  <1>8. WorkResumed'
    BY <1>2 DEF WorkInv, WorkResumed, Idling
  <1>9. WorkSynced' /\ WorkListed'
    BY <1>2 DEF WorkInv, WorkSynced, WorkListed
  <1> QED  BY <1>3, <1>4, <1>5, <1>6, <1>7, <1>8, <1>9 DEF WorkInv

\* rt_schedule, unless the scheduler is locked.
LEMMA WorkScheduled ==
    ASSUME WorkInv, WorkerFirst, WorkQueueAssumption, k' = Schedule(k)
    PROVE  /\ k' \in KernelState /\ KernelOK(k') /\ k'.prio = BasePrio /\ k'.lock = k.lock
           /\ k'.stat[Idle] \in {"READY", "RUNNING"} /\ k'.stat[Me'] = "RUNNING"
           /\ \A t \in Thread \ {Worker} : k'.stat[t] = "SUSPEND" <=> k.stat[t] = "SUSPEND"
           /\ \/ Me' = Worker /\ k'.tmr = {} /\ k.stat[Worker] # "SUSPEND"
              \/ /\ Me' # Worker /\ k'.tmr = k.tmr /\ k'.stat[Worker] = k.stat[Worker]
                 /\ k.stat[Worker] \in {"SUSPEND", "INIT"}
  <1> USE WorkFacts
  <1>0. Me' = k'.cur /\ (k.stat[Worker] # "SUSPEND" => k.tmr = {})
    BY DEF Me, WorkInv, WorkerPhase, WorkKernel
  <1>1. CASE pc[Worker] = "ack"
    <2>1. k.lock = 1 /\ k.stat[Worker] = "RUNNING"
      BY <1>1 DEF WorkInv, WorkKernel, WorkerPhase, Idling, Stat
    <2>2. k' = k
      BY <2>1 DEF Schedule
    <2> QED  BY <1>0, <2>1, <2>2 DEF WorkInv, WorkKernel
  <1>2. CASE pc[Worker] # "ack"
    <2>1. /\ k.lock = 0 /\ k.prio = BasePrio /\ k.stat[Idle] \in {"READY", "RUNNING"}
          /\ k.stat[Worker] # "CLOSE" /\ k.stat[Worker] \in Stat
      BY <1>2 DEF WorkInv, WorkKernel, WorkerPhase
    <2>2. /\ k' \in KernelState /\ KernelOK(k') /\ k'.prio = BasePrio /\ k'.lock = 0
          /\ k'.tmr = k.tmr /\ k'.stat[Idle] \in {"READY", "RUNNING"}
          /\ k'.cur \in Thread /\ k'.stat[k'.cur] = "RUNNING"
          /\ \A t \in Thread : k'.stat[t] = "SUSPEND" <=> k.stat[t] = "SUSPEND"
          /\ k.stat[Worker] \in {"READY", "RUNNING"} => k'.cur = Worker
          /\ k.stat[Worker] \notin {"READY", "RUNNING"} =>
                k'.cur # Worker /\ k'.stat[Worker] = k.stat[Worker]
      BY <2>1, WorkSwitch
    <2> QED  BY <1>0, <2>1, <2>2 DEF Stat
  <1> QED  BY <1>1, <1>2

\* rt_thread_yield, and the rt_schedule behind a suspension or a submission.
LEMMA WorkSchedules ==
    ASSUME WorkInv, WorkerFirst, WorkQueueAssumption,
           \/ TickYield /\ UNCHANGED wqVars
           \/ CallSchedule /\ UNCHANGED wqVars
           \/ WorkerSleep \/ WorkDoze
    PROVE  WorkInv'
  <1> USE WorkFacts
  <1>1. pc[Me] # "blocked"
    BY DEF WorkPc
  <1>2. /\ k' = Schedule(k) /\ wl' = wl /\ UNCHANGED <<works, current, pending, ended>>
        /\ pc' = pc \/ \E l \in {<<"pend", "run">>, <<"asleep", "take">>, <<"dozing", "work">>} :
                          pc[Me] = l[1] /\ pc' = [pc EXCEPT ![Me] = l[2]]
    <2>1. CASE TickYield /\ UNCHANGED wqVars
      BY <2>1 DEF TickYield, wqVars
    <2>2. CASE CallSchedule /\ UNCHANGED wqVars
      BY <1>1, <2>2, Zenon DEF CallSchedule, wqVars, At, Goto
    <2>3. CASE WorkerSleep
      BY <2>3 DEF WorkerSleep, wqVars, At, Goto
    <2>4. CASE WorkDoze
      BY <2>4 DEF WorkDoze, wqVars, At, Goto
    <2> QED  BY <2>1, <2>2, <2>3, <2>4
  <1>3. /\ k' \in KernelState /\ KernelOK(k') /\ k'.prio = BasePrio /\ k'.lock = k.lock
        /\ k'.stat[Idle] \in {"READY", "RUNNING"} /\ k'.stat[Me'] = "RUNNING"
        /\ \A t \in Thread \ {Worker} : k'.stat[t] = "SUSPEND" <=> k.stat[t] = "SUSPEND"
        /\ \/ Me' = Worker /\ k'.tmr = {} /\ k.stat[Worker] # "SUSPEND"
           \/ /\ Me' # Worker /\ k'.tmr = k.tmr /\ k'.stat[Worker] = k.stat[Worker]
              /\ k.stat[Worker] \in {"SUSPEND", "INIT"}
    BY <1>2, WorkScheduled
  <1> QED  BY <1>2, <1>3, WorkMoves

\* The worker's work is woken, by an interrupt or by its timer.
LEMMA WorkWoken ==
    ASSUME WorkInv, WorkerFirst, WorkQueueAssumption,
           pc[Worker] \in {"work", "dozing"}, k.stat[Worker] = "SUSPEND",
           NEW e \in Err, k' = Schedule(Wake(k, Worker, e)),
           wl' = wl, pc' = pc, UNCHANGED <<works, current, pending, ended>>
    PROVE  WorkInv'
  <1> USE WorkFacts
  <1> DEFINE m == Wake(k, Worker, e)
  <1>1. /\ m \in KernelState /\ KernelOK(m) /\ m.cur = k.cur /\ m.prio = k.prio
        /\ m.lock = k.lock
        /\ m.stat = [k.stat EXCEPT ![Worker] = IF Worker = k.cur THEN "RUNNING" ELSE "READY"]
        /\ m.err = [k.err EXCEPT ![Worker] = e]
        /\ m.tmr = k.tmr \ {Worker}
    <2>1. /\ e \in Err /\ k.stat[Worker] = "SUSPEND" /\ k \in KernelState /\ KernelOK(k)
          /\ Worker \in Thread
      OBVIOUS
    <2> QED  BY ONLY <2>1, WakeEffect
  <1>2. k' = Schedule(m)
    OBVIOUS
  <1> HIDE DEF m
  <1>3. /\ k.lock = 0 /\ k.prio = BasePrio /\ k.stat[Idle] \in {"READY", "RUNNING"}
        /\ k.tmr \subseteq {Worker}
    BY DEF WorkInv, WorkKernel
  <1>4. /\ m.stat[Worker] \in {"READY", "RUNNING"} /\ m.tmr = {} /\ m.lock = 0
        /\ m.stat[Idle] \in {"READY", "RUNNING"} /\ m.prio = BasePrio
        /\ \A t \in Thread \ {Worker} : m.stat[t] = k.stat[t]
    BY <1>1, <1>3
  <1>5. /\ k' \in KernelState /\ KernelOK(k') /\ k'.prio = BasePrio /\ k'.lock = 0
        /\ k'.tmr = m.tmr /\ k'.stat[Idle] \in {"READY", "RUNNING"}
        /\ k'.cur = Worker /\ k'.stat[k'.cur] = "RUNNING"
        /\ \A t \in Thread : k'.stat[t] = "SUSPEND" <=> m.stat[t] = "SUSPEND"
    BY <1>1, <1>2, <1>4, WorkSwitch
  <1>6. Me' = Worker /\ k'.stat[Me'] = "RUNNING" /\ k'.tmr = {} /\ k'.lock = k.lock
    BY <1>3, <1>4, <1>5 DEF Me
  <1>7. \A t \in Thread \ {Worker} : k'.stat[t] = "SUSPEND" <=> k.stat[t] = "SUSPEND"
    BY <1>4, <1>5
  <1> QED  BY <1>5, <1>6, <1>7, WorkMoves

LEMMA WorkTimeout ==
    ASSUME WorkInv, WorkerFirst, WorkQueueAssumption, NEW t \in Thread, TickTimeout(t),
           UNCHANGED wqVars
    PROVE  WorkInv'
  <1> USE WorkFacts
  <1>1. t \in k.tmr /\ k' = Timeout(k, t) /\ wl' = [l \in WaitList |-> RemoveFirst(wl[l], t)]
        /\ pc' = pc /\ UNCHANGED <<works, current, pending, ended>>
    BY DEF TickTimeout, wqVars
  <1>2. t = Worker /\ k.stat[Worker] = "SUSPEND" /\ pc[Worker] \in {"work", "dozing"}
    BY <1>1 DEF WorkInv, WorkKernel, WorkerPhase
  <1>3. wl' = wl
    <2>1. \A l \in WaitList : RemoveFirst(wl[l], t) = wl[l]
      <3> SUFFICES ASSUME NEW l \in WaitList PROVE RemoveFirst(wl[l], t) = wl[l]
        OBVIOUS
      <3>1. wl[l] \in Seq(App) /\ (l # "sync" => wl[l] = << >>)
        BY DEF WorkInv, WorkLists
      <3>2. Worker \notin ToSet(wl[l])
        BY <3>1, EmptyList DEF WorkInv, WorkLists
      <3> QED  BY <1>2, <3>1, <3>2, RemoveAbsent
    <2>2. wl \in [WaitList -> Seq(App)]
      BY DEF WorkInv, WorkLists
    <2> QED  BY <1>1, <2>1, <2>2
  <1>4. k' = Schedule(Wake(k, Worker, "ETIMEOUT")) /\ "ETIMEOUT" \in Err
    BY <1>1, <1>2 DEF Timeout, Err
  <1> QED  BY <1>1, <1>2, <1>3, <1>4, WorkWoken

LEMMA WorkIsrWakes ==
    ASSUME WorkInv, WorkerFirst, WorkQueueAssumption, IsrWakesWork
    PROVE  WorkInv'
  <1> USE WorkFacts
  <1>1. /\ pc[Worker] \in {"work", "dozing"} /\ k.stat[Worker] = "SUSPEND"
        /\ k' = Schedule(Resume(k, Worker)) /\ pc' = pc /\ wl' = wl
        /\ UNCHANGED <<works, current, pending, ended>>
    BY DEF IsrWakesWork, wqVars
  <1>2. k' = Schedule(Wake(k, Worker, k.err[Worker])) /\ k.err[Worker] \in Err
    BY <1>1 DEF Resume, KernelState
  <1> QED  BY <1>1, <1>2, WorkWoken

\* rt_thread_startup by a client or the idle thread.
LEMMA WorkStartup ==
    ASSUME WorkInv, WorkerFirst, WorkQueueAssumption, NEW t \in Thread, Startup(t),
           Me # Worker, UNCHANGED wqVars
    PROVE  WorkInv'
  <1> USE WorkFacts
  <1> DEFINE i == [k EXCEPT !.stat[t] = "SUSPEND"]
             m == Resume(i, t)
  <1>1. /\ k.stat[t] = "INIT" /\ k' = Schedule(m) /\ pc[Me] = "run"
        /\ wl' = wl /\ pc' = pc /\ UNCHANGED <<works, current, pending, ended>>
    BY DEF Startup, At, wqVars
  <1>2. /\ k.prio = BasePrio /\ k.stat[Idle] \in {"READY", "RUNNING"}
        /\ k.tmr \subseteq {Worker} /\ k.stat[Me] = "RUNNING" /\ k.stat[Worker] # "RUNNING"
        /\ k.lock = 0
    BY DEF WorkInv, WorkKernel, WorkerPhase, Idling, Stat
  <1>3. /\ i \in KernelState /\ i.cur = k.cur /\ i.prio = k.prio /\ i.rq = k.rq
        /\ i.grp = k.grp /\ i.tmr = k.tmr /\ i.lock = k.lock
        /\ i.stat = [k.stat EXCEPT ![t] = "SUSPEND"]
    BY Zenon DEF KernelState, Stat
  <1> HIDE DEF i
  <1>4. KernelOK(i)
    BY <1>1, <1>3 DEF KernelOK, ReadyListed, ReadyDistinct, GroupExact, OneRunning
  <1>5. t # Me /\ t \notin k.tmr /\ t # Idle
    BY <1>1, <1>2 DEF WorkInv, WorkerPhase
  <1> HIDE DEF m
  <1>6. /\ m \in KernelState /\ KernelOK(m) /\ m.cur = k.cur /\ m.prio = BasePrio
        /\ m.lock = 0 /\ m.tmr = k.tmr
        /\ m.stat = [k.stat EXCEPT ![t] = "READY"]
    <2>1. i.stat[t] = "SUSPEND"
      BY <1>3
    <2>2. /\ m \in KernelState /\ KernelOK(m)
          /\ m.cur = i.cur /\ m.prio = i.prio /\ m.lock = i.lock
          /\ m.stat = [i.stat EXCEPT ![t] = IF t = i.cur THEN "RUNNING" ELSE "READY"]
          /\ m.tmr = i.tmr \ {t}
      BY <1>3, <1>4, <2>1, ResumeEffect DEF m
    <2> QED  BY <1>2, <1>3, <1>5, <2>2
  <1>7. m.stat[Idle] \in {"READY", "RUNNING"}
    BY <1>2, <1>5, <1>6
  <1>8. /\ k' \in KernelState /\ KernelOK(k') /\ k'.prio = BasePrio /\ k'.lock = 0
        /\ k'.tmr = m.tmr /\ k'.stat[Idle] \in {"READY", "RUNNING"}
        /\ k'.cur \in Thread /\ k'.stat[k'.cur] = "RUNNING"
        /\ \A u \in Thread : k'.stat[u] = "SUSPEND" <=> m.stat[u] = "SUSPEND"
        /\ m.stat[Worker] \in {"READY", "RUNNING"} => k'.cur = Worker
        /\ m.stat[Worker] \notin {"READY", "RUNNING"} =>
              k'.cur # Worker /\ k'.stat[Worker] = m.stat[Worker]
    BY <1>1, <1>6, <1>7, WorkSwitch
  <1>9. \A u \in Thread : k'.stat[u] = "SUSPEND" <=> k.stat[u] = "SUSPEND"
    BY <1>1, <1>6, <1>8
  <1>10. Me' = k'.cur
    BY DEF Me
  <1>11. CASE t = Worker
    <2>1. Me' = Worker /\ k'.tmr = {} /\ k.stat[Worker] # "SUSPEND"
      BY <1>1, <1>2, <1>5, <1>6, <1>8, <1>10, <1>11
    <2> QED  BY <1>1, <1>2, <1>8, <1>9, <1>10, <2>1, WorkMoves
  <1>12. CASE t # Worker
    <2>1. k.stat[Worker] \in {"SUSPEND", "INIT"}
      BY <1>1, <1>2 DEF WorkInv, WorkerPhase, Stat
    <2>2. m.stat[Worker] = k.stat[Worker]
      BY <1>6, <1>12
    <2>3. Me' # Worker /\ k'.tmr = k.tmr /\ k'.stat[Worker] = k.stat[Worker]
      BY <1>6, <1>8, <1>10, <2>1, <2>2
    <2> QED  BY <1>1, <1>2, <1>8, <1>9, <1>10, <2>1, <2>3, WorkMoves
  <1> QED  BY <1>11, <1>12

\* The worker suspends itself, or its work does.
LEMMA WorkSuspends ==
    ASSUME WorkInv, WorkQueueAssumption,
           WorkerSuspend \/ \E time \in Wait : WorkSuspend(time)
    PROVE  WorkInv'
  <1> USE WorkFacts
  <1>1. \/ pc[Me] = "sleep" /\ k' = Suspend(k, Me) /\ pc' = [pc EXCEPT ![Me] = "asleep"]
        \/ /\ pc[Me] = "work" /\ \E time \in Wait : k' = SuspendOn(k, Me, time)
           /\ pc' = [pc EXCEPT ![Me] = "dozing"]
    BY DEF WorkerSuspend, WorkSuspend, At, Goto
  <1>2. wl' = wl /\ UNCHANGED <<works, current, pending, ended>>
    BY DEF WorkerSuspend, WorkSuspend, wqVars
  <1>3. Me = Worker /\ k.stat[Worker] = "RUNNING" /\ k.tmr = {}
    BY <1>1 DEF WorkInv, WorkPlaces, WorkKernel, WorkerPhase
  <1>4. /\ k' \in KernelState /\ KernelOK(k') /\ k'.cur = k.cur /\ k'.prio = k.prio
        /\ k'.lock = k.lock /\ k'.stat = [k.stat EXCEPT ![Worker] = "SUSPEND"]
        /\ k'.tmr \subseteq {Worker} /\ (pc[Me] = "sleep" => k'.tmr = {})
    <2>1. CASE pc[Me] = "sleep" /\ k' = Suspend(k, Me)
      <3> DEFINE m == Suspend(k, Me)
      <3> HIDE DEF m
      <3>1. /\ m \in KernelState /\ KernelOK(m) /\ m.cur = k.cur /\ m.prio = k.prio
            /\ m.lock = k.lock /\ m.stat = [k.stat EXCEPT ![Me] = "SUSPEND"]
            /\ m.tmr = k.tmr \ {Me}
        BY <1>3, SuspendEffect DEF m
      <3>2. k' = m
        BY <2>1 DEF m
      <3> QED  BY <1>3, <3>1, <3>2
    <2>2. CASE pc[Me] = "work" /\ \E time \in Wait : k' = SuspendOn(k, Me, time)
      <3>1. PICK time \in Wait : k' = SuspendOn(k, Me, time)
        BY <2>2
      <3>2. /\ k' \in KernelState /\ KernelOK(k') /\ k'.cur = k.cur /\ k'.prio = k.prio
            /\ k'.lock = k.lock /\ k'.stat = [k.stat EXCEPT ![Worker] = "SUSPEND"]
        BY <1>3, <3>1, SuspendOnEffect
      <3>3. k'.tmr = IF time = "limited" THEN k.tmr \cup {Me} ELSE k.tmr \ {Me}
        BY <1>3, <3>1, SuspendOnTimer, Zenon
      <3> QED  BY <1>3, <2>2, <3>2, <3>3
    <2> QED  BY <1>1, <2>1, <2>2
  <1>5. Me' = Me /\ k'.stat[Idle] = k.stat[Idle]
    BY <1>3, <1>4 DEF Me
  <1>6. /\ \A t \in Thread \ {Worker} : pc'[t] = pc[t] /\ k'.stat[t] = k.stat[t]
        /\ k'.stat[Worker] = "SUSPEND"
        /\ \/ pc[Worker] = "sleep" /\ pc'[Worker] = "asleep" /\ k'.tmr = {}
           \/ pc[Worker] = "work" /\ pc'[Worker] = "dozing"
    BY <1>1, <1>3, <1>4
  <1>7. WorkTypes'
    BY <1>1, <1>2 DEF WorkInv, WorkTypes, WorkPc
  <1>8. WorkKernel'
    BY <1>3, <1>4, <1>5, <1>6 DEF WorkInv, WorkKernel
  <1>9. WorkLists'
    BY <1>2, <1>6 DEF WorkInv, WorkLists
  <1>10. WorkPlaces'
    BY <1>2, <1>6 DEF WorkInv, WorkPlaces
  <1>11. WorkerPhase' /\ WorkResumed'
    BY <1>2, <1>3, <1>4, <1>5, <1>6
       DEF WorkInv, WorkerPhase, WorkResumed, Resuming, Idling, WorkPlaces
  <1>12. WorkSynced' /\ WorkListed'
    BY <1>2, <1>6 DEF WorkInv, WorkSynced, WorkListed
  <1> QED  BY <1>7, <1>8, <1>9, <1>10, <1>11, <1>12 DEF WorkInv

\* The end of rt_thread_resume in a submission.
LEMMA WorkUnlink ==
    ASSUME WorkInv, WorkQueueAssumption, ResumeUnlink
    PROVE  WorkInv'
  <1> USE WorkFacts
  <1>1. /\ pc[Me] = "unlink" /\ k' = ResumeOff(k, Worker)
        /\ pc' = [pc EXCEPT ![Me] = "insert"]
        /\ wl' = wl /\ UNCHANGED <<works, current, pending, ended>>
    BY DEF ResumeUnlink, wqVars, At, Goto
  <1>2. k.stat[Worker] = "SUSPEND" /\ Me # Worker /\ k.stat[Me] = "RUNNING" /\ Idling
    BY <1>1 DEF WorkInv, WorkResumed, Resuming, WorkPlaces, WorkKernel
  <1>3. /\ k' \in KernelState /\ KernelOK(k') /\ k'.cur = k.cur /\ k'.prio = k.prio
        /\ k'.lock = k.lock /\ k'.stat = k.stat /\ k'.tmr = k.tmr \ {Worker}
    BY <1>1, <1>2, ResumeOffEffect
  <1>4. Me' = Me
    BY <1>3 DEF Me
  <1>5. /\ \A t \in Thread : pc'[t] = IF t = Me THEN "insert" ELSE pc[t]
        /\ \A t \in Thread : Resuming(t)' <=> Resuming(t)
        /\ Idling' <=> Idling
    BY <1>1, <1>2 DEF Resuming, Idling
  <1>6. WorkTypes'
    BY <1>1 DEF WorkInv, WorkTypes, WorkPc
  <1>7. WorkKernel' /\ WorkLists' /\ WorkPlaces'
    BY <1>1, <1>2, <1>3, <1>4, <1>5 DEF WorkInv, WorkKernel, WorkLists, WorkPlaces
  <1>8. WorkerPhase' /\ WorkResumed'
    BY <1>1, <1>2, <1>3, <1>4, <1>5 DEF WorkInv, WorkerPhase, WorkResumed, Idling
  <1>9. WorkSynced' /\ WorkListed'
    BY <1>1, <1>2, <1>5 DEF WorkInv, WorkSynced, WorkListed
  <1> QED  BY <1>6, <1>7, <1>8, <1>9 DEF WorkInv

LEMMA WorkInsert ==
    ASSUME WorkInv, WorkQueueAssumption, ResumeInsert
    PROVE  WorkInv'
  <1> USE WorkFacts
  <1>1. /\ pc[Me] = "insert" /\ k' = InsertThread(k, Worker)
        /\ pc' = [pc EXCEPT ![Me] = "pend"]
        /\ wl' = wl /\ UNCHANGED <<works, current, pending, ended>>
    BY DEF ResumeInsert, wqVars, At, Goto
  <1>2. /\ k.stat[Worker] = "SUSPEND" /\ Me # Worker /\ k.stat[Me] = "RUNNING" /\ Idling
        /\ works # << >> /\ current = NoWork /\ k.tmr = {}
        /\ \A t \in Thread : Resuming(t) => t = Me
    BY <1>1 DEF WorkInv, WorkResumed, Resuming, WorkPlaces, WorkKernel, Idling, WorkerPhase
  <1>3. k' = Resume(k, Worker)
    <2>1. [k EXCEPT !.err[Worker] = k.err[Worker], !.tmr = k.tmr \ {Worker}] = k
      BY <1>2, Zenon DEF KernelState
    <2> QED  BY <1>1, <1>2, <2>1 DEF Resume, Wake
  <1>4. /\ k' \in KernelState /\ KernelOK(k') /\ k'.cur = k.cur /\ k'.prio = k.prio
        /\ k'.lock = k.lock /\ k'.tmr = k.tmr \ {Worker}
        /\ k'.stat = [k.stat EXCEPT ![Worker] = IF Worker = k.cur THEN "RUNNING" ELSE "READY"]
    BY <1>2, <1>3, ResumeEffect
  <1>5. /\ Me' = Me /\ k'.stat[Worker] = "READY"
        /\ \A t \in Thread \ {Worker} : k'.stat[t] = k.stat[t]
    BY <1>2, <1>4 DEF Me
  <1>6. /\ \A t \in Thread : pc'[t] = IF t = Me THEN "pend" ELSE pc[t]
        /\ \A t \in Thread : ~ Resuming(t)'
        /\ Idling' <=> Idling
    BY <1>1, <1>2 DEF Resuming, Idling
  <1>7. WorkTypes'
    BY <1>1 DEF WorkInv, WorkTypes, WorkPc
  <1>8. WorkKernel' /\ WorkLists' /\ WorkPlaces'
    BY <1>1, <1>2, <1>4, <1>5, <1>6 DEF WorkInv, WorkKernel, WorkLists, WorkPlaces
  <1>9. WorkerPhase' /\ WorkResumed'
    BY <1>1, <1>2, <1>4, <1>5, <1>6 DEF WorkInv, WorkerPhase, WorkResumed, Idling
  <1>10. WorkSynced' /\ WorkListed'
    BY <1>1, <1>2, <1>6 DEF WorkInv, WorkSynced, WorkListed
  <1> QED  BY <1>7, <1>8, <1>9, <1>10 DEF WorkInv

\* The acknowledgement of a run, with the scheduler locked.
LEMMA WorkAckBegin ==
    ASSUME WorkInv, WorkQueueAssumption, AckBegin
    PROVE  WorkInv'
  <1> USE WorkFacts
  <1>1. /\ Me = Worker /\ pc[Me] = "done" /\ k' = EnterCritical(k)
        /\ pc' = [pc EXCEPT ![Me] = "ack"]
        /\ wl' = wl /\ UNCHANGED <<works, current, pending, ended>>
    BY DEF AckBegin, wqVars, At, Goto
  <1>2. k.stat[Worker] = "RUNNING" /\ k.lock = 0
    BY <1>1 DEF WorkInv, WorkKernel
  <1>3. /\ k' \in KernelState /\ KernelOK(k') /\ k'.cur = k.cur /\ k'.prio = k.prio
        /\ k'.stat = k.stat /\ k'.tmr = k.tmr /\ k'.lock = 1
    BY <1>1, <1>2, EnterCriticalEffect
  <1>4. Me' = Me /\ \A t \in Thread : pc'[t] = IF t = Worker THEN "ack" ELSE pc[t]
    BY <1>1, <1>3 DEF Me
  <1>5. WorkTypes'
    BY <1>1 DEF WorkInv, WorkTypes, WorkPc
  <1>6. WorkKernel' /\ WorkLists' /\ WorkPlaces'
    BY <1>1, <1>2, <1>3, <1>4 DEF WorkInv, WorkKernel, WorkLists, WorkPlaces
  <1>7. WorkerPhase' /\ WorkResumed'
    BY <1>1, <1>2, <1>3, <1>4 DEF WorkInv, WorkerPhase, WorkResumed, Resuming, Idling
  <1>8. WorkSynced' /\ WorkListed'
    BY <1>1, <1>4 DEF WorkInv, WorkSynced, WorkListed
  <1> QED  BY <1>5, <1>6, <1>7, <1>8 DEF WorkInv

LEMMA WorkAckRelease ==
    ASSUME WorkInv, WorkQueueAssumption, AckRelease
    PROVE  WorkInv'
  <1> USE WorkFacts
  <1> DEFINE q == wl["sync"]
             h == Head(q)
  <1>1. /\ pc[Me] = "ack" /\ q # << >> /\ k' = Resume(k, h)
        /\ wl' = [wl EXCEPT !["sync"] = Tail(q)]
        /\ pc' = pc /\ UNCHANGED <<works, current, pending, ended>>
    BY DEF AckRelease, wqVars, At, ResumeFirst, Popped
  <1>2. /\ h \in App /\ h \in ToSet(q) /\ Tail(q) \in Seq(App) /\ Distinct(Tail(q))
        /\ ToSet(Tail(q)) = ToSet(q) \ {h}
    BY <1>1, HeadTailList DEF WorkInv, WorkLists
  <1>3. Me = Worker /\ k.stat[Worker] = "RUNNING" /\ current = NoWork
    BY <1>1 DEF WorkInv, WorkPlaces, WorkKernel
  <1>4. h # Worker /\ k.stat[h] = "SUSPEND" /\ h # Idle /\ k.tmr = {}
    BY <1>2, <1>3 DEF WorkInv, WorkLists, WorkKernel, WorkerPhase
  <1>5. /\ wl' \in [WaitList -> Seq(App)] /\ wl'["sync"] = Tail(q)
        /\ \A l \in WaitList \ {"sync"} : wl'[l] = wl[l]
    BY <1>1, <1>2 DEF WorkInv, WorkLists
  <1> HIDE DEF h, q
  <1>6. /\ k' \in KernelState /\ KernelOK(k') /\ k'.cur = k.cur /\ k'.prio = k.prio
        /\ k'.lock = k.lock /\ k'.tmr = k.tmr \ {h}
        /\ k'.stat = [k.stat EXCEPT ![h] = IF h = k.cur THEN "RUNNING" ELSE "READY"]
    BY <1>1, <1>2, <1>4, ResumeEffect
  <1>7. /\ Me' = Me /\ k'.tmr = {} /\ k'.stat[h] = "READY"
        /\ \A t \in Thread \ {h} : k'.stat[t] = k.stat[t]
    BY <1>2, <1>3, <1>4, <1>6 DEF Me
  <1>8. WorkLists'
    <2>1. \A t \in Thread : t \in ToSet(wl'["sync"]) <=> t \in ToSet(wl["sync"]) /\ t # h
      BY <1>2, <1>5 DEF q
    <2>2. /\ \A t \in Thread \ {Worker} : t \in ToSet(wl["sync"]) <=> k.stat[t] = "SUSPEND"
          /\ Worker \notin ToSet(wl["sync"])
          /\ \A t \in ToSet(wl["sync"]) : pc[t] = "synced"
      BY DEF WorkInv, WorkLists
    <2>3. ToSet(wl'["sync"]) \subseteq ToSet(wl["sync"])
      BY <1>2, <1>5 DEF q
    <2>4. \A l \in WaitList \ {"sync"} : wl'[l] = << >>
      BY <1>5 DEF WorkInv, WorkLists
    <2> QED  BY <1>1, <1>2, <1>5, <1>7, <2>1, <2>2, <2>3, <2>4 DEF WorkLists
  <1>9. WorkTypes' /\ WorkKernel' /\ WorkPlaces'
    BY <1>1, <1>3, <1>4, <1>6, <1>7 DEF WorkInv, WorkTypes, WorkKernel, WorkPlaces
  <1>10. WorkerPhase' /\ WorkResumed' /\ WorkListed'
    BY <1>1, <1>3, <1>4, <1>7
       DEF WorkInv, WorkerPhase, WorkResumed, WorkListed, Resuming, Idling
  <1>11. WorkSynced'
    BY <1>1, <1>3 DEF WorkInv, WorkSynced
  <1> QED  BY <1>8, <1>9, <1>10, <1>11 DEF WorkInv

LEMMA WorkAckEnd ==
    ASSUME WorkInv, WorkerFirst, WorkQueueAssumption, AckEnd
    PROVE  WorkInv'
  <1> USE WorkFacts
  <1> DEFINE m == ExitCritical(k)
  <1>1. /\ pc[Me] = "ack" /\ wl["sync"] = << >> /\ k' = Schedule(m)
        /\ pc' = [pc EXCEPT ![Me] = "run"]
        /\ wl' = wl /\ UNCHANGED <<works, current, pending, ended>>
    BY DEF AckEnd, wqVars, At, Goto
  <1>2. Me = Worker /\ k.stat[Worker] = "RUNNING" /\ k.lock = 1 /\ k.tmr = {}
        /\ k.prio = BasePrio /\ k.stat[Idle] \in {"READY", "RUNNING"}
    BY <1>1 DEF WorkInv, WorkPlaces, WorkKernel, WorkerPhase
  <1>3. /\ m \in KernelState /\ KernelOK(m) /\ m.cur = k.cur /\ m.prio = k.prio
        /\ m.stat = k.stat /\ m.tmr = k.tmr /\ m.lock = 0
    BY <1>2, ExitCriticalEffect
  <1> HIDE DEF m
  <1>4. m.prio = BasePrio /\ m.stat[Idle] \in {"READY", "RUNNING"} /\ m.stat[Worker] = "RUNNING"
    BY <1>2, <1>3
  <1>5. /\ k' \in KernelState /\ KernelOK(k') /\ k'.prio = BasePrio /\ k'.lock = 0
        /\ k'.tmr = m.tmr /\ k'.stat[Idle] \in {"READY", "RUNNING"}
        /\ k'.cur = Worker /\ k'.stat[k'.cur] = "RUNNING"
        /\ \A t \in Thread : k'.stat[t] = "SUSPEND" <=> m.stat[t] = "SUSPEND"
    BY <1>1, <1>3, <1>4, WorkSwitch
  <1>6. /\ Me' = Worker /\ k'.tmr = {} /\ k'.stat[Worker] = "RUNNING"
        /\ \A t \in Thread : k'.stat[t] = "SUSPEND" <=> k.stat[t] = "SUSPEND"
    BY <1>2, <1>3, <1>5 DEF Me
  <1>7. \A t \in Thread : pc'[t] = IF t = Worker THEN "run" ELSE pc[t]
    BY <1>1, <1>2
  <1>8. WorkTypes'
    BY <1>1 DEF WorkInv, WorkTypes, WorkPc
  <1>9. WorkKernel'
    BY <1>5, <1>6, <1>7 DEF WorkKernel
  <1>10. WorkLists'
    BY <1>1, <1>6, <1>7 DEF WorkInv, WorkLists
  <1>11. WorkPlaces'
    BY <1>1, <1>2, <1>7 DEF WorkInv, WorkPlaces
  <1>12. WorkerPhase' /\ WorkResumed'
    BY <1>1, <1>2, <1>6, <1>7 DEF WorkInv, WorkerPhase, WorkResumed, Resuming, Idling
  <1>13. WorkSynced' /\ WorkListed'
    BY <1>1 DEF WorkInv, WorkSynced, WorkListed
  <1> QED  BY <1>8, <1>9, <1>10, <1>11, <1>12, <1>13 DEF WorkInv

\* rt_workqueue_cancel_work_sync of the running work.
LEMMA WorkCancelSync ==
    ASSUME WorkInv, WorkerFirst, WorkQueueAssumption, Serial, CancelSync
    PROVE  WorkInv'
  <1> USE WorkFacts
  <1> DEFINE q == wl["sync"]
             m == SuspendOn(k, Me, "forever")
  <1>1. /\ Using /\ Me # Worker /\ current # NoWork
        /\ pending' = pending \ {current}
        /\ wl' = [wl EXCEPT !["sync"] = Append(q, Me)]
        /\ ended' = [ended EXCEPT ![Me] = FALSE]
        /\ k' = Schedule(m) /\ pc' = [pc EXCEPT ![Me] = "synced"]
        /\ works' = works /\ current' = current
    BY DEF CancelSync, Goto
  <1>2. /\ ~ Idling /\ pc[Me] = "run" /\ Me \in App
        /\ k.stat[Worker] = "SUSPEND" /\ pc[Worker] \in {"work", "dozing"}
        /\ \A t \in Thread : ~ Resuming(t)
    BY <1>1, WorkUser
  <1>3. /\ k.stat[Me] = "RUNNING" /\ k.lock = 0 /\ k.prio = BasePrio /\ Me # Idle
        /\ k.stat[Idle] \in {"READY", "RUNNING"} /\ k.tmr \subseteq {Worker}
    BY <1>1, <1>2 DEF WorkInv, WorkKernel
  <1>4. /\ m \in KernelState /\ KernelOK(m) /\ m.cur = k.cur /\ m.prio = BasePrio /\ m.lock = 0
        /\ m.stat = [k.stat EXCEPT ![Me] = "SUSPEND"] /\ m.tmr = k.tmr
    <2>1. k.stat[Me] \in {"READY", "RUNNING"} /\ "forever" \in Wait
      BY <1>3 DEF Wait
    <2>2. /\ m \in KernelState /\ KernelOK(m) /\ m.cur = k.cur /\ m.prio = k.prio
          /\ m.lock = k.lock /\ m.stat = [k.stat EXCEPT ![Me] = "SUSPEND"]
      BY <2>1, SuspendOnEffect
    <2>3. m.tmr = IF "forever" = "limited" THEN k.tmr \cup {Me} ELSE k.tmr \ {Me}
      BY <2>1, SuspendOnTimer, Zenon
    <2> HIDE DEF m
    <2> QED  BY <1>1, <1>3, <2>2, <2>3
  <1> HIDE DEF m
  <1>5. m.stat[Idle] \in {"READY", "RUNNING"} /\ m.stat[Worker] = "SUSPEND"
    BY <1>1, <1>2, <1>3, <1>4
  <1>6. /\ k' \in KernelState /\ KernelOK(k') /\ k'.prio = BasePrio /\ k'.lock = 0
        /\ k'.tmr = k.tmr /\ k'.stat[Idle] \in {"READY", "RUNNING"}
        /\ k'.cur # Worker /\ k'.stat[k'.cur] = "RUNNING" /\ k'.stat[Worker] = "SUSPEND"
        /\ \A t \in Thread : k'.stat[t] = "SUSPEND" <=> k.stat[t] = "SUSPEND" \/ t = Me
    <2>1. /\ k' \in KernelState /\ KernelOK(k') /\ k'.prio = BasePrio /\ k'.lock = 0
          /\ k'.tmr = m.tmr /\ k'.stat[Idle] \in {"READY", "RUNNING"}
          /\ k'.stat[k'.cur] = "RUNNING"
          /\ \A t \in Thread : k'.stat[t] = "SUSPEND" <=> m.stat[t] = "SUSPEND"
          /\ k'.cur # Worker /\ k'.stat[Worker] = m.stat[Worker]
      BY <1>1, <1>4, <1>5, WorkSwitch
    <2> QED  BY <1>4, <1>5, <2>1
  <1>7. Me' # Worker /\ Me' = k'.cur
    BY <1>6 DEF Me
  <1>8. \A t \in Thread : pc'[t] = IF t = Me THEN "synced" ELSE pc[t]
    BY <1>1
  <1>9. /\ Append(q, Me) \in Seq(App) /\ ToSet(Append(q, Me)) = ToSet(q) \cup {Me}
        /\ Distinct(Append(q, Me))
    <2>1. Me \notin ToSet(q) /\ Distinct(q)
      BY <1>1, <1>3 DEF WorkInv, WorkLists
    <2> QED  BY <1>2, <2>1, AppendList
  <1>10. /\ wl' \in [WaitList -> Seq(App)] /\ wl'["sync"] = Append(q, Me)
         /\ \A l \in WaitList \ {"sync"} : wl'[l] = wl[l]
    BY <1>1, <1>9 DEF WorkInv, WorkLists
  <1>11. WorkLists'
    BY <1>1, <1>2, <1>6, <1>8, <1>9, <1>10 DEF WorkInv, WorkLists
  <1>12. WorkTypes'
    BY <1>1 DEF WorkInv, WorkTypes, WorkPc
  <1>13. WorkKernel' /\ WorkPlaces'
    BY <1>1, <1>2, <1>3, <1>6, <1>7, <1>8 DEF WorkInv, WorkKernel, WorkPlaces
  <1>14. WorkerPhase' /\ WorkResumed'
    BY <1>1, <1>2, <1>6, <1>7, <1>8 DEF WorkInv, WorkerPhase, WorkResumed, Resuming, Idling
  <1>15. WorkSynced'
    <2>1. ToSet(q) \subseteq ToSet(wl'["sync"]) /\ Me \in ToSet(wl'["sync"])
      BY <1>9, <1>10
    <2> QED  BY <1>1, <2>1 DEF WorkInv, WorkSynced, WorkTypes
  <1>16. WorkListed'
    BY <1>1 DEF WorkInv, WorkListed
  <1> QED  BY <1>11, <1>12, <1>13, <1>14, <1>15, <1>16 DEF WorkInv

\* No step breaks the invariant.
LEMMA WorkKeeps ==
    ASSUME WorkInv, WorkerFirst, WorkQueueAssumption, Serial, [WqNext]_wqSpecVars
    PROVE  WorkInv'
  <1>1. CASE (\E t \in Thread : Startup(t)) /\ Me # Worker /\ UNCHANGED wqVars
    BY <1>1, WorkStartup
  <1>2. CASE /\ (\E t \in Thread : TickTimeout(t)) \/ TickYield \/ CallSchedule
             /\ UNCHANGED wqVars
    BY <1>2, WorkTimeout, WorkSchedules
  <1>3. CASE \/ WorkerLook \/ WorkerTake \/ WorkEnd \/ ResumeTest \/ SyncReturn
    BY <1>3, WorkLook, WorkTake, WorkEnds, WorkResumeTest, WorkSyncReturn
  <1>4. CASE \/ WorkerSleep \/ WorkDoze \/ WorkerSuspend
             \/ \E time \in Wait : WorkSuspend(time)
    BY <1>4, WorkSchedules, WorkSuspends
  <1>5. CASE \/ IsrWakesWork \/ AckBegin \/ AckRelease \/ AckEnd \/ CancelSync
             \/ ResumeUnlink \/ ResumeInsert
    BY <1>5, WorkIsrWakes, WorkAckBegin, WorkAckRelease, WorkAckEnd, WorkCancelSync,
       WorkUnlink, WorkInsert
  <1>6. ASSUME NEW w \in Work, SubmitWork(w) \/ CriticalWork(w) \/ CancelWork(w)
        PROVE  WorkInv'
    <2>1. \/ CancelWork(w)
          \/ Enqueue(w) /\ (pending' = pending \/ pending' = pending \cup {w})
      BY <1>6 DEF SubmitWork, CriticalWork
    <2> QED  BY <2>1, WorkEnqueue, WorkCancel
  <1>7. CASE UNCHANGED wqSpecVars
    BY <1>7
       DEF wqSpecVars, ipcVars, wqVars, WorkInv, WorkTypes, WorkKernel, WorkLists, WorkPlaces,
           WorkerPhase, WorkResumed, WorkSynced, WorkListed, Resuming, Idling, Me
  <1>8. Wait = Wait
    OBVIOUS
  <1> QED  BY <1>1, <1>2, <1>3, <1>4, <1>5, <1>6, <1>7, <1>8 DEF WqNext

LEMMA WorkInvInit ==
    ASSUME WqInit, WorkQueueAssumption
    PROVE  WorkInv
  <1> USE KernelAssumption, SectionsAssumption
  <1>1. IpcInit /\ works = << >> /\ current = NoWork /\ pending = {}
        /\ ended = [t \in Thread |-> TRUE]
    BY DEF WqInit, IpcInit, SectionsInit, Prio, NoCall
  <1>2. k \in KernelState /\ KernelOK(k) /\ Me = Idle /\ k.lock = 0 /\ k.tmr = {}
        /\ k.prio = BasePrio
        /\ k.stat = [t \in Thread |-> IF t = Idle THEN "RUNNING" ELSE "INIT"]
    BY <1>1
       DEF IpcInit, SectionsInit, KernelState, KernelOK, ReadyListed, ReadyDistinct, GroupExact, OneRunning,
           Distinct, Stat, Err, Me, ToSet
  <1>3. /\ wl \in [WaitList -> Seq(App)] /\ \A l \in WaitList : wl[l] = << >>
        /\ ToSet(<< >>) = {} /\ Distinct(<< >>)
        /\ pc = [t \in Thread |-> "run"]
    BY <1>1 DEF IpcInit, SectionsInit, ToSet, Distinct
  <1>4. Worker \in Thread \ {Idle} /\ "sync" \in WaitList /\ NoWork \notin Work
    BY DEF WorkQueueAssumption, App
  <1>5. WorkTypes /\ WorkListed
    BY <1>1, <1>3 DEF WorkTypes, WorkPc, WorkListed
  <1>6. WorkKernel /\ WorkLists /\ WorkPlaces
    BY <1>1, <1>2, <1>3, <1>4 DEF WorkKernel, WorkLists, WorkPlaces
  <1>7. WorkerPhase /\ WorkResumed /\ WorkSynced
    BY <1>1, <1>2, <1>3, <1>4 DEF WorkerPhase, WorkResumed, WorkSynced, Resuming, Idling
  <1> QED  BY <1>5, <1>6, <1>7 DEF WorkInv

LEMMA WorkInvImplies ==
    ASSUME WorkInv, WorkQueueAssumption
    PROVE  WqHasWork /\ WqAccounted /\ WqNoneStranded /\ WqConsistent
  <1> USE WorkFacts
  <1>1. Me = Me /\ \A s : ToSet(s) = ToSet(s) /\ (Distinct(s) <=> Distinct(s))
    OBVIOUS
  <1>2. WqHasWork
    BY <1>1 DEF WqHasWork, WorkInv, WorkKernel, WorkerPhase, Idling
  <1>3. WqAccounted
    BY <1>1 DEF WqAccounted, WorkInv, WorkListed, WorkSynced, WorkLists, WorkTypes
  <1>4. WqNoneStranded
    BY DEF WqNoneStranded, Submitting, WorkInv, WorkerPhase, WorkSynced, Resuming, Idling
  <1>5. WqTypeOK
    BY <1>1
       DEF WqTypeOK, IpcTypeOK, WorkInv, WorkTypes, WorkPc, WorkKernel, WorkLists
  <1>6. /\ KernelConsistent /\ ReadyDistinct(k) /\ GroupExact(k) /\ OneRunning(k)
    BY DEF KernelConsistent, KernelOK
  <1>7. \A t \in Thread : Waiting(t) => k.stat[t] = "SUSPEND" /\ pc[t] = "synced"
    <2> SUFFICES ASSUME NEW t \in Thread, NEW l \in WaitList, t \in ToSet(wl[l])
                 PROVE  k.stat[t] = "SUSPEND" /\ pc[t] = "synced"
      BY DEF Waiting
    <2>1. l = "sync"
      BY EmptyList DEF WorkInv, WorkLists
    <2> QED  BY <2>1 DEF WorkInv, WorkLists
  <1> QED  BY <1>2, <1>3, <1>4, <1>5, <1>6, <1>7 DEF WqConsistent

=============================================================================
