---------------------------- MODULE QueueProofs ----------------------------
(***************************************************************************)
(* The safety of the mailbox and the message queue for any number of       *)
(* threads, priorities, messages and slots, either flag.                   *)
(***************************************************************************)
EXTENDS MCQueues, IpcProofs

-----------------------------------------------------------------------------
(* The mailbox *)

\* The types of the object, and where the input offset stands.
MailboxData ==
    /\ pc \in [Thread -> IpcPc]
    /\ call \in [Thread -> Calls]
    /\ pool \in [0 .. Size - 1 -> Message \cup {Nothing}]
    /\ entry \in 0 .. Size
    /\ in_offset \in 0 .. Size - 1 /\ out_offset \in 0 .. Size - 1
    /\ received \in Message \cup {Nothing}

InPlace ==
    in_offset = IF out_offset + entry < Size THEN out_offset + entry
                ELSE out_offset + entry - Size

\* The inductive invariant.
MailboxInv == IpcInv /\ MailboxData /\ InPlace /\ NoStrandedWaiter

\* The mailbox's own words for those on their way.
LEMMA StrandedForm ==
    NoStrandedWaiter <=>
        /\ wl["recv"] # << >> => entry <= Cardinality(OnTheirWay("recv"))
        /\ wl["send"] # << >> => Size - entry <= Cardinality(OnTheirWay("send"))
  BY DEF NoStrandedWaiter, OnTheirWay

LEMMA StrandedFormNext ==
    NoStrandedWaiter' <=>
        /\ wl'["recv"] # << >> => entry' <= Cardinality(OnTheirWay("recv")')
        /\ wl'["send"] # << >> => Size - entry' <= Cardinality(OnTheirWay("send")')
  BY DEF NoStrandedWaiter, OnTheirWay

\* The values of the call of a thread that sends or receives.
LEMMA MailboxTypes ==
    ASSUME MailboxInv
    PROVE  /\ IpcInv /\ Me \in Thread /\ DOMAIN pc = Thread /\ DOMAIN call = Thread
           /\ Size \in Nat \ {0} /\ entry \in Nat /\ entry <= Size
           /\ WaitList = {"recv", "send"} /\ NoCall \in Calls
           /\ {"run", "pend", "blocked", "wait", "reset"} = IpcPc
  BY IpcTypes, MailboxAssumption DEF MailboxInv, MailboxData, Calls, IpcPc

\* Sections that leave the mailbox alone and wake nobody with RT_EOK.
LEMMA MailboxRests ==
    ASSUME MailboxInv, IpcInv', UNCHANGED mbVars,
           pc' \in [Thread -> IpcPc], call' \in [Thread -> Calls],
           \A l \in WaitList : wl[l] = << >> => wl'[l] = << >>,
           \A o : OnTheirWay(o)' = OnTheirWay(o)
    PROVE  MailboxInv'
  <1>1. MailboxData' /\ InPlace'
    BY DEF MailboxInv, MailboxData, InPlace, mbVars
  <1>2. wl["recv"] = << >> => wl'["recv"] = << >>
    BY MailboxTypes
  <1>3. wl["send"] = << >> => wl'["send"] = << >>
    BY MailboxTypes
  <1>4. NoStrandedWaiter'
    BY <1>2, <1>3, StrandedForm, StrandedFormNext DEF MailboxInv, mbVars
  <1> QED  BY <1>1, <1>4 DEF MailboxInv

LEMMA MailboxIpcStep ==
    ASSUME MailboxInv, IpcStep, UNCHANGED mbVars
    PROVE  MailboxInv'
  <1> USE MailboxTypes
  <1>1. ASSUME NEW t \in Thread, Startup(t) PROVE MailboxInv'
    BY <1>1, StartupSection, MailboxRests DEF Startup, MailboxInv, MailboxData
  <1>2. ASSUME NEW t \in Thread, TickTimeout(t) PROVE MailboxInv'
    BY <1>2, TickTimeoutSection, MailboxRests DEF TickTimeout, MailboxInv, MailboxData
  <1>3. CASE CallSchedule
    <2>1. /\ k' = Schedule(k) /\ UNCHANGED <<wl, call>> /\ pc[Me] \in {"pend", "blocked"}
          /\ pc' = [pc EXCEPT ![Me] = IF pc[Me] = "pend" THEN "run" ELSE "wait"]
      BY <1>3 DEF CallSchedule, Goto, At
    <2>2. \A t \in Thread : pc'[t] \in {"blocked", "wait"} <=> pc[t] \in {"blocked", "wait"}
      BY <2>1 DEF MailboxInv, MailboxData
    <2>3. IpcInv' /\ \A o : OnTheirWay(o)' = OnTheirWay(o)
      BY <2>1, <2>2, ScheduleSection
    <2>4. pc' \in [Thread -> IpcPc] /\ call' \in [Thread -> Calls]
      BY <2>1 DEF MailboxInv, MailboxData
    <2> QED  BY <2>1, <2>3, <2>4, MailboxRests
  <1>4. CASE WaitFailed
    <2>1. /\ pc[Me] = "wait" /\ k.err[Me] # "EOK" /\ UNCHANGED <<k, wl>>
          /\ pc' = [pc EXCEPT ![Me] = "run"] /\ call' = [call EXCEPT ![Me] = NoCall]
      BY <1>4 DEF WaitFailed, EndCall, Goto, At
    <2>2. k' = [k EXCEPT !.err[Me] = k.err[Me]] /\ k.err[Me] \in Err
      BY <2>1, IpcTypes DEF KernelState
    <2>3. pc'[Me] = "run" /\ \A t \in Thread \ {Me} : pc'[t] = pc[t] /\ call'[t] = call[t]
      BY <2>1
    <2>4. IpcInv' /\ \A o : OnTheirWay(o)' = OnTheirWay(o) \ {Me}
      BY <2>1, <2>2, <2>3, QuietSection
    <2>5. \A o : Me \notin OnTheirWay(o)
      BY <2>1, WayMember
    <2>6. pc' \in [Thread -> IpcPc] /\ call' \in [Thread -> Calls]
      BY <2>1 DEF MailboxInv, MailboxData
    <2>7. \A o : OnTheirWay(o)' = OnTheirWay(o)
      BY <2>4, <2>5
    <2> QED  BY <2>1, <2>4, <2>6, <2>7, MailboxRests
  <1>5. CASE TickYield
    BY <1>5, ScheduleSection, MailboxRests DEF TickYield, MailboxInv, MailboxData
  <1> QED  BY <1>1, <1>2, <1>3, <1>4, <1>5 DEF IpcStep

\* The ring after a message went in, and after one went out.
LEMMA StoreData ==
    ASSUME MailboxInv, NEW v \in Message, Store(v),
           pc' \in [Thread -> IpcPc], call' \in [Thread -> Calls]
    PROVE  MailboxData' /\ InPlace' /\ entry' = entry + 1
  <1> USE MailboxTypes
  <1>1. /\ entry < Size /\ entry' = entry + 1 /\ UNCHANGED <<out_offset, received>>
        /\ in_offset' = IF in_offset + 1 >= Size THEN 0 ELSE in_offset + 1
        /\ pool' = [pool EXCEPT ![in_offset] = v]
    BY DEF Store, Advance
  <1>2. in_offset' \in 0 .. Size - 1 /\ InPlace'
    BY <1>1 DEF MailboxInv, MailboxData, InPlace
  <1> QED  BY <1>1, <1>2 DEF MailboxInv, MailboxData

LEMMA FetchData ==
    ASSUME MailboxInv, Fetch,
           pc' \in [Thread -> IpcPc], call' \in [Thread -> Calls]
    PROVE  MailboxData' /\ InPlace' /\ entry' = entry - 1
  <1> USE MailboxTypes
  <1>1. /\ entry > 0 /\ entry' = entry - 1 /\ UNCHANGED <<pool, in_offset>>
        /\ out_offset' = IF out_offset + 1 >= Size THEN 0 ELSE out_offset + 1
        /\ received' = pool[out_offset]
    BY DEF Fetch, Advance
  <1>2. out_offset' \in 0 .. Size - 1 /\ InPlace'
    BY <1>1 DEF MailboxInv, MailboxData, InPlace
  <1> QED  BY <1>1, <1>2 DEF MailboxInv, MailboxData

\* A call of a thread changes its own place only.
LEMMA OwnCall ==
    ASSUME MailboxInv, NEW l \in IpcPc, EndCall(l)
    PROVE  /\ pc' \in [Thread -> IpcPc] /\ call' \in [Thread -> Calls]
           /\ pc'[Me] = l
           /\ \A t \in Thread \ {Me} : pc'[t] = pc[t] /\ call'[t] = call[t]
  BY MailboxTypes DEF EndCall, Goto, MailboxInv, MailboxData

\* rt_mb_send_wait with a free slot: a waiting receiver joins those on their
\* way to the message, and a sender leaves those on their way to the slot.
LEMMA SendStep ==
    ASSUME MailboxInv, NEW v \in Message, NEW time \in Wait, Send(SendCall(v, time))
    PROVE  MailboxInv'
  <1> USE MailboxTypes
  <1> DEFINE c == SendCall(v, time)
             R == OnTheirWay("recv")
             S == OnTheirWay("send")
  <1>1. Testing(c) /\ Store(v) /\ ThreadWakes("recv") /\ c.op = "send"
    BY DEF Send, SendCall
  <1>2. /\ pc' \in [Thread -> IpcPc] /\ call' \in [Thread -> Calls]
        /\ \A t \in Thread \ {Me} : pc'[t] = pc[t] /\ call'[t] = call[t]
    BY <1>1, OwnCall DEF ThreadWakes
  <1>3. MailboxData' /\ InPlace' /\ entry' = entry + 1
    BY <1>1, <1>2, StoreData
  <1>4. pc[Me] \notin {"pend", "blocked", "reset"} /\ R \ {Me} = R
    BY <1>1, TesterElsewhere DEF Testing, Calling, Retrying, At
  <1> HIDE DEF c
  <1>5. /\ IpcInv' /\ wl'["send"] = wl["send"]
        /\ wl["recv"] = << >> => /\ wl'["recv"] = << >>
                                 /\ OnTheirWay("send")' = S \ {Me}
        /\ wl["recv"] # << >> =>
              \E h : /\ h \notin R /\ OnTheirWay("recv")' = (R \ {Me}) \cup {h}
                    /\ OnTheirWay("send")' = S \ {Me}
    BY <1>1, <1>2, <1>4, ThreadWakesSection
  <1>6. /\ Cardinality(R) \in Nat /\ Cardinality(S) \in Nat
        /\ Cardinality(S \ {Me}) \in Nat /\ Cardinality(S \ {Me}) >= Cardinality(S) - 1
        /\ \A h : h \notin R => Cardinality(R \cup {h}) = Cardinality(R) + 1
    BY WayCount
  <1>7. NoStrandedWaiter'
    <2>1. wl'["recv"] # << >> => Cardinality(OnTheirWay("recv")') = Cardinality(R) + 1
      BY <1>4, <1>5, <1>6
    <2>2. Cardinality(OnTheirWay("send")') = Cardinality(S \ {Me})
      BY <1>5
    <2>3. /\ wl["recv"] # << >> => entry <= Cardinality(R)
          /\ wl["send"] # << >> => Size - entry <= Cardinality(S)
      BY StrandedForm DEF MailboxInv
    <2> HIDE DEF R, S
    <2>4. wl'["recv"] # << >> => entry' <= Cardinality(OnTheirWay("recv")')
      BY <1>3, <1>5, <1>6, <2>1, <2>3
    <2>5. wl'["send"] # << >> => Size - entry' <= Cardinality(OnTheirWay("send")')
      <3>1. /\ entry' = entry + 1 /\ wl'["send"] = wl["send"]
            /\ Size \in Nat /\ entry \in Nat
        BY <1>3, <1>5
      <3> QED  BY ONLY <3>1, <1>6, <2>2, <2>3
    <2> QED  BY <2>4, <2>5, StrandedFormNext
  <1> QED  BY <1>3, <1>5, <1>7 DEF MailboxInv

\* rt_mb_recv with a message: the other way round.
LEMMA RecvStep ==
    ASSUME MailboxInv, NEW time \in Wait, Recv(RecvCall(time))
    PROVE  MailboxInv'
  <1> USE MailboxTypes
  <1> DEFINE c == RecvCall(time)
             R == OnTheirWay("send")
             S == OnTheirWay("recv")
  <1>1. Testing(c) /\ Fetch /\ ThreadWakes("send") /\ c.op = "recv"
    BY DEF Recv, RecvCall
  <1>2. /\ pc' \in [Thread -> IpcPc] /\ call' \in [Thread -> Calls]
        /\ \A t \in Thread \ {Me} : pc'[t] = pc[t] /\ call'[t] = call[t]
    BY <1>1, OwnCall DEF ThreadWakes
  <1>3. MailboxData' /\ InPlace' /\ entry' = entry - 1
    BY <1>1, <1>2, FetchData
  <1>4. pc[Me] \notin {"pend", "blocked", "reset"} /\ R \ {Me} = R
    BY <1>1, TesterElsewhere DEF Testing, Calling, Retrying, At
  <1> HIDE DEF c
  <1>5. /\ IpcInv' /\ wl'["recv"] = wl["recv"]
        /\ wl["send"] = << >> => /\ wl'["send"] = << >>
                                 /\ OnTheirWay("recv")' = S \ {Me}
        /\ wl["send"] # << >> =>
              \E h : /\ h \notin R /\ OnTheirWay("send")' = (R \ {Me}) \cup {h}
                    /\ OnTheirWay("recv")' = S \ {Me}
    BY <1>1, <1>2, <1>4, ThreadWakesSection
  <1>6. /\ Cardinality(R) \in Nat /\ Cardinality(S) \in Nat
        /\ Cardinality(S \ {Me}) \in Nat /\ Cardinality(S \ {Me}) >= Cardinality(S) - 1
        /\ \A h : h \notin R => Cardinality(R \cup {h}) = Cardinality(R) + 1
    BY WayCount
  <1>7. NoStrandedWaiter'
    <2>1. wl'["send"] # << >> => Cardinality(OnTheirWay("send")') = Cardinality(R) + 1
      BY <1>4, <1>5, <1>6
    <2>2. Cardinality(OnTheirWay("recv")') = Cardinality(S \ {Me})
      BY <1>5
    <2>3. /\ wl["send"] # << >> => Size - entry <= Cardinality(R)
          /\ wl["recv"] # << >> => entry <= Cardinality(S)
      BY StrandedForm DEF MailboxInv
    <2> HIDE DEF R, S
    <2>4. wl'["send"] # << >> => Size - entry' <= Cardinality(OnTheirWay("send")')
      BY <1>3, <1>5, <1>6, <2>1, <2>3
    <2>5. wl'["recv"] # << >> => entry' <= Cardinality(OnTheirWay("recv")')
      <3>1. /\ entry' = entry - 1 /\ wl'["recv"] = wl["recv"]
            /\ Size \in Nat /\ entry \in Nat
        BY <1>3, <1>5
      <3> QED  BY ONLY <3>1, <1>6, <2>2, <2>3
    <2> QED  BY <2>4, <2>5, StrandedFormNext
  <1> QED  BY <1>3, <1>5, <1>7 DEF MailboxInv

\* A full mailbox keeps no sender from a slot, and an empty one no receiver from
\* a message.
LEMMA FullStranded ==
    ASSUME MailboxInv, entry = Size, entry' = entry, wl'["recv"] = wl["recv"],
           OnTheirWay("recv")' = OnTheirWay("recv")
    PROVE  NoStrandedWaiter'
  <1> USE MailboxTypes
  <1>1. Cardinality(OnTheirWay("send")') \in Nat
    <2>1. OnTheirWay("send")' \in SUBSET Thread
      BY DEF OnTheirWay, Woken
    <2> QED  BY <2>1, KernelAssumption, FS_Subset, FS_CardinalityType
  <1>2. wl["recv"] # << >> => entry <= Cardinality(OnTheirWay("recv"))
    BY StrandedForm DEF MailboxInv
  <1>3. Size - entry' = 0
    OBVIOUS
  <1>4. 0 <= Cardinality(OnTheirWay("send")')
    BY <1>1
  <1> QED  BY <1>2, <1>3, <1>4, StrandedFormNext

LEMMA EmptyStranded ==
    ASSUME MailboxInv, entry = 0, entry' = entry, wl'["send"] = wl["send"],
           OnTheirWay("send")' = OnTheirWay("send")
    PROVE  NoStrandedWaiter'
  <1> USE MailboxTypes
  <1>1. Cardinality(OnTheirWay("recv")') \in Nat
    <2>1. OnTheirWay("recv")' \in SUBSET Thread
      BY DEF OnTheirWay, Woken
    <2> QED  BY <2>1, KernelAssumption, FS_Subset, FS_CardinalityType
  <1>2. wl["send"] # << >> => Size - entry <= Cardinality(OnTheirWay("send"))
    BY StrandedForm DEF MailboxInv
  <1>3. 0 <= Cardinality(OnTheirWay("recv")')
    BY <1>1
  <1> QED  BY <1>2, <1>3, StrandedFormNext

\* A thread suspends itself on one of the lists.
LEMMA MailboxBlocks ==
    ASSUME MailboxInv, NEW l \in WaitList, NEW c \in Calls, c.op = l,
           NEW time \in Wait, Testing(c), UNCHANGED mbVars,
           Block(l, EnqueueWaiter(k, wl[l], Me, Flag), c, time)
    PROVE  /\ IpcInv' /\ MailboxData' /\ InPlace' /\ entry' = entry
           /\ \A j \in WaitList \ {l} : /\ wl'[j] = wl[j]
                                        /\ OnTheirWay(j)' = OnTheirWay(j)
  <1> USE MailboxTypes
  <1>1. pc \in [Thread -> IpcPc] /\ call \in [Thread -> Calls]
    BY DEF MailboxInv, MailboxData
  <1>2. /\ IpcInv' /\ \A o : OnTheirWay(o)' = OnTheirWay(o) \ {Me}
        /\ \A j \in WaitList \ {l} : wl'[j] = wl[j]
    BY <1>1, BlockSection
  <1>3. \A j \in WaitList \ {l} : OnTheirWay(j)' = OnTheirWay(j)
    BY <1>2, TesterElsewhere
  <1>4. pc' \in [Thread -> IpcPc] /\ call' \in [Thread -> Calls]
    BY <1>1 DEF Block, Goto
  <1>5. MailboxData' /\ InPlace' /\ entry' = entry
    BY <1>4 DEF mbVars, MailboxInv, MailboxData, InPlace
  <1> QED  BY <1>2, <1>3, <1>5

LEMMA SendBlockStep ==
    ASSUME MailboxInv, NEW v \in Message, NEW time \in Wait, SendBlock(SendCall(v, time))
    PROVE  MailboxInv'
  <1> USE MailboxTypes
  <1> DEFINE c == SendCall(v, time)
  <1>1. /\ c.op = "send" /\ c.time = time /\ c \in Calls /\ Testing(c) /\ entry = Size
        /\ UNCHANGED mbVars /\ Block("send", EnqueueWaiter(k, wl["send"], Me, Flag), c, c.time)
    BY DEF SendBlock, SendCall, Calls
  <1> HIDE DEF c
  <1>2. /\ IpcInv' /\ MailboxData' /\ InPlace' /\ entry' = entry
        /\ wl'["recv"] = wl["recv"] /\ OnTheirWay("recv")' = OnTheirWay("recv")
    BY <1>1, MailboxBlocks
  <1> QED  BY <1>1, <1>2, FullStranded DEF MailboxInv

LEMMA RecvBlockStep ==
    ASSUME MailboxInv, NEW time \in Wait, RecvBlock(RecvCall(time))
    PROVE  MailboxInv'
  <1> USE MailboxTypes
  <1> DEFINE c == RecvCall(time)
  <1>1. /\ c.op = "recv" /\ c.time = time /\ c \in Calls /\ Testing(c) /\ entry = 0
        /\ UNCHANGED mbVars /\ Block("recv", EnqueueWaiter(k, wl["recv"], Me, Flag), c, c.time)
    BY DEF RecvBlock, RecvCall, Calls
  <1> HIDE DEF c
  <1>2. /\ IpcInv' /\ MailboxData' /\ InPlace' /\ entry' = entry
        /\ wl'["send"] = wl["send"] /\ OnTheirWay("send")' = OnTheirWay("send")
    BY <1>1, MailboxBlocks
  <1> QED  BY <1>1, <1>2, EmptyStranded DEF MailboxInv

\* A time-out in a later round.
LEMMA MailboxExpires ==
    ASSUME MailboxInv, NEW o, NEW e \in Err, Expired(o, e), UNCHANGED mbVars
    PROVE  /\ IpcInv' /\ MailboxData' /\ InPlace' /\ entry' = entry /\ wl' = wl
           /\ \A j : j # o => OnTheirWay(j)' = OnTheirWay(j)
  <1> USE MailboxTypes
  <1>1. /\ pc[Me] = "wait" /\ call[Me].op = o /\ EndCall("run")
        /\ k' = [k EXCEPT !.err[Me] = e] /\ UNCHANGED wl
    BY DEF Expired, Retrying, At
  <1>2. /\ pc' \in [Thread -> IpcPc] /\ call' \in [Thread -> Calls] /\ pc'[Me] = "run"
        /\ \A t \in Thread \ {Me} : pc'[t] = pc[t] /\ call'[t] = call[t]
    BY <1>1, OwnCall
  <1>3. IpcInv' /\ \A j : OnTheirWay(j)' = OnTheirWay(j) \ {Me}
    BY <1>1, <1>2, QuietSection
  <1>4. \A j : j # o => Me \notin OnTheirWay(j)
    BY <1>1, WayMember
  <1>5. \A j : j # o => OnTheirWay(j)' = OnTheirWay(j)
    BY <1>3, <1>4
  <1>6. MailboxData' /\ InPlace' /\ entry' = entry
    BY <1>2 DEF mbVars, MailboxInv, MailboxData, InPlace
  <1> QED  BY <1>1, <1>3, <1>5, <1>6

LEMMA ExpiredStep ==
    ASSUME MailboxInv, SendExpired \/ RecvExpired
    PROVE  MailboxInv'
  <1> USE MailboxTypes
  <1>0. {"EOK", "ETIMEOUT"} \subseteq Err
    BY DEF Err
  <1>1. CASE SendExpired
    <2>1. entry = Size /\ Expired("send", "EOK") /\ UNCHANGED mbVars
      BY <1>1 DEF SendExpired
    <2>2. /\ IpcInv' /\ MailboxData' /\ InPlace' /\ entry' = entry /\ wl' = wl
          /\ OnTheirWay("recv")' = OnTheirWay("recv")
      BY <1>0, <2>1, MailboxExpires
    <2> QED  BY <2>1, <2>2, FullStranded DEF MailboxInv
  <1>2. CASE RecvExpired
    <2>1. entry = 0 /\ Expired("recv", "ETIMEOUT") /\ UNCHANGED mbVars
      BY <1>2 DEF RecvExpired
    <2>2. /\ IpcInv' /\ MailboxData' /\ InPlace' /\ entry' = entry /\ wl' = wl
          /\ OnTheirWay("send")' = OnTheirWay("send")
      BY <1>0, <2>1, MailboxExpires
    <2> QED  BY <2>1, <2>2, EmptyStranded DEF MailboxInv
  <1> QED  BY <1>1, <1>2

\* The interrupt handlers.
LEMMA IsrSendStep ==
    ASSUME MailboxInv, NEW v \in Message, IsrSend(v)
    PROVE  MailboxInv'
  <1> USE MailboxTypes
  <1> DEFINE R == OnTheirWay("recv")
             S == OnTheirWay("send")
  <1>1. Store(v) /\ IsrWakes("recv") /\ UNCHANGED <<pc, call>>
    BY DEF IsrSend, IsrWakes
  <1>2. MailboxData' /\ InPlace' /\ entry' = entry + 1
    BY <1>1, StoreData DEF MailboxInv, MailboxData
  <1>3. /\ IpcInv' /\ wl'["send"] = wl["send"]
        /\ wl["recv"] = << >> => /\ wl'["recv"] = << >>
                                 /\ OnTheirWay("send")' = S
        /\ wl["recv"] # << >> =>
              \E h : /\ h \notin R /\ OnTheirWay("recv")' = R \cup {h}
                     /\ OnTheirWay("send")' = S
    BY <1>1, IsrWakesSection
  <1>4. /\ Cardinality(R) \in Nat /\ Cardinality(S) \in Nat
        /\ \A h : h \notin R => Cardinality(R \cup {h}) = Cardinality(R) + 1
    BY WayCount
  <1>5. wl'["recv"] # << >> => Cardinality(OnTheirWay("recv")') = Cardinality(R) + 1
    BY <1>3, <1>4
  <1>6. Cardinality(OnTheirWay("send")') = Cardinality(S)
    BY <1>3
  <1>7. /\ wl["recv"] # << >> => entry <= Cardinality(R)
        /\ wl["send"] # << >> => Size - entry <= Cardinality(S)
    BY StrandedForm DEF MailboxInv
  <1> HIDE DEF R, S
  <1>8. wl'["recv"] # << >> => entry' <= Cardinality(OnTheirWay("recv")')
    BY <1>2, <1>3, <1>4, <1>5, <1>7
  <1>9. wl'["send"] # << >> => Size - entry' <= Cardinality(OnTheirWay("send")')
    <2>1. entry' = entry + 1 /\ wl'["send"] = wl["send"] /\ Size \in Nat /\ entry \in Nat
      BY <1>2, <1>3
    <2> QED  BY ONLY <2>1, <1>4, <1>6, <1>7
  <1> QED  BY <1>2, <1>3, <1>8, <1>9, StrandedFormNext DEF MailboxInv

LEMMA IsrRecvStep ==
    ASSUME MailboxInv, IsrRecv
    PROVE  MailboxInv'
  <1> USE MailboxTypes
  <1> DEFINE R == OnTheirWay("send")
             S == OnTheirWay("recv")
  <1>1. Fetch /\ IsrWakes("send") /\ UNCHANGED <<pc, call>>
    BY DEF IsrRecv, IsrWakes
  <1>2. MailboxData' /\ InPlace' /\ entry' = entry - 1
    BY <1>1, FetchData DEF MailboxInv, MailboxData
  <1>3. /\ IpcInv' /\ wl'["recv"] = wl["recv"]
        /\ wl["send"] = << >> => /\ wl'["send"] = << >>
                                 /\ OnTheirWay("recv")' = S
        /\ wl["send"] # << >> =>
              \E h : /\ h \notin R /\ OnTheirWay("send")' = R \cup {h}
                     /\ OnTheirWay("recv")' = S
    BY <1>1, IsrWakesSection
  <1>4. /\ Cardinality(R) \in Nat /\ Cardinality(S) \in Nat
        /\ \A h : h \notin R => Cardinality(R \cup {h}) = Cardinality(R) + 1
    BY WayCount
  <1>5. wl'["send"] # << >> => Cardinality(OnTheirWay("send")') = Cardinality(R) + 1
    BY <1>3, <1>4
  <1>6. Cardinality(OnTheirWay("recv")') = Cardinality(S)
    BY <1>3
  <1>7. /\ wl["send"] # << >> => Size - entry <= Cardinality(R)
        /\ wl["recv"] # << >> => entry <= Cardinality(S)
    BY StrandedForm DEF MailboxInv
  <1> HIDE DEF R, S
  <1>8. wl'["send"] # << >> => Size - entry' <= Cardinality(OnTheirWay("send")')
    BY <1>2, <1>3, <1>4, <1>5, <1>7
  <1>9. wl'["recv"] # << >> => entry' <= Cardinality(OnTheirWay("recv")')
    <2>1. entry' = entry - 1 /\ wl'["recv"] = wl["recv"] /\ Size \in Nat /\ entry \in Nat
      BY <1>2, <1>3
    <2> QED  BY ONLY <2>1, <1>4, <1>6, <1>7
  <1> QED  BY <1>2, <1>3, <1>8, <1>9, StrandedFormNext DEF MailboxInv

\* The reset: its sections before the last one, and the last.
LEMMA MailboxResetStep ==
    ASSUME MailboxInv, UNCHANGED mbVars,
           ResetBegin \/ \E l \in WaitList : ResetResume(l)
    PROVE  MailboxInv'
  <1> USE MailboxTypes
  <1>1. CASE ResetBegin
    <2>1. /\ pc[Me] = "run" /\ pc' = [pc EXCEPT ![Me] = "reset"] /\ UNCHANGED <<k, wl, call>>
      BY <1>1 DEF ResetBegin, Calling, At, Goto
    <2>2. k' = [k EXCEPT !.err[Me] = k.err[Me]] /\ k.err[Me] \in Err
      BY <2>1, IpcTypes DEF KernelState
    <2>3. pc'[Me] = "reset" /\ \A t \in Thread \ {Me} : pc'[t] = pc[t] /\ call'[t] = call[t]
      BY <2>1
    <2>4. IpcInv' /\ \A o : OnTheirWay(o)' = OnTheirWay(o) \ {Me}
      BY <2>1, <2>2, <2>3, QuietSection
    <2>5. \A o : Me \notin OnTheirWay(o)
      BY <2>1, WayMember
    <2>6. \A o : OnTheirWay(o)' = OnTheirWay(o)
      BY <2>4, <2>5
    <2>7. pc' \in [Thread -> IpcPc] /\ call' \in [Thread -> Calls]
      BY <2>1 DEF MailboxInv, MailboxData
    <2> QED  BY <2>1, <2>4, <2>6, <2>7, MailboxRests
  <1>2. ASSUME NEW l \in WaitList, ResetResume(l) PROVE MailboxInv'
    <2>1. /\ IpcInv' /\ \A o : OnTheirWay(o)' = OnTheirWay(o)
          /\ \A j \in WaitList : wl[j] = << >> => wl'[j] = << >>
      BY <1>2, ResetResumeSection
    <2>2. pc' \in [Thread -> IpcPc] /\ call' \in [Thread -> Calls]
      BY <1>2 DEF ResetResume, MailboxInv, MailboxData
    <2> QED  BY <2>1, <2>2, MailboxRests
  <1> QED  BY <1>1, <1>2

LEMMA ResetStep ==
    ASSUME MailboxInv, Reset
    PROVE  MailboxInv'
  <1> USE MailboxTypes
  <1>1. /\ ResetEnd /\ entry' = 0 /\ in_offset' = 0 /\ out_offset' = 0
        /\ UNCHANGED <<pool, received, call>> /\ pc' = [pc EXCEPT ![Me] = "pend"]
    BY DEF Reset, ResetEnd, Goto
  <1>2. IpcInv' /\ UNCHANGED wl /\ \A l \in WaitList : wl[l] = << >>
    BY <1>1, ResetEndSection
  <1>3. MailboxData' /\ InPlace'
    BY <1>1 DEF MailboxInv, MailboxData, InPlace
  <1>4. NoStrandedWaiter'
    BY <1>2, StrandedFormNext
  <1> QED  BY <1>2, <1>3, <1>4 DEF MailboxInv

LEMMA MailboxInvInit == Init => MailboxInv
  <1> SUFFICES ASSUME Init PROVE MailboxInv
    OBVIOUS
  <1>1. /\ pool = [i \in 0 .. Size - 1 |-> Nothing] /\ entry = 0 /\ in_offset = 0
        /\ out_offset = 0 /\ received = Nothing
        /\ pc = [t \in Thread |-> "run"] /\ call = [t \in Thread |-> NoCall]
        /\ wl = [l \in WaitList |-> << >>]
    BY DEF Init, IpcInit, SectionsInit
  <1>2. IpcInv
    BY IpcInvInit DEF Init
  <1>3. MailboxData /\ InPlace
    BY <1>1, MailboxAssumption DEF MailboxData, InPlace, IpcPc, Calls
  <1>4. NoStrandedWaiter
    BY <1>1, MailboxAssumption DEF NoStrandedWaiter
  <1> QED  BY <1>2, <1>3, <1>4 DEF MailboxInv

\* Every step of the mailbox and its interrupts keeps the invariant.
LEMMA MailboxInvNext == MailboxInv /\ Next => MailboxInv'
  <1> SUFFICES ASSUME MailboxInv, Next PROVE MailboxInv'
    OBVIOUS
  <1>1. CASE IpcStep /\ UNCHANGED mbVars
    BY <1>1, MailboxIpcStep
  <1>2. ASSUME NEW v \in Message, NEW time \in Wait,
               Send(SendCall(v, time)) \/ SendBlock(SendCall(v, time))
        PROVE  MailboxInv'
    BY <1>2, SendStep, SendBlockStep
  <1>3. ASSUME NEW time \in Wait, Recv(RecvCall(time)) \/ RecvBlock(RecvCall(time))
        PROVE  MailboxInv'
    BY <1>3, RecvStep, RecvBlockStep
  <1>4. CASE SendExpired \/ RecvExpired
    BY <1>4, ExpiredStep
  <1>5. ASSUME NEW v \in Message, IsrSend(v) PROVE MailboxInv'
    BY <1>5, IsrSendStep
  <1>6. CASE IsrRecv
    BY <1>6, IsrRecvStep
  <1>7. CASE (ResetBegin \/ \E l \in WaitList : ResetResume(l)) /\ UNCHANGED mbVars
    BY <1>7, MailboxResetStep
  <1>8. CASE Reset
    BY <1>8, ResetStep
  <1> QED  BY <1>1, <1>2, <1>3, <1>4, <1>5, <1>6, <1>7, <1>8 DEF Next

-----------------------------------------------------------------------------
(* The operators of the message queue's instance that are the same as here *)

LEMMA SameCardinality ==
    ASSUME NEW A
    PROVE  MQ!Cardinality(A) = Cardinality(A)
  BY DEF MQ!Cardinality, Cardinality

LEMMA SameSetToSeq ==
    ASSUME NEW A
    PROVE  MQ!SetToSeq(A) = SetToSeq(A)
  <1>1. \A f : MQ!IsInjective(f) <=> IsInjective(f)
    BY DEF MQ!IsInjective, IsInjective
  <1> QED  BY <1>1, SameCardinality, Zenon DEF MQ!SetToSeq, SetToSeq

LEMMA SameLists ==
    ASSUME NEW s
    PROVE  /\ MQ!ToSet(s) = ToSet(s) /\ (MQ!Distinct(s) <=> Distinct(s))
           /\ \A e : MQ!RemoveFirst(s, e) = RemoveFirst(s, e)
  <1>1. \A e : MQ!RemoveFirst(s, e) = RemoveFirst(s, e)
    BY Zenon DEF MQ!RemoveFirst, RemoveFirst, MQ!RemoveAt, RemoveAt, MQ!SelectInSeq,
                 SelectInSeq, MQ!Min, Min
  <1>2. MQ!ToSet(s) = ToSet(s) /\ (MQ!Distinct(s) <=> Distinct(s))
    BY DEF MQ!ToSet, ToSet, MQ!Distinct, Distinct
  <1> QED  BY <1>1, <1>2

LEMMA SameKernel ==
    ASSUME NEW m, NEW t
    PROVE  /\ MQ!Schedule(m) = Schedule(m) /\ MQ!Resume(m, t) = Resume(m, t)
           /\ MQ!ResumeError(m, t) = ResumeError(m, t) /\ MQ!Timeout(m, t) = Timeout(m, t)
           /\ \A time : MQ!SuspendOn(m, t, time) = SuspendOn(m, t, time)
           /\ \A q : MQ!EnqueueWaiter(m, q, t, Flag) = EnqueueWaiter(m, q, t, Flag)
           /\ (MQ!KernelOK(m) <=> KernelOK(m)) /\ (MQ!TopRuns(m) <=> TopRuns(m))
           /\ MQ!KernelState = KernelState
  <1>1. \A n : MQ!HighestPrio(n) = HighestPrio(n)
    BY Zenon DEF MQ!HighestPrio, HighestPrio
  <1>2. \A n, u : MQ!RemoveThread(n, u) = RemoveThread(n, u)
    BY SameLists DEF MQ!RemoveThread, RemoveThread
  <1>3. \A n, u : MQ!InsertThread(n, u) = InsertThread(n, u)
    BY DEF MQ!InsertThread, InsertThread
  <1>4. \A n, u, x : MQ!TakeOff(n, u, x) = TakeOff(n, u, x)
    BY <1>2 DEF MQ!TakeOff, TakeOff
  <1>5. \A n, u : MQ!Dispatch(n, u) = Dispatch(n, u)
    BY <1>4 DEF MQ!Dispatch, Dispatch
  <1>6. \A n : MQ!Schedule(n) = Schedule(n)
    BY <1>1, <1>3, <1>5 DEF MQ!Schedule, Schedule
  <1>7. \A n, u, e : MQ!Wake(n, u, e) = Wake(n, u, e)
    BY <1>3 DEF MQ!Wake, Wake
  <1>8. \A n, u : MQ!Resume(n, u) = Resume(n, u)
    BY <1>7 DEF MQ!Resume, Resume
  <1>9. MQ!ResumeError(m, t) = ResumeError(m, t)
    BY <1>8 DEF MQ!ResumeError, ResumeError
  <1>10. MQ!Timeout(m, t) = Timeout(m, t)
    BY <1>6, <1>7 DEF MQ!Timeout, Timeout
  <1>11. \A n, u : MQ!Suspend(n, u) = Suspend(n, u)
    BY <1>4 DEF MQ!Suspend, Suspend
  <1>12. \A time : MQ!SuspendOn(m, t, time) = SuspendOn(m, t, time)
    BY <1>11 DEF MQ!SuspendOn, SuspendOn, MQ!StartTimer, StartTimer
  <1>13. \A q : MQ!EnqueueWaiter(m, q, t, Flag) = EnqueueWaiter(m, q, t, Flag)
    BY Zenon DEF MQ!EnqueueWaiter, EnqueueWaiter, MQ!InsertAt, InsertAt,
                 MQ!SelectInSeq, SelectInSeq, MQ!Min, Min
  <1>14. MQ!KernelOK(m) <=> KernelOK(m)
    BY SameLists
       DEF MQ!KernelOK, KernelOK, MQ!ReadyListed, ReadyListed, MQ!ReadyDistinct,
           ReadyDistinct, MQ!GroupExact, GroupExact, MQ!OneRunning, OneRunning, MQ!Prio, Prio
  <1>15. MQ!TopRuns(m) <=> TopRuns(m)
    BY DEF MQ!TopRuns, TopRuns
  <1>16. MQ!KernelState = KernelState
    BY DEF MQ!KernelState, KernelState, MQ!Prio, Prio, MQ!Stat, Stat, MQ!Err, Err
  <1> QED  BY <1>6, <1>8, <1>9, <1>10, <1>12, <1>13, <1>14, <1>15, <1>16

LEMMA SamePlaces ==
    /\ MQ!Me = Me /\ MQ!App = App /\ MQ!NoCall = NoCall /\ MQ!Wait = Wait
    /\ \A l : MQ!At(l) <=> At(l)
    /\ \A l : MQ!Goto(l) <=> Goto(l)
    /\ \A l : MQ!EndCall(l) <=> EndCall(l)
    /\ \A t : MQ!Waiting(t) <=> Waiting(t)
    /\ MQ!Woken = Woken
    /\ MQ!Calling <=> Calling
    /\ \A c : MQ!Testing(c) <=> Testing(c)
  <1>1. /\ MQ!Me = Me /\ MQ!App = App /\ MQ!NoCall = NoCall /\ MQ!Wait = Wait
        /\ \A l : MQ!At(l) <=> At(l)
    BY DEF MQ!Me, Me, MQ!App, App, MQ!NoCall, NoCall, MQ!Wait, Wait, MQ!At, At
  <1>2. /\ \A l : MQ!Goto(l) <=> Goto(l)
        /\ \A l : MQ!EndCall(l) <=> EndCall(l)
    BY <1>1 DEF MQ!Goto, Goto, MQ!EndCall, EndCall
  <1>3. \A t : MQ!Waiting(t) <=> Waiting(t)
    BY SameLists DEF MQ!Waiting, Waiting
  <1>4. MQ!Woken = Woken
    BY <1>3 DEF MQ!Woken, Woken
  <1>5. MQ!Calling <=> Calling
    BY <1>1 DEF MQ!Calling, Calling
  <1>6. \A c : MQ!Testing(c) <=> Testing(c)
    BY <1>1, <1>5 DEF MQ!Testing, Testing, MQ!Retrying, Retrying
  <1> QED  BY <1>1, <1>2, <1>3, <1>4, <1>5, <1>6

LEMMA SameSections ==
    /\ \A t : MQ!Startup(t) <=> Startup(t)
    /\ \A t : MQ!TickTimeout(t) <=> TickTimeout(t)
    /\ MQ!CallSchedule <=> CallSchedule
    /\ MQ!WaitFailed <=> WaitFailed
    /\ MQ!TickYield <=> TickYield
    /\ MQ!ResetBegin <=> ResetBegin
    /\ MQ!ResetEnd <=> ResetEnd
    /\ \A l : MQ!ResetResume(l) <=> ResetResume(l)
    /\ \A l : MQ!ThreadWakes(l) <=> ThreadWakes(l)
    /\ \A l : MQ!IsrWakes(l) <=> IsrWakes(l)
    /\ \A o, e : MQ!Expired(o, e) <=> Expired(o, e)
    /\ \A l, q, c, time : MQ!Block(l, q, c, time) <=> Block(l, q, c, time)
  <1>1. \A t : MQ!Startup(t) <=> Startup(t)
    BY SameKernel, SamePlaces DEF MQ!Startup, Startup
  <1>2. \A t : MQ!TickTimeout(t) <=> TickTimeout(t)
    BY SameKernel, SamePlaces, SameLists
       DEF MQ!TickTimeout, TickTimeout, MQ!IrqEnabled, IrqEnabled
  <1>3. (MQ!CallSchedule <=> CallSchedule) /\ (MQ!TickYield <=> TickYield)
    BY SameKernel, SamePlaces
       DEF MQ!CallSchedule, CallSchedule, MQ!TickYield, TickYield, MQ!IrqEnabled, IrqEnabled
  <1>4. (MQ!WaitFailed <=> WaitFailed) /\ (MQ!ResetBegin <=> ResetBegin)
        /\ (MQ!ResetEnd <=> ResetEnd)
    BY SamePlaces DEF MQ!WaitFailed, WaitFailed, MQ!ResetBegin, ResetBegin, MQ!ResetEnd, ResetEnd
  <1>5. \A l : MQ!ResetResume(l) <=> ResetResume(l)
    BY SameKernel, SamePlaces DEF MQ!ResetResume, ResetResume, MQ!Popped, Popped
  <1>6. \A l : (MQ!ThreadWakes(l) <=> ThreadWakes(l)) /\ (MQ!IsrWakes(l) <=> IsrWakes(l))
    BY SameKernel, SamePlaces
       DEF MQ!ThreadWakes, ThreadWakes, MQ!IsrWakes, IsrWakes, MQ!Popped, Popped,
           MQ!ResumeFirst, ResumeFirst, MQ!IrqEnabled, IrqEnabled
  <1>7. \A o, e : MQ!Expired(o, e) <=> Expired(o, e)
    BY SamePlaces DEF MQ!Expired, Expired, MQ!Retrying, Retrying
  <1>8. \A l, q, c, time : MQ!Block(l, q, c, time) <=> Block(l, q, c, time)
    BY SameKernel, SamePlaces DEF MQ!Block, Block
  <1> QED  BY <1>1, <1>2, <1>3, <1>4, <1>5, <1>6, <1>7, <1>8

-----------------------------------------------------------------------------
(* The chains of the queue's blocks *)

Linked(nx, s, b) == Chained(MqBlock, Null, nx, s, b)

ChainedFrom(nx, b) == ChainOf(MqBlock, MqBlock \cup {Null}, nx, b)

\* The message queue's own walk is the one of ChainOf.
LEMMA ChainForm ==
    /\ \A b : MQ!Chain(b) = ChainedFrom(next, b)
    /\ MQ!Chain(head)' = ChainedFrom(next', head')
  <1>1. MQ!Cardinality(MqBlock) = Cardinality(MqBlock)
    BY SameCardinality
  <1>2. \A b : MQ!Chain(b) =
          (CHOOSE f : f = [n \in 0 .. MQ!Cardinality(MqBlock) |->
              [c \in MqBlock \cup {Null} |->
                  IF c \notin MqBlock THEN << >>
                  ELSE IF n = 0 THEN <<c>>
                  ELSE <<c>> \o f[n - 1][next[c]]]])[MQ!Cardinality(MqBlock)][b]
    BY DEF MQ!Chain
  <1>3. MQ!Chain(head)' =
          (CHOOSE f : f = [n \in 0 .. MQ!Cardinality(MqBlock) |->
              [c \in MqBlock \cup {Null} |->
                  IF c \notin MqBlock THEN << >>
                  ELSE IF n = 0 THEN <<c>>
                  ELSE <<c>> \o f[n - 1][next'[c]]]])[MQ!Cardinality(MqBlock)][head']
    BY DEF MQ!Chain
  <1> QED  BY <1>1, <1>2, <1>3 DEF ChainedFrom, ChainOf, Further

LEMMA ChainIs ==
    ASSUME IsFiniteSet(MqBlock), Null \notin MqBlock,
           NEW s, NEW b, Linked(next, s, b), Distinct(s)
    PROVE  MQ!Chain(b) = s
  BY WalkIs, ChainForm DEF Linked, ChainedFrom

LEMMA ChainIsNext ==
    ASSUME IsFiniteSet(MqBlock), Null \notin MqBlock,
           NEW s, Linked(next', s, head'), Distinct(s)
    PROVE  MQ!Chain(head)' = s
  BY WalkIs, ChainForm DEF Linked, ChainedFrom

LEMMA LinkedSame ==
    ASSUME NEW nx, NEW ny, NEW s, NEW b, Linked(nx, s, b),
           \A c \in ToSet(s) : ny[c] = nx[c]
    PROVE  Linked(ny, s, b)
  BY ChainedSame DEF Linked

LEMMA LinkedHead ==
    ASSUME Null \notin MqBlock, NEW nx, NEW s, NEW b, Linked(nx, s, b), Distinct(s)
    PROVE  /\ b = Null <=> s = << >>
           /\ s # << >> =>
                 /\ b \in MqBlock /\ b = Head(s) /\ b \in ToSet(s)
                 /\ Linked(nx, Tail(s), nx[b]) /\ Distinct(Tail(s))
                 /\ ToSet(Tail(s)) = ToSet(s) \ {b} /\ Len(Tail(s)) = Len(s) - 1
                 /\ Len(s) \in Nat \ {0}
  BY ChainedHead DEF Linked

LEMMA LinkedCons ==
    ASSUME Null \notin MqBlock, NEW nx, NEW ny, NEW s, NEW b, Linked(nx, s, b), Distinct(s),
           NEW c \in MqBlock, c \notin ToSet(s), ny[c] = b,
           \A d \in ToSet(s) : ny[d] = nx[d]
    PROVE  LET q == <<c>> \o s
           IN  /\ Linked(ny, q, c) /\ Distinct(q) /\ ToSet(q) = ToSet(s) \cup {c}
               /\ Len(q) = Len(s) + 1 /\ Len(s) \in Nat /\ q # << >>
               /\ q[Len(q)] = IF s = << >> THEN c ELSE s[Len(s)]
  BY ChainedCons DEF Linked

LEMMA LinkedAppend ==
    ASSUME Null \notin MqBlock, NEW nx, NEW ny, NEW s, NEW b, Linked(nx, s, b), Distinct(s),
           NEW c \in MqBlock, c \notin ToSet(s), ny[c] = Null,
           \A i \in 1 .. Len(s) : ny[s[i]] = IF i = Len(s) THEN c ELSE nx[s[i]]
    PROVE  LET q == Append(s, c)
           IN  /\ Linked(ny, q, IF s = << >> THEN c ELSE b)
               /\ Distinct(q) /\ ToSet(q) = ToSet(s) \cup {c}
               /\ Len(q) = Len(s) + 1 /\ Len(s) \in Nat /\ q # << >> /\ q[Len(q)] = c
  BY ChainedAppend DEF Linked

-----------------------------------------------------------------------------
(* The message queue *)

\* Where a thread has a block in its hand.
Handing == {"fill", "link", "copy", "put"}

QueueControl ==
    /\ pc \in [Thread -> IpcPc \cup Handing]
    /\ call \in [Thread -> MQ!Calls]
    /\ hand \in [Thread -> MqBlock \cup {Null}]
    /\ \A t \in Thread : hand[t] # Null <=> pc[t] \in Handing
    /\ \A t \in Thread : pc[t] \in {"fill", "link"} => call[t].op = "send"

QueueData ==
    /\ next \in [MqBlock -> MqBlock \cup {Null}]
    /\ body \in [MqBlock -> Message \cup {Nothing}]
    /\ taken \in [Thread -> Message \cup {Nothing}]
    /\ last \in Message \cup {Nothing}

\* Every block is in the set Q, in the set F or in one hand.
Places(Q, F) ==
    /\ Q \cap F = {}
    /\ \A t \in Thread : hand[t] \notin Q \cup F
    /\ \A t, u \in Thread : hand[t] = hand[u] /\ hand[t] # Null => t = u
    /\ \A b \in MqBlock : b \in Q \cup F \/ \E t \in Thread : hand[t] = b

\* The queue is the chain q, with its last block and its length, and the free
\* list the chain f.  A reset that empties the queue sets the length last.
Layout(q, f) ==
    /\ Linked(next, q, head) /\ Distinct(q)
    /\ Linked(next, f, free) /\ Distinct(f)
    /\ tail = IF q = << >> THEN Null ELSE q[Len(q)]
    /\ entry = Len(q) \/ (At("reset") /\ entry \in 0 .. Cardinality(MqBlock))
    /\ Places(ToSet(q), ToSet(f))

\* The inductive invariant.
QueueInv ==
    /\ IpcInv /\ QueueControl /\ QueueData /\ \E q, f : Layout(q, f)
    /\ MQ!CopyIntact /\ MQ!NoStrandedReceiver

LEMMA ReceiverForm ==
    MQ!NoStrandedReceiver <=>
        (wl["recv"] # << >> => entry <= Cardinality(OnTheirWay("recv")))
  BY SameCardinality, SamePlaces DEF MQ!NoStrandedReceiver, OnTheirWay

LEMMA ReceiverFormNext ==
    MQ!NoStrandedReceiver' <=>
        (wl'["recv"] # << >> => entry' <= Cardinality(OnTheirWay("recv")'))
  <1>1. MQ!Woken' = Woken'
    <2>1. \A t : MQ!Waiting(t)' <=> Waiting(t)'
      BY SameLists DEF MQ!Waiting, Waiting
    <2> QED  BY <2>1 DEF MQ!Woken, Woken
  <1> QED  BY <1>1, SameCardinality DEF MQ!NoStrandedReceiver, OnTheirWay

LEMMA QueueTypes ==
    ASSUME QueueInv
    PROVE  /\ IpcInv /\ Me \in Thread /\ DOMAIN pc = Thread /\ DOMAIN call = Thread
           /\ IsFiniteSet(MqBlock) /\ MqBlock # {} /\ Null \notin MqBlock
           /\ Cardinality(MqBlock) \in Nat /\ Cardinality(MqBlock) = Size
           /\ WaitList = {"recv", "send"} /\ NoCall \in MQ!Calls
           /\ entry \in 0 .. Cardinality(MqBlock)
           /\ pc \in [Thread -> IpcPc \cup Handing] /\ call \in [Thread -> MQ!Calls]
           /\ hand \in [Thread -> MqBlock \cup {Null}]
  <1>1. IsFiniteSet(MqBlock) /\ MqBlock # {} /\ Null \notin MqBlock
    BY QueuesAssumption DEF MQ!MessageQueueAssumption, MQ!IsFiniteSet, IsFiniteSet
  <1>2. Cardinality(MqBlock) \in Nat /\ Cardinality(MqBlock) = Size
    BY <1>1, FS_CardinalityType, QueuesAssumption
  <1>3. NoCall \in MQ!Calls
    BY SamePlaces DEF MQ!Calls
  <1>4. entry \in 0 .. Cardinality(MqBlock)
    <2>1. PICK q, f : Layout(q, f)
      BY DEF QueueInv
    <2>2. Len(q) \in Nat /\ Len(q) <= Cardinality(MqBlock)
      BY <1>1, <2>1, ChainLength DEF Layout, Linked, Chained
    <2> QED  BY <1>2, <2>1, <2>2 DEF Layout
  <1> QED  BY <1>1, <1>2, <1>3, <1>4, IpcTypes, MailboxAssumption DEF QueueInv, QueueControl

\* Sections that leave the queue alone and wake nobody with RT_EOK.
LEMMA QueueRests ==
    ASSUME QueueInv, IpcInv', UNCHANGED MQ!mqVars, QueueControl',
           wl["recv"] = << >> => wl'["recv"] = << >>,
           OnTheirWay("recv")' = OnTheirWay("recv"),
           At("reset") => At("reset")',
           \A t \in Thread : pc'[t] = "copy" => pc[t] = "copy"
    PROVE  QueueInv'
  <1>1. /\ UNCHANGED <<head, tail, free, next, body>>
        /\ UNCHANGED <<entry, hand, taken, last>>
    BY DEF MQ!mqVars
  <1>2. QueueData'
    BY <1>1 DEF QueueInv, QueueData
  <1>3. (\E q, f : Layout(q, f))'
    <2>1. PICK q, f : Layout(q, f)
      BY DEF QueueInv
    <2>2. Layout(q, f)'
      BY <1>1, <2>1 DEF Layout, Places
    <2> QED  BY <2>2
  <1>4. MQ!CopyIntact'
    BY <1>1 DEF QueueInv, MQ!CopyIntact
  <1>5. MQ!NoStrandedReceiver'
    BY <1>1, ReceiverForm, ReceiverFormNext DEF QueueInv
  <1> QED  BY <1>2, <1>3, <1>4, <1>5 DEF QueueInv

LEMMA QuietSame ==
    ASSUME IpcInv, pc[Me] \notin {"pend", "blocked"}, UNCHANGED <<k, wl>>,
           pc'[Me] \notin {"blocked", "wait"},
           pc[Me] = "reset" => pc'[Me] \in {"reset", "pend"},
           \A t \in Thread \ {Me} : pc'[t] = pc[t] /\ call'[t] = call[t]
    PROVE  /\ IpcInv' /\ Me' = Me
           /\ \A o : OnTheirWay(o)' = OnTheirWay(o) \ {Me}
  <1>1. k' = [k EXCEPT !.err[Me] = k.err[Me]] /\ k.err[Me] \in Err
    BY IpcTypes DEF KernelState
  <1> QED  BY <1>1, QuietSection

LEMMA QueueIpcStep ==
    ASSUME QueueInv, MQ!IpcStep, UNCHANGED MQ!mqVars
    PROVE  QueueInv'
  <1> USE QueueTypes
  <1>0. UNCHANGED hand
    BY DEF MQ!mqVars
  <1>1. ASSUME NEW t \in Thread, Startup(t) PROVE QueueInv'
    <2>1. UNCHANGED <<wl, pc, call>> /\ ~ At("reset")
      BY <1>1 DEF Startup, At
    <2>2. IpcInv' /\ OnTheirWay("recv")' = OnTheirWay("recv")
      BY <1>1, StartupSection
    <2>3. QueueControl'
      BY <1>0, <2>1 DEF QueueInv, QueueControl
    <2> QED  BY <2>1, <2>2, <2>3, QueueRests
  <1>2. ASSUME NEW t \in Thread, TickTimeout(t) PROVE QueueInv'
    <2>1. UNCHANGED <<pc, call>> /\ ~ At("reset")
      BY <1>2 DEF TickTimeout, IrqEnabled
    <2>2. /\ IpcInv' /\ OnTheirWay("recv")' = OnTheirWay("recv")
          /\ wl["recv"] = << >> => wl'["recv"] = << >>
      BY <1>2, TickTimeoutSection
    <2>3. QueueControl'
      BY <1>0, <2>1 DEF QueueInv, QueueControl
    <2> QED  BY <2>1, <2>2, <2>3, QueueRests
  <1>3. CASE CallSchedule
    <2>1. /\ k' = Schedule(k) /\ UNCHANGED <<wl, call>> /\ pc[Me] \in {"pend", "blocked"}
          /\ pc' = [pc EXCEPT ![Me] = IF pc[Me] = "pend" THEN "run" ELSE "wait"]
      BY <1>3 DEF CallSchedule, Goto, At
    <2>2. \A t \in Thread : pc'[t] \in {"blocked", "wait"} <=> pc[t] \in {"blocked", "wait"}
      BY <2>1
    <2>3. IpcInv' /\ OnTheirWay("recv")' = OnTheirWay("recv")
      BY <2>1, <2>2, ScheduleSection
    <2>4. /\ pc' \in [Thread -> IpcPc \cup Handing]
          /\ \A t \in Thread : /\ pc'[t] \in Handing <=> pc[t] \in Handing
                               /\ pc'[t] \in {"fill", "link"} <=> pc[t] \in {"fill", "link"}
                               /\ pc'[t] = "copy" => pc[t] = "copy"
      BY <2>1 DEF IpcPc, Handing
    <2>5. QueueControl'
      BY <1>0, <2>1, <2>4 DEF QueueInv, QueueControl
    <2>6. ~ At("reset")
      BY <2>1 DEF At
    <2> QED  BY <2>1, <2>3, <2>4, <2>5, <2>6, QueueRests
  <1>4. CASE WaitFailed
    <2>1. /\ pc[Me] = "wait" /\ k.err[Me] # "EOK" /\ UNCHANGED <<k, wl>>
          /\ pc' = [pc EXCEPT ![Me] = "run"] /\ call' = [call EXCEPT ![Me] = NoCall]
      BY <1>4 DEF WaitFailed, EndCall, Goto, At
    <2>2. pc'[Me] = "run" /\ \A t \in Thread \ {Me} : pc'[t] = pc[t] /\ call'[t] = call[t]
      BY <2>1
    <2>3. IpcInv' /\ OnTheirWay("recv")' = OnTheirWay("recv") \ {Me}
      BY <2>1, <2>2, QuietSame
    <2>4. Me \notin OnTheirWay("recv")
      BY <2>1, WayMember
    <2>5. /\ pc' \in [Thread -> IpcPc \cup Handing] /\ call' \in [Thread -> MQ!Calls]
          /\ \A t \in Thread : /\ pc'[t] \in Handing <=> pc[t] \in Handing
                               /\ pc'[t] \in {"fill", "link"} =>
                                     pc[t] \in {"fill", "link"} /\ call'[t] = call[t]
                               /\ pc'[t] = "copy" => pc[t] = "copy"
      BY <2>1 DEF IpcPc, Handing
    <2>6. QueueControl'
      BY <1>0, <2>5 DEF QueueInv, QueueControl
    <2>7. ~ At("reset") /\ OnTheirWay("recv")' = OnTheirWay("recv")
      BY <2>1, <2>3, <2>4 DEF At
    <2> QED  BY <2>1, <2>3, <2>5, <2>6, <2>7, QueueRests
  <1>5. CASE TickYield
    <2>1. k' = Schedule(k) /\ UNCHANGED <<wl, pc, call>> /\ ~ At("reset")
      BY <1>5 DEF TickYield, IrqEnabled
    <2>2. IpcInv' /\ OnTheirWay("recv")' = OnTheirWay("recv")
      BY <2>1, ScheduleSection
    <2>3. QueueControl'
      BY <1>0, <2>1 DEF QueueInv, QueueControl
    <2> QED  BY <2>1, <2>2, <2>3, QueueRests
  <1> QED  BY <1>1, <1>2, <1>3, <1>4, <1>5, SameSections DEF MQ!IpcStep

\* The queue q with one block more: an urgent one comes first.
Joined(q, b, urgent) == IF urgent THEN <<b>> \o q ELSE Append(q, b)

\* A block that is in no chain is linked to the queue, at either end.
LEMMA LinkBlock ==
    ASSUME Null \notin MqBlock, next \in [MqBlock -> MqBlock \cup {Null}],
           NEW q, Linked(next, q, head), Distinct(q),
           tail = IF q = << >> THEN Null ELSE q[Len(q)],
           NEW b \in MqBlock, b \notin ToSet(q), NEW urgent \in BOOLEAN, MQ!Link(b, urgent)
    PROVE  LET r == Joined(q, b, urgent)
           IN  /\ Linked(next', r, head') /\ Distinct(r) /\ r # << >>
               /\ ToSet(r) = ToSet(q) \cup {b} /\ Len(r) = Len(q) + 1
               /\ tail' = r[Len(r)] /\ entry' = entry + 1
               /\ next' \in [MqBlock -> MqBlock \cup {Null}]
               /\ \A d \in MqBlock \ (ToSet(q) \cup {b}) : next'[d] = next[d]
  <1>0. q \in Seq(MqBlock) /\ Len(q) \in Nat /\ \A i \in 1 .. Len(q) : q[i] \in MqBlock
    BY LenProperties, ElementOfSeq DEF Linked, Chained
  <1>1. head = Null <=> q = << >>
    BY LinkedHead
  <1>2. tail = Null <=> q = << >>
    <2>1. q # << >> => Len(q) \in 1 .. Len(q)
      BY <1>0, EmptySeq
    <2> QED  BY <1>0, <2>1
  <1>3. CASE urgent
    <2>1. /\ next' = [next EXCEPT ![b] = head] /\ head' = b /\ entry' = entry + 1
          /\ tail' = IF tail = Null THEN b ELSE tail
      BY <1>3 DEF MQ!Link, MQ!LinkFirst
    <2>2. /\ next' \in [MqBlock -> MqBlock \cup {Null}] /\ next'[b] = head
          /\ \A d \in MqBlock \ {b} : next'[d] = next[d]
      <3>1. head \in MqBlock \cup {Null}
        BY LinkedHead
      <3> QED  BY <2>1, <3>1
    <2>3. ToSet(q) \subseteq MqBlock
      BY <1>0, LenProperties DEF ToSet
    <2>4. \A d \in ToSet(q) : next'[d] = next[d]
      BY <2>2, <2>3
    <2> DEFINE r == <<b>> \o q
    <2>5. /\ Linked(next', r, b) /\ Distinct(r) /\ ToSet(r) = ToSet(q) \cup {b}
          /\ Len(r) = Len(q) + 1 /\ r # << >>
          /\ r[Len(r)] = IF q = << >> THEN b ELSE q[Len(q)]
      BY <2>2, <2>4, LinkedCons
    <2> HIDE DEF r
    <2>6. tail' = r[Len(r)]
      BY <1>2, <2>1, <2>5
    <2> QED  BY <1>3, <2>1, <2>2, <2>5, <2>6 DEF r, Joined
  <1>4. CASE ~ urgent
    <2>1. /\ next' = IF tail = Null THEN [next EXCEPT ![b] = Null]
                     ELSE [next EXCEPT ![b] = Null, ![tail] = b]
          /\ tail' = b /\ head' = (IF head = Null THEN b ELSE head) /\ entry' = entry + 1
      BY <1>4 DEF MQ!Link, MQ!LinkLast
    <2> DEFINE r == Append(q, b)
    <2>2. /\ next' \in [MqBlock -> MqBlock \cup {Null}] /\ next'[b] = Null
          /\ \A d \in MqBlock \ {b} : next'[d] = IF d = tail THEN b ELSE next[d]
          /\ tail = Null \/ tail \in ToSet(q)
      <3>1. CASE tail = Null
        BY <2>1, <3>1
      <3>2. CASE tail # Null
        <4>1. q # << >> /\ Len(q) \in 1 .. Len(q) /\ tail = q[Len(q)]
          BY <1>0, <1>2, <3>2, EmptySeq
        <4>2. tail \in ToSet(q) /\ tail \in MqBlock /\ tail # b
          BY <1>0, <4>1, LenProperties DEF ToSet
        <4> QED  BY <2>1, <3>2, <4>2
      <3> QED  BY <3>1, <3>2
    <2>3. ASSUME NEW i \in 1 .. Len(q)
          PROVE  next'[q[i]] = IF i = Len(q) THEN b ELSE next[q[i]]
      <3>1. q[i] \in MqBlock /\ q[i] # b /\ q # << >> /\ tail = q[Len(q)]
        BY <1>0, <2>3, LenProperties, EmptySeq DEF ToSet
      <3>2. q[i] = tail <=> i = Len(q)
        BY <1>0, <3>1, LenProperties DEF Distinct
      <3> QED  BY <2>2, <3>1, <3>2
    <2>4. /\ Linked(next', r, IF q = << >> THEN b ELSE head)
          /\ Distinct(r) /\ ToSet(r) = ToSet(q) \cup {b}
          /\ Len(r) = Len(q) + 1 /\ r # << >> /\ r[Len(r)] = b
      BY <2>2, <2>3, LinkedAppend
    <2> HIDE DEF r
    <2>5. head' = IF q = << >> THEN b ELSE head
      BY <1>1, <2>1
    <2>6. \A d \in MqBlock \ (ToSet(q) \cup {b}) : next'[d] = next[d]
      BY <2>2
    <2> QED  BY <1>4, <2>1, <2>2, <2>4, <2>5, <2>6 DEF r, Joined
  <1> QED  BY <1>3, <1>4

\* The first block of the queue is unlinked.
LEMMA UnlinkBlock ==
    ASSUME Null \notin MqBlock, NEW q, Linked(next, q, head), Distinct(q), q # << >>,
           tail = IF q = << >> THEN Null ELSE q[Len(q)], MQ!Unlink
    PROVE  /\ head \in MqBlock /\ head \in ToSet(q)
           /\ Linked(next, Tail(q), head') /\ Distinct(Tail(q))
           /\ ToSet(Tail(q)) = ToSet(q) \ {head} /\ Len(Tail(q)) = Len(q) - 1
           /\ Len(q) \in Nat \ {0}
           /\ tail' = IF Tail(q) = << >> THEN Null ELSE Tail(q)[Len(Tail(q))]
  <1>1. head' = next[head] /\ tail' = IF tail = head THEN Null ELSE tail
    BY DEF MQ!Unlink
  <1>2. /\ head \in MqBlock /\ head = Head(q) /\ head \in ToSet(q)
        /\ Linked(next, Tail(q), next[head]) /\ Distinct(Tail(q))
        /\ ToSet(Tail(q)) = ToSet(q) \ {head} /\ Len(Tail(q)) = Len(q) - 1
        /\ Len(q) \in Nat \ {0}
    BY LinkedHead
  <1>3. /\ q \in Seq(MqBlock) /\ q[1] = head /\ DOMAIN q = 1 .. Len(q)
        /\ Tail(q) \in Seq(MqBlock)
    BY <1>2, LenProperties DEF Linked, Chained
  <1>4. tail = q[Len(q)] /\ (tail = head <=> Len(q) = 1)
    <2>1. 1 \in DOMAIN q /\ Len(q) \in DOMAIN q
      BY <1>2, <1>3
    <2> QED  BY <1>3, <2>1 DEF Distinct
  <1>5. Tail(q) = << >> <=> Len(q) = 1
    <2> DEFINE r == Tail(q)
    <2>1. r \in Seq(MqBlock) /\ Len(r) = Len(q) - 1 /\ Len(q) \in Nat \ {0}
      BY <1>2, <1>3
    <2> HIDE DEF r
    <2>2. r = << >> <=> Len(r) = 0
      BY <2>1, EmptySeq
    <2> QED  BY <2>1, <2>2 DEF r
  <1>6. Len(q) # 1 => Tail(q)[Len(Tail(q))] = q[Len(q)]
    <2> SUFFICES ASSUME Len(q) # 1 PROVE Tail(q)[Len(Tail(q))] = q[Len(q)]
      OBVIOUS
    <2> DEFINE m == Len(q) - 1
    <2>1. m \in 1 .. Len(q) - 1 /\ m + 1 = Len(q) /\ Len(Tail(q)) = m
      BY <1>2
    <2>2. \A i \in 1 .. Len(q) - 1 : Tail(q)[i] = q[i + 1]
      BY <1>2, <1>3
    <2> HIDE DEF m
    <2> QED  BY <2>1, <2>2
  <1> QED  BY <1>1, <1>2, <1>4, <1>5, <1>6

\* The messages of a thread's call.
LEMMA SendValue ==
    ASSUME QueueControl, NEW t \in Thread, pc[t] \in {"fill", "link"}
    PROVE  call[t].val \in Message /\ call[t].urgent \in BOOLEAN /\ hand[t] \in MqBlock
  <1>1. call[t] \in MQ!Calls /\ call[t].op = "send"
    BY DEF QueueControl
  <1>2. hand[t] \in MqBlock
    BY DEF QueueControl, Handing
  <1>3. PICK v \in Message, u \in BOOLEAN : call[t] = MQ!SendCall(v, u)
    BY <1>1 DEF MQ!Calls, MQ!NoCall, MQ!RecvCall
  <1> QED  BY <1>2, <1>3 DEF MQ!SendCall

\* rt_mq_send takes a free block.
LEMMA SendAllocStep ==
    ASSUME QueueInv, NEW v \in Message, NEW urgent \in BOOLEAN, MQ!SendAlloc(v, urgent)
    PROVE  QueueInv'
  <1> USE QueueTypes
  <1> DEFINE c == MQ!SendCall(v, urgent)
  <1>1. /\ pc[Me] = "run" /\ free # Null /\ hand' = [hand EXCEPT ![Me] = free]
        /\ free' = next[free] /\ call' = [call EXCEPT ![Me] = c]
        /\ pc' = [pc EXCEPT ![Me] = "fill"]
        /\ UNCHANGED <<k, wl>> /\ UNCHANGED <<head, tail, next, body>>
        /\ UNCHANGED <<entry, taken, last>>
    BY SamePlaces DEF MQ!SendAlloc, Calling, At, Goto
  <1>2. c \in MQ!Calls /\ c.op = "send"
    BY DEF MQ!Calls, MQ!SendCall
  <1> HIDE DEF c
  <1>3. hand[Me] = Null /\ ~ At("reset")
    BY <1>1 DEF QueueInv, QueueControl, Handing, At
  <1>4. PICK q, f : Layout(q, f)
    BY DEF QueueInv
  <1>5. f # << >> /\ free \in MqBlock /\ free \in ToSet(f)
        /\ Linked(next, Tail(f), next[free]) /\ Distinct(Tail(f))
        /\ ToSet(Tail(f)) = ToSet(f) \ {free}
    BY <1>1, <1>4, LinkedHead DEF Layout
  <1>6. IpcInv' /\ OnTheirWay("recv")' = OnTheirWay("recv")
    <2>1. pc'[Me] = "fill" /\ \A t \in Thread \ {Me} : pc'[t] = pc[t] /\ call'[t] = call[t]
      BY <1>1
    <2>2. IpcInv' /\ OnTheirWay("recv")' = OnTheirWay("recv") \ {Me}
      BY <1>1, <2>1, QuietSame
    <2>3. Me \notin OnTheirWay("recv")
      BY <1>1, WayMember
    <2> QED  BY <2>2, <2>3
  <1>7. QueueControl'
    <2>1. /\ pc' \in [Thread -> IpcPc \cup Handing] /\ call' \in [Thread -> MQ!Calls]
          /\ hand' \in [Thread -> MqBlock \cup {Null}]
      BY <1>1, <1>2, <1>5 DEF Handing
    <2>2. \A t \in Thread : hand'[t] # Null <=> pc'[t] \in Handing
      BY <1>1, <1>5 DEF QueueInv, QueueControl, Handing
    <2>3. \A t \in Thread : pc'[t] \in {"fill", "link"} => call'[t].op = "send"
      BY <1>1, <1>2 DEF QueueInv, QueueControl
    <2> QED  BY <2>1, <2>2, <2>3 DEF QueueControl
  <1>8. QueueData'
    BY <1>1 DEF QueueInv, QueueData
  <1>9. (\E p, g : Layout(p, g))'
    <2>1. Places(ToSet(q), ToSet(Tail(f)))'
      BY <1>1, <1>3, <1>4, <1>5 DEF Layout, Places
    <2>2. entry = Len(q)
      BY <1>3, <1>4 DEF Layout
    <2>3. Layout(q, Tail(f))'
      BY <1>1, <1>4, <1>5, <2>1, <2>2 DEF Layout
    <2> QED  BY <2>3
  <1>10. MQ!CopyIntact'
    BY <1>1 DEF QueueInv, MQ!CopyIntact
  <1>11. MQ!NoStrandedReceiver'
    BY <1>1, <1>6, ReceiverForm, ReceiverFormNext DEF QueueInv
  <1> QED  BY <1>6, <1>7, <1>8, <1>9, <1>10, <1>11 DEF QueueInv

\* It copies the message into the block, which nobody else holds.
LEMMA SendFillStep ==
    ASSUME QueueInv, MQ!SendFill
    PROVE  QueueInv'
  <1> USE QueueTypes
  <1>1. /\ pc[Me] = "fill" /\ body' = [body EXCEPT ![hand[Me]] = call[Me].val]
        /\ pc' = [pc EXCEPT ![Me] = "link"]
        /\ UNCHANGED <<k, wl, call>> /\ UNCHANGED <<head, tail, free, next>>
        /\ UNCHANGED <<entry, hand, taken, last>>
    BY SamePlaces DEF MQ!SendFill, At, Goto
  <1>2. hand[Me] \in MqBlock /\ call[Me].val \in Message
    BY <1>1, SendValue DEF QueueInv
  <1>3. PICK q, f : Layout(q, f)
    BY DEF QueueInv
  <1>4. IpcInv' /\ OnTheirWay("recv")' = OnTheirWay("recv")
    <2>1. pc'[Me] = "link" /\ \A t \in Thread \ {Me} : pc'[t] = pc[t] /\ call'[t] = call[t]
      BY <1>1
    <2>2. IpcInv' /\ OnTheirWay("recv")' = OnTheirWay("recv") \ {Me}
      BY <1>1, <2>1, QuietSame
    <2>3. Me \notin OnTheirWay("recv")
      BY <1>1, WayMember
    <2> QED  BY <2>2, <2>3
  <1>5. QueueControl'
    BY <1>1 DEF QueueInv, QueueControl, Handing
  <1>6. QueueData'
    BY <1>1, <1>2 DEF QueueInv, QueueData
  <1>7. (\E p, g : Layout(p, g))'
    <2>1. entry = Len(q)
      BY <1>1, <1>3 DEF Layout, At
    <2>2. Layout(q, f)'
      BY <1>1, <1>3, <2>1 DEF Layout, Places
    <2> QED  BY <2>2
  <1>8. MQ!CopyIntact'
    <2> SUFFICES ASSUME NEW t \in Thread, pc'[t] = "copy" PROVE body'[hand'[t]] = taken'[t]
      BY DEF MQ!CopyIntact
    <2>1. t # Me /\ pc[t] = "copy"
      BY <1>1
    <2>2. hand[t] # hand[Me]
      BY <1>2, <1>3, <2>1 DEF Layout, Places
    <2>3. hand[t] \in MqBlock
      BY <2>1 DEF QueueInv, QueueControl, Handing
    <2> QED  BY <1>1, <2>1, <2>2, <2>3 DEF QueueInv, QueueData, MQ!CopyIntact
  <1>9. MQ!NoStrandedReceiver'
    BY <1>1, <1>4, ReceiverForm, ReceiverFormNext DEF QueueInv
  <1> QED  BY <1>4, <1>5, <1>6, <1>7, <1>8, <1>9 DEF QueueInv

\* The block that it links leaves its hand for the queue.
LEMMA SendLinkLayout ==
    ASSUME QueueInv, MQ!SendLink, NEW q, NEW f, Layout(q, f),
           NEW b, b = hand[Me], NEW u, u = call[Me].urgent,
           NEW r, r = Joined(q, b, u)
    PROVE  /\ Layout(r, f)' /\ b \in MqBlock /\ b \notin ToSet(q)
           /\ entry = Len(q) /\ entry' = entry + 1
           /\ next' \in [MqBlock -> MqBlock \cup {Null}]
  <1> USE QueueTypes
  <1>1. /\ pc[Me] = "link" /\ MQ!Link(b, u) /\ hand' = [hand EXCEPT ![Me] = Null]
        /\ UNCHANGED free
    BY SamePlaces DEF MQ!SendLink, At
  <1>2. b \in MqBlock /\ u \in BOOLEAN
    BY <1>1, SendValue DEF QueueInv
  <1>3. b \notin ToSet(q) \cup ToSet(f)
    BY DEF Layout, Places
  <1>4. /\ Linked(next', r, head') /\ Distinct(r) /\ r # << >>
        /\ ToSet(r) = ToSet(q) \cup {b} /\ Len(r) = Len(q) + 1
        /\ tail' = r[Len(r)] /\ entry' = entry + 1
        /\ next' \in [MqBlock -> MqBlock \cup {Null}]
        /\ \A d \in MqBlock \ (ToSet(q) \cup {b}) : next'[d] = next[d]
    <2>1. /\ Null \notin MqBlock /\ next \in [MqBlock -> MqBlock \cup {Null}]
          /\ Linked(next, q, head) /\ Distinct(q) /\ b \notin ToSet(q)
          /\ tail = IF q = << >> THEN Null ELSE q[Len(q)]
      BY <1>3 DEF Layout, QueueInv, QueueData
    <2>2. LET s == Joined(q, b, u)
          IN  /\ Linked(next', s, head') /\ Distinct(s) /\ s # << >>
              /\ ToSet(s) = ToSet(q) \cup {b} /\ Len(s) = Len(q) + 1
              /\ tail' = s[Len(s)] /\ entry' = entry + 1
              /\ next' \in [MqBlock -> MqBlock \cup {Null}]
              /\ \A d \in MqBlock \ (ToSet(q) \cup {b}) : next'[d] = next[d]
      BY ONLY <1>1, <1>2, <2>1, LinkBlock
    <2> QED  BY <2>2
  <1>5. Linked(next', f, free')
    <2>1. Linked(next, f, free) /\ ToSet(f) \subseteq MqBlock
      BY LenProperties, ElementOfSeq DEF Layout, Linked, Chained, ToSet
    <2>2. \A d \in ToSet(f) : next'[d] = next[d]
      BY <1>3, <1>4, <2>1 DEF Layout, Places
    <2> QED  BY <1>1, <2>1, <2>2, LinkedSame
  <1>6. Places(ToSet(r), ToSet(f))'
    <2>1. /\ ToSet(q) \cap ToSet(f) = {}
          /\ \A t \in Thread : hand[t] \notin ToSet(q) \cup ToSet(f)
          /\ \A t, v \in Thread : hand[t] = hand[v] /\ hand[t] # Null => t = v
          /\ \A d \in MqBlock : d \in ToSet(q) \cup ToSet(f) \/ \E t \in Thread : hand[t] = d
      BY DEF Layout, Places
    <2>2. ToSet(q) \subseteq MqBlock /\ ToSet(f) \subseteq MqBlock
      BY LenProperties, ElementOfSeq DEF Layout, Linked, Chained, ToSet
    <2>3. /\ ToSet(r) = ToSet(q) \cup {b} /\ b # Null
          /\ hand'[Me] = Null /\ \A t \in Thread \ {Me} : hand'[t] = hand[t] /\ hand[t] # b
      BY <1>1, <1>2, <1>4, <2>1
    <2>4. ToSet(r) \cap ToSet(f) = {}
      BY <1>3, <2>1, <2>3
    <2>5. \A t \in Thread : hand'[t] \notin ToSet(r) \cup ToSet(f)
      BY <1>2, <2>1, <2>2, <2>3
    <2>6. \A t, v \in Thread : hand'[t] = hand'[v] /\ hand'[t] # Null => t = v
      BY <2>1, <2>3
    <2>7. \A d \in MqBlock :
             d \in ToSet(r) \cup ToSet(f) \/ \E t \in Thread : hand'[t] = d
      BY <2>1, <2>3
    <2> QED  BY <2>4, <2>5, <2>6, <2>7 DEF Places
  <1>7. entry = Len(q) /\ entry' = Len(r)
    BY <1>1, <1>4 DEF Layout, At
  <1>8. Layout(r, f)'
    BY <1>4, <1>5, <1>6, <1>7 DEF Layout
  <1> QED  BY <1>2, <1>3, <1>4, <1>7, <1>8

\* One message more, and one receiver more on its way if one waited.
LEMMA OneMore ==
    ASSUME QueueInv, entry' = entry + 1,
           wl["recv"] = << >> => wl'["recv"] = << >>,
           wl["recv"] # << >> =>
               \E h : /\ h \notin OnTheirWay("recv")
                      /\ OnTheirWay("recv")' = OnTheirWay("recv") \cup {h}
    PROVE  MQ!NoStrandedReceiver'
  <1>1. /\ Cardinality(OnTheirWay("recv")) \in Nat
        /\ \A h : h \notin OnTheirWay("recv") =>
              Cardinality(OnTheirWay("recv") \cup {h}) = Cardinality(OnTheirWay("recv")) + 1
    BY WayCount
  <1>2. wl["recv"] # << >> =>
           Cardinality(OnTheirWay("recv")') = Cardinality(OnTheirWay("recv")) + 1
    BY <1>1
  <1>3. wl["recv"] # << >> => entry <= Cardinality(OnTheirWay("recv"))
    BY ReceiverForm DEF QueueInv
  <1>4. entry \in Nat
    BY QueueTypes
  <1>5. wl'["recv"] # << >> => entry' <= Cardinality(OnTheirWay("recv")')
    BY <1>1, <1>2, <1>3, <1>4
  <1> QED  BY <1>5, ReceiverFormNext

LEMMA SendLinkStep ==
    ASSUME QueueInv, MQ!SendLink
    PROVE  QueueInv'
  <1> USE QueueTypes
  <1>1. /\ pc[Me] = "link" /\ hand' = [hand EXCEPT ![Me] = Null] /\ ThreadWakes("recv")
        /\ UNCHANGED <<free, body, taken, last>>
    BY SamePlaces, SameSections DEF MQ!SendLink, At
  <1>2. /\ call' = [call EXCEPT ![Me] = NoCall]
        /\ pc' = [pc EXCEPT ![Me] = IF wl["recv"] = << >> THEN "run" ELSE "pend"]
    BY <1>1 DEF ThreadWakes, EndCall, Goto
  <1>3. PICK q, f : Layout(q, f)
    BY DEF QueueInv
  <1>4. /\ \E p, g : Layout(p, g)'
        /\ entry' = entry + 1 /\ next' \in [MqBlock -> MqBlock \cup {Null}]
    BY <1>3, SendLinkLayout
  <1>5. (\E p, g : Layout(p, g))'
    BY <1>4
  <1>6. Me \notin OnTheirWay("recv")
    BY <1>1, WayMember
  <1>7. /\ IpcInv'
        /\ wl["recv"] = << >> => wl'["recv"] = << >>
        /\ wl["recv"] # << >> =>
               \E h : /\ h \notin OnTheirWay("recv")
                      /\ OnTheirWay("recv")' = (OnTheirWay("recv") \ {Me}) \cup {h}
    <2>1. \A t \in Thread \ {Me} : pc'[t] = pc[t] /\ call'[t] = call[t]
      BY <1>2
    <2>2. pc[Me] \notin {"pend", "blocked", "reset"} /\ Me \in DOMAIN pc
      BY <1>1
    <2> QED  BY <1>1, <2>1, <2>2, ThreadWakesSection
  <1>8. QueueControl'
    BY <1>1, <1>2 DEF QueueInv, QueueControl, IpcPc, Handing
  <1>9. QueueData'
    BY <1>1, <1>4 DEF QueueInv, QueueData
  <1>10. MQ!CopyIntact'
    BY <1>1, <1>2 DEF QueueInv, MQ!CopyIntact
  <1>11. MQ!NoStrandedReceiver'
    <2>1. OnTheirWay("recv") \ {Me} = OnTheirWay("recv")
      BY <1>6
    <2> QED  BY <1>4, <1>7, <2>1, OneMore
  <1> QED  BY <1>5, <1>7, <1>8, <1>9, <1>10, <1>11 DEF QueueInv

\* An interrupt handler takes a free block and links it.
LEMMA IsrSendLayout ==
    ASSUME QueueInv, NEW v \in Message, NEW urgent \in BOOLEAN, MQ!IsrSend(v, urgent),
           NEW q, NEW f, Layout(q, f), NEW b, b = free,
           NEW r, r = Joined(q, b, urgent)
    PROVE  /\ Layout(r, Tail(f))' /\ b \in MqBlock /\ b \notin ToSet(q)
           /\ \A t \in Thread : hand[t] # b
           /\ entry = Len(q) /\ entry' = entry + 1
           /\ next' \in [MqBlock -> MqBlock \cup {Null}]
  <1> USE QueueTypes
  <1>1. /\ ~ At("reset") /\ b # Null /\ free' = next[b] /\ MQ!Link(b, urgent)
        /\ UNCHANGED <<pc, hand>>
    BY SameSections DEF MQ!IsrSend, IsrWakes, IrqEnabled
  <1>2. f # << >> /\ b \in MqBlock /\ b \in ToSet(f)
        /\ Linked(next, Tail(f), next[b]) /\ Distinct(Tail(f))
        /\ ToSet(Tail(f)) = ToSet(f) \ {b}
    BY <1>1, LinkedHead DEF Layout
  <1>3. b \notin ToSet(q) /\ \A t \in Thread : hand[t] # b
    BY <1>2 DEF Layout, Places
  <1>4. /\ Linked(next', r, head') /\ Distinct(r) /\ r # << >>
        /\ ToSet(r) = ToSet(q) \cup {b} /\ Len(r) = Len(q) + 1
        /\ tail' = r[Len(r)] /\ entry' = entry + 1
        /\ next' \in [MqBlock -> MqBlock \cup {Null}]
        /\ \A d \in MqBlock \ (ToSet(q) \cup {b}) : next'[d] = next[d]
    <2>1. /\ Null \notin MqBlock /\ next \in [MqBlock -> MqBlock \cup {Null}]
          /\ Linked(next, q, head) /\ Distinct(q) /\ b \notin ToSet(q) /\ b \in MqBlock
          /\ tail = IF q = << >> THEN Null ELSE q[Len(q)]
      BY <1>2, <1>3 DEF Layout, QueueInv, QueueData
    <2>2. LET s == Joined(q, b, urgent)
          IN  /\ Linked(next', s, head') /\ Distinct(s) /\ s # << >>
              /\ ToSet(s) = ToSet(q) \cup {b} /\ Len(s) = Len(q) + 1
              /\ tail' = s[Len(s)] /\ entry' = entry + 1
              /\ next' \in [MqBlock -> MqBlock \cup {Null}]
              /\ \A d \in MqBlock \ (ToSet(q) \cup {b}) : next'[d] = next[d]
      BY ONLY urgent \in BOOLEAN, <1>1, <2>1, LinkBlock
    <2> QED  BY <2>2
  <1>5. Linked(next', Tail(f), free')
    <2>1. ToSet(f) \subseteq MqBlock
      BY LenProperties, ElementOfSeq DEF Layout, Linked, Chained, ToSet
    <2>2. \A d \in ToSet(Tail(f)) : next'[d] = next[d]
      BY <1>2, <1>4, <2>1 DEF Layout, Places
    <2> QED  BY <1>1, <1>2, <2>2, LinkedSame
  <1>6. Places(ToSet(r), ToSet(Tail(f)))'
    BY <1>1, <1>2, <1>3, <1>4 DEF Layout, Places
  <1>7. entry = Len(q) /\ entry' = Len(r)
    BY <1>1, <1>4 DEF Layout
  <1>8. Layout(r, Tail(f))'
    BY <1>2, <1>4, <1>5, <1>6, <1>7 DEF Layout
  <1> QED  BY <1>2, <1>3, <1>4, <1>7, <1>8

LEMMA QueueIsrSendStep ==
    ASSUME QueueInv, NEW v \in Message, NEW urgent \in BOOLEAN, MQ!IsrSend(v, urgent)
    PROVE  QueueInv'
  <1> USE QueueTypes
  <1>1. /\ IsrWakes("recv") /\ body' = [body EXCEPT ![free] = v]
        /\ UNCHANGED <<pc, call>> /\ UNCHANGED <<hand, taken, last>>
    BY SameSections DEF MQ!IsrSend, IsrWakes
  <1>2. PICK q, f : Layout(q, f)
    BY DEF QueueInv
  <1>3. /\ \E p, g : Layout(p, g)'
        /\ free \in MqBlock /\ \A t \in Thread : hand[t] # free
        /\ entry' = entry + 1 /\ next' \in [MqBlock -> MqBlock \cup {Null}]
    BY <1>2, IsrSendLayout
  <1>4. (\E p, g : Layout(p, g))'
    BY <1>3
  <1>5. /\ IpcInv'
        /\ wl["recv"] = << >> => wl'["recv"] = << >>
        /\ wl["recv"] # << >> =>
               \E h : /\ h \notin OnTheirWay("recv")
                      /\ OnTheirWay("recv")' = OnTheirWay("recv") \cup {h}
    BY <1>1, IsrWakesSection
  <1>6. QueueControl'
    BY <1>1 DEF QueueInv, QueueControl
  <1>7. QueueData'
    BY <1>1, <1>3 DEF QueueInv, QueueData
  <1>8. MQ!CopyIntact'
    <2> SUFFICES ASSUME NEW t \in Thread, pc[t] = "copy" PROVE body'[hand[t]] = taken[t]
      BY <1>1 DEF MQ!CopyIntact
    <2>1. hand[t] \in MqBlock /\ hand[t] # free
      BY <1>3 DEF QueueInv, QueueControl, Handing
    <2> QED  BY <1>1, <2>1 DEF QueueInv, QueueData, MQ!CopyIntact
  <1>9. MQ!NoStrandedReceiver'
    BY <1>3, <1>5, OneMore
  <1> QED  BY <1>4, <1>5, <1>6, <1>7, <1>8, <1>9 DEF QueueInv

\* Who tests the object holds no block.
LEMMA TesterHands ==
    ASSUME QueueInv, NEW c, Testing(c)
    PROVE  /\ pc[Me] \in {"run", "wait"} /\ ~ At("reset") /\ hand[Me] = Null
           /\ Me \in Thread
  BY QueueTypes DEF Testing, Calling, Retrying, At, QueueInv, QueueControl, Handing

\* A receiver takes the first block of the queue into its hand.
LEMMA RecvUnlinkLayout ==
    ASSUME QueueInv, NEW c, MQ!RecvUnlink(c), NEW q, NEW f, Layout(q, f)
    PROVE  /\ Layout(Tail(q), f)' /\ head \in MqBlock
           /\ entry' = entry - 1 /\ entry' \in Nat
  <1> USE QueueTypes
  <1>1. /\ Testing(c) /\ entry > 0 /\ MQ!Unlink /\ entry' = entry - 1
        /\ hand' = [hand EXCEPT ![Me] = head] /\ UNCHANGED <<free, next>>
    BY SamePlaces DEF MQ!RecvUnlink
  <1>2. ~ At("reset") /\ hand[Me] = Null
    BY <1>1, TesterHands
  <1>3. entry = Len(q) /\ q # << >>
    BY <1>1, <1>2 DEF Layout
  <1>4. /\ Linked(next, q, head) /\ Distinct(q)
        /\ tail = IF q = << >> THEN Null ELSE q[Len(q)]
    BY DEF Layout
  <1>5. /\ head \in MqBlock /\ head \in ToSet(q)
        /\ Linked(next, Tail(q), head') /\ Distinct(Tail(q))
        /\ ToSet(Tail(q)) = ToSet(q) \ {head} /\ Len(Tail(q)) = Len(q) - 1
        /\ Len(q) \in Nat \ {0}
        /\ tail' = IF Tail(q) = << >> THEN Null ELSE Tail(q)[Len(Tail(q))]
    BY <1>1, <1>3, <1>4, UnlinkBlock
  <1>6. entry' = Len(Tail(q)) /\ entry' \in Nat
    BY <1>1, <1>3, <1>5
  <1>7. Places(ToSet(Tail(q)), ToSet(f))'
    <2>1. /\ ToSet(q) \cap ToSet(f) = {}
          /\ \A t \in Thread : hand[t] \notin ToSet(q) \cup ToSet(f)
          /\ \A t, v \in Thread : hand[t] = hand[v] /\ hand[t] # Null => t = v
          /\ \A d \in MqBlock : d \in ToSet(q) \cup ToSet(f) \/ \E t \in Thread : hand[t] = d
      BY DEF Layout, Places
    <2>2. /\ hand'[Me] = head /\ \A t \in Thread \ {Me} : hand'[t] = hand[t] /\ hand[t] # head
      BY <1>1, <1>5, <2>1
    <2>3. ToSet(Tail(q)) \cap ToSet(f) = {}
      BY <1>5, <2>1
    <2>4. \A t \in Thread : hand'[t] \notin ToSet(Tail(q)) \cup ToSet(f)
      BY <1>5, <2>1, <2>2
    <2>5. \A t, v \in Thread : hand'[t] = hand'[v] /\ hand'[t] # Null => t = v
      BY <2>1, <2>2
    <2>6. \A d \in MqBlock :
             d \in ToSet(Tail(q)) \cup ToSet(f) \/ \E t \in Thread : hand'[t] = d
      BY <1>2, <1>5, <2>1, <2>2
    <2> QED  BY <2>3, <2>4, <2>5, <2>6 DEF Places
  <1>8. Layout(Tail(q), f)'
    BY <1>1, <1>4, <1>5, <1>6, <1>7 DEF Layout
  <1> QED  BY <1>1, <1>5, <1>6, <1>8

LEMMA RecvUnlinkStep ==
    ASSUME QueueInv, NEW time \in Wait, MQ!RecvUnlink(MQ!RecvCall(time))
    PROVE  QueueInv'
  <1> USE QueueTypes
  <1> DEFINE c == MQ!RecvCall(time)
  <1>1. /\ Testing(c) /\ hand' = [hand EXCEPT ![Me] = head]
        /\ taken' = [taken EXCEPT ![Me] = body[head]] /\ last' = body[head]
        /\ call' = [call EXCEPT ![Me] = c] /\ pc' = [pc EXCEPT ![Me] = "copy"]
        /\ UNCHANGED <<k, wl, body>>
    BY SamePlaces DEF MQ!RecvUnlink, Goto
  <1>2. c \in MQ!Calls /\ c.op = "recv"
    BY SamePlaces DEF MQ!Calls, MQ!RecvCall
  <1>3. PICK q, f : Layout(q, f)
    BY DEF QueueInv
  <1>4. /\ Layout(Tail(q), f)' /\ head \in MqBlock
        /\ entry' = entry - 1 /\ entry' \in Nat /\ UNCHANGED next
    <2>1. UNCHANGED next
      BY DEF MQ!RecvUnlink
    <2> QED  BY <1>3, <2>1, RecvUnlinkLayout
  <1> HIDE DEF c
  <1>5. pc[Me] \in {"run", "wait"} /\ ~ At("reset") /\ hand[Me] = Null
    BY <1>1, TesterHands
  <1>6. /\ IpcInv' /\ OnTheirWay("recv")' = OnTheirWay("recv") \ {Me}
    <2>1. /\ pc[Me] \notin {"pend", "blocked", "reset"} /\ pc'[Me] \notin {"blocked", "wait"}
          /\ \A t \in Thread \ {Me} : pc'[t] = pc[t] /\ call'[t] = call[t]
      BY <1>1, <1>5
    <2> QED  BY <1>1, <2>1, QuietSame
  <1>7. QueueControl'
    <2>1. /\ pc' \in [Thread -> IpcPc \cup Handing] /\ call' \in [Thread -> MQ!Calls]
          /\ hand' \in [Thread -> MqBlock \cup {Null}]
      BY <1>1, <1>2, <1>4 DEF Handing
    <2>2. \A t \in Thread : hand'[t] # Null <=> pc'[t] \in Handing
      BY <1>1, <1>4 DEF QueueInv, QueueControl, Handing
    <2>3. \A t \in Thread : pc'[t] \in {"fill", "link"} => call'[t].op = "send"
      BY <1>1 DEF QueueInv, QueueControl
    <2> QED  BY <2>1, <2>2, <2>3 DEF QueueControl
  <1>8. QueueData'
    BY <1>1, <1>4 DEF QueueInv, QueueData
  <1>9. (\E p, g : Layout(p, g))'
    BY <1>4
  <1>10. MQ!CopyIntact'
    BY <1>1, <1>4 DEF QueueInv, QueueData, MQ!CopyIntact
  <1>11. MQ!NoStrandedReceiver'
    <2>1. /\ Cardinality(OnTheirWay("recv")) \in Nat
          /\ Cardinality(OnTheirWay("recv") \ {Me}) >= Cardinality(OnTheirWay("recv")) - 1
          /\ Cardinality(OnTheirWay("recv") \ {Me}) \in Nat
      BY WayCount
    <2>2. Cardinality(OnTheirWay("recv")') = Cardinality(OnTheirWay("recv") \ {Me})
      BY <1>6
    <2>3. wl["recv"] # << >> => entry <= Cardinality(OnTheirWay("recv"))
      BY ReceiverForm DEF QueueInv
    <2>4. wl' = wl /\ entry \in Nat
      BY <1>1
    <2>5. wl'["recv"] # << >> => entry' <= Cardinality(OnTheirWay("recv")')
      BY <1>4, <2>1, <2>2, <2>3, <2>4
    <2> QED  BY <2>5, ReceiverFormNext
  <1> QED  BY <1>6, <1>7, <1>8, <1>9, <1>10, <1>11 DEF QueueInv

\* It copies the message out of the block.
LEMMA RecvCopyStep ==
    ASSUME QueueInv, MQ!RecvCopy
    PROVE  QueueInv'
  <1> USE QueueTypes
  <1>1. /\ pc[Me] = "copy" /\ pc' = [pc EXCEPT ![Me] = "put"]
        /\ UNCHANGED <<k, wl, call>> /\ UNCHANGED MQ!mqVars
    BY SamePlaces DEF MQ!RecvCopy, At, Goto
  <1>2. IpcInv' /\ OnTheirWay("recv")' = OnTheirWay("recv")
    <2>1. pc'[Me] = "put" /\ \A t \in Thread \ {Me} : pc'[t] = pc[t] /\ call'[t] = call[t]
      BY <1>1
    <2>2. IpcInv' /\ OnTheirWay("recv")' = OnTheirWay("recv") \ {Me}
      BY <1>1, <2>1, QuietSame
    <2>3. Me \notin OnTheirWay("recv")
      BY <1>1, WayMember
    <2> QED  BY <2>2, <2>3
  <1>3. QueueControl'
    <2>1. UNCHANGED hand
      BY <1>1 DEF MQ!mqVars
    <2> QED  BY <1>1, <2>1 DEF QueueInv, QueueControl, Handing
  <1>4. ~ At("reset") /\ \A t \in Thread : pc'[t] = "copy" => pc[t] = "copy"
    BY <1>1 DEF At
  <1> QED  BY <1>1, <1>2, <1>3, <1>4, QueueRests

\* The block leaves the receiver's hand for the free list.
LEMMA RecvPutLayout ==
    ASSUME QueueInv, MQ!RecvPut, NEW q, NEW f, Layout(q, f), NEW b, b = hand[Me]
    PROVE  Layout(q, <<b>> \o f)' /\ next' \in [MqBlock -> MqBlock \cup {Null}]
  <1> USE QueueTypes
  <1>1. /\ pc[Me] = "put" /\ next' = [next EXCEPT ![b] = free] /\ free' = b
        /\ hand' = [hand EXCEPT ![Me] = Null] /\ UNCHANGED <<head, tail, entry>>
    BY SamePlaces DEF MQ!RecvPut, At
  <1>2. b \in MqBlock /\ ~ At("reset")
    BY <1>1 DEF QueueInv, QueueControl, Handing, At
  <1>3. /\ ToSet(q) \cap ToSet(f) = {}
        /\ \A t \in Thread : hand[t] \notin ToSet(q) \cup ToSet(f)
        /\ \A t, v \in Thread : hand[t] = hand[v] /\ hand[t] # Null => t = v
        /\ \A d \in MqBlock : d \in ToSet(q) \cup ToSet(f) \/ \E t \in Thread : hand[t] = d
    BY DEF Layout, Places
  <1>4. /\ Linked(next, q, head) /\ Distinct(q) /\ Linked(next, f, free) /\ Distinct(f)
        /\ ToSet(q) \subseteq MqBlock /\ ToSet(f) \subseteq MqBlock
        /\ next \in [MqBlock -> MqBlock \cup {Null}] /\ free \in MqBlock \cup {Null}
    <2>1. Linked(next, q, head) /\ Distinct(q) /\ Linked(next, f, free) /\ Distinct(f)
      BY DEF Layout
    <2>2. ToSet(q) \subseteq MqBlock /\ ToSet(f) \subseteq MqBlock
      BY <2>1, LenProperties, ElementOfSeq DEF Linked, Chained, ToSet
    <2>3. next \in [MqBlock -> MqBlock \cup {Null}]
      BY DEF QueueInv, QueueData
    <2>4. free \in MqBlock \cup {Null}
      BY <2>1, LinkedHead
    <2> QED  BY <2>1, <2>2, <2>3, <2>4
  <1>5. /\ next' \in [MqBlock -> MqBlock \cup {Null}] /\ next'[b] = free
        /\ \A d \in MqBlock \ {b} : next'[d] = next[d]
    BY <1>1, <1>2, <1>4
  <1>6. b \notin ToSet(q) /\ b \notin ToSet(f)
    BY <1>3
  <1>7. Linked(next', q, head')
    <2>1. \A d \in ToSet(q) : next'[d] = next[d]
      BY <1>4, <1>5, <1>6
    <2>2. Linked(next', q, head)
      BY <1>4, <2>1, LinkedSame
    <2> QED  BY <1>1, <2>2
  <1> DEFINE r == <<b>> \o f
  <1>8. Linked(next', r, free') /\ Distinct(r) /\ ToSet(r) = ToSet(f) \cup {b}
    <2>1. \A d \in ToSet(f) : next'[d] = next[d]
      BY <1>4, <1>5, <1>6
    <2>2. Linked(next', r, b) /\ Distinct(r) /\ ToSet(r) = ToSet(f) \cup {b}
      BY <1>2, <1>4, <1>5, <1>6, <2>1, LinkedCons
    <2> QED  BY <1>1, <2>2
  <1>9. Places(ToSet(q), ToSet(f) \cup {b})'
    <2>1. /\ b # Null /\ hand'[Me] = Null
          /\ \A t \in Thread \ {Me} : hand'[t] = hand[t] /\ hand[t] # b
      BY <1>1, <1>2, <1>3
    <2>2. \A t \in Thread : hand'[t] \notin ToSet(q) \cup (ToSet(f) \cup {b})
      BY <1>3, <1>4, <2>1
    <2>3. \A t, v \in Thread : hand'[t] = hand'[v] /\ hand'[t] # Null => t = v
      BY <1>3, <2>1
    <2>4. \A d \in MqBlock :
             d \in ToSet(q) \cup (ToSet(f) \cup {b}) \/ \E t \in Thread : hand'[t] = d
      BY <1>3, <2>1
    <2> QED  BY <1>3, <1>6, <2>2, <2>3, <2>4 DEF Places
  <1>10. entry = Len(q) /\ tail = IF q = << >> THEN Null ELSE q[Len(q)]
    BY <1>2 DEF Layout
  <1> HIDE DEF r
  <1>11. Layout(q, r)'
    BY <1>1, <1>4, <1>7, <1>8, <1>9, <1>10 DEF Layout
  <1> QED  BY <1>5, <1>11 DEF r

LEMMA RecvPutStep ==
    ASSUME QueueInv, MQ!RecvPut
    PROVE  QueueInv'
  <1> USE QueueTypes
  <1>1. /\ pc[Me] = "put" /\ hand' = [hand EXCEPT ![Me] = Null]
        /\ taken' = [taken EXCEPT ![Me] = Nothing]
        /\ pc' = [pc EXCEPT ![Me] = "run"] /\ call' = [call EXCEPT ![Me] = NoCall]
        /\ UNCHANGED <<k, wl>> /\ UNCHANGED <<body, entry, last>>
    BY SamePlaces DEF MQ!RecvPut, At, EndCall, Goto
  <1>2. PICK q, f : Layout(q, f)
    BY DEF QueueInv
  <1>3. /\ \E p, g : Layout(p, g)'
        /\ next' \in [MqBlock -> MqBlock \cup {Null}]
    BY <1>2, RecvPutLayout
  <1>4. IpcInv' /\ OnTheirWay("recv")' = OnTheirWay("recv")
    <2>1. pc'[Me] = "run" /\ \A t \in Thread \ {Me} : pc'[t] = pc[t] /\ call'[t] = call[t]
      BY <1>1
    <2>2. IpcInv' /\ OnTheirWay("recv")' = OnTheirWay("recv") \ {Me}
      BY <1>1, <2>1, QuietSame
    <2>3. Me \notin OnTheirWay("recv")
      BY <1>1, WayMember
    <2> QED  BY <2>2, <2>3
  <1>5. QueueControl'
    BY <1>1 DEF QueueInv, QueueControl, IpcPc, Handing
  <1>6. QueueData'
    BY <1>1, <1>3 DEF QueueInv, QueueData
  <1>7. (\E p, g : Layout(p, g))'
    BY <1>3
  <1>8. MQ!CopyIntact'
    BY <1>1 DEF QueueInv, MQ!CopyIntact
  <1>9. MQ!NoStrandedReceiver'
    BY <1>1, <1>4, ReceiverForm, ReceiverFormNext DEF QueueInv
  <1> QED  BY <1>4, <1>5, <1>6, <1>7, <1>8, <1>9 DEF QueueInv

\* It finds no message and waits, or waits no longer.
LEMMA EmptyQueueRests ==
    ASSUME QueueInv, IpcInv', UNCHANGED MQ!mqVars, QueueControl',
           pc[Me] # "reset", entry = 0,
           \A t \in Thread : pc'[t] = "copy" => pc[t] = "copy"
    PROVE  QueueInv'
  <1>1. /\ UNCHANGED <<head, tail, free, next, body>>
        /\ UNCHANGED <<entry, hand, taken, last>>
    BY DEF MQ!mqVars
  <1>2. QueueData'
    BY <1>1 DEF QueueInv, QueueData
  <1>3. (\E q, f : Layout(q, f))'
    <2>1. PICK q, f : Layout(q, f)
      BY DEF QueueInv
    <2>2. Layout(q, f)'
      BY <1>1, <2>1 DEF Layout, Places, At
    <2> QED  BY <2>2
  <1>4. MQ!CopyIntact'
    BY <1>1 DEF QueueInv, MQ!CopyIntact
  <1>5. MQ!NoStrandedReceiver'
    <2>1. OnTheirWay("recv")' \in SUBSET Thread
      BY DEF OnTheirWay, Woken
    <2>2. Cardinality(OnTheirWay("recv")') \in Nat
      BY <2>1, KernelAssumption, FS_Subset, FS_CardinalityType
    <2>3. entry' <= Cardinality(OnTheirWay("recv")')
      BY <1>1, <2>2
    <2> QED  BY <2>3, ReceiverFormNext
  <1> QED  BY <1>2, <1>3, <1>4, <1>5 DEF QueueInv

LEMMA RecvWaitStep ==
    ASSUME QueueInv, NEW time \in Wait, MQ!RecvBlock(MQ!RecvCall(time))
    PROVE  QueueInv'
  <1> USE QueueTypes
  <1> DEFINE c == MQ!RecvCall(time)
  <1>1. /\ Testing(c) /\ entry = 0 /\ UNCHANGED MQ!mqVars /\ c.op = "recv" /\ c.time = time
        /\ Block("recv", EnqueueWaiter(k, wl["recv"], Me, Flag), c, time)
    BY SamePlaces, SameKernel, SameSections DEF MQ!RecvBlock, MQ!RecvCall
  <1>2. c \in MQ!Calls
    BY SamePlaces DEF MQ!Calls
  <1> HIDE DEF c
  <1>3. pc[Me] \in {"run", "wait"} /\ hand[Me] = Null
    BY <1>1, TesterHands
  <1>4. IpcInv'
    BY <1>1, BlockSection
  <1>5. pc' = [pc EXCEPT ![Me] = "blocked"] /\ call' = [call EXCEPT ![Me] = c]
    BY <1>1 DEF Block, Goto
  <1>6. QueueControl'
    <2>1. UNCHANGED hand
      BY <1>1 DEF MQ!mqVars
    <2> QED  BY <1>2, <1>3, <1>5, <2>1 DEF QueueInv, QueueControl, IpcPc, Handing
  <1>7. \A t \in Thread : pc'[t] = "copy" => pc[t] = "copy"
    BY <1>5
  <1> QED  BY <1>1, <1>3, <1>4, <1>6, <1>7, EmptyQueueRests

LEMMA RecvExpiredStep ==
    ASSUME QueueInv, MQ!RecvExpired
    PROVE  QueueInv'
  <1> USE QueueTypes
  <1>1. /\ entry = 0 /\ Expired("recv", "ETIMEOUT") /\ UNCHANGED MQ!mqVars
    BY SameSections DEF MQ!RecvExpired
  <1>2. /\ pc[Me] = "wait" /\ pc' = [pc EXCEPT ![Me] = "run"]
        /\ call' = [call EXCEPT ![Me] = NoCall]
        /\ k' = [k EXCEPT !.err[Me] = "ETIMEOUT"] /\ UNCHANGED wl
    BY <1>1 DEF Expired, Retrying, At, EndCall, Goto
  <1>3. "ETIMEOUT" \in Err
    BY DEF Err
  <1>4. IpcInv'
    <2>1. /\ pc[Me] \notin {"pend", "blocked", "reset"} /\ pc'[Me] \notin {"blocked", "wait"}
          /\ \A t \in Thread \ {Me} : pc'[t] = pc[t] /\ call'[t] = call[t]
      BY <1>2
    <2> QED  BY <1>2, <1>3, <2>1, QuietSection
  <1>5. QueueControl'
    <2>1. UNCHANGED hand
      BY <1>1 DEF MQ!mqVars
    <2> QED  BY <1>2, <2>1 DEF QueueInv, QueueControl, IpcPc, Handing
  <1>6. \A t \in Thread : pc'[t] = "copy" => pc[t] = "copy"
    BY <1>2
  <1> QED  BY <1>1, <1>2, <1>4, <1>5, <1>6, EmptyQueueRests

\* A reset wakes the receivers one by one.
LEMMA QueueResetStep ==
    ASSUME QueueInv, UNCHANGED MQ!mqVars,
           MQ!ResetBegin \/ \E l \in WaitList : MQ!ResetResume(l)
    PROVE  QueueInv'
  <1> USE QueueTypes
  <1>0. UNCHANGED hand
    BY DEF MQ!mqVars
  <1>1. CASE MQ!ResetBegin
    <2>1. /\ pc[Me] = "run" /\ pc' = [pc EXCEPT ![Me] = "reset"] /\ UNCHANGED <<k, wl, call>>
      BY <1>1, SameSections DEF ResetBegin, Calling, At, Goto
    <2>2. pc'[Me] = "reset" /\ \A t \in Thread \ {Me} : pc'[t] = pc[t] /\ call'[t] = call[t]
      BY <2>1
    <2>3. IpcInv' /\ OnTheirWay("recv")' = OnTheirWay("recv") \ {Me}
      BY <2>1, <2>2, QuietSame
    <2>4. Me \notin OnTheirWay("recv")
      BY <2>1, WayMember
    <2>5. QueueControl'
      BY <1>0, <2>1 DEF QueueInv, QueueControl, IpcPc, Handing
    <2>6. /\ ~ At("reset") /\ OnTheirWay("recv")' = OnTheirWay("recv")
          /\ \A t \in Thread : pc'[t] = "copy" => pc[t] = "copy"
      BY <2>1, <2>3, <2>4 DEF At
    <2> QED  BY <2>1, <2>3, <2>5, <2>6, QueueRests
  <1>2. ASSUME NEW l \in WaitList, MQ!ResetResume(l) PROVE QueueInv'
    <2>1. ResetResume(l) /\ UNCHANGED <<pc, call>>
      BY <1>2, SameSections DEF ResetResume
    <2>2. /\ IpcInv' /\ Me' = Me /\ OnTheirWay("recv")' = OnTheirWay("recv")
          /\ wl["recv"] = << >> => wl'["recv"] = << >>
      BY <2>1, ResetResumeSection
    <2>3. QueueControl'
      BY <1>0, <2>1 DEF QueueInv, QueueControl
    <2>4. At("reset") => At("reset")'
      BY <2>1, <2>2 DEF At
    <2> QED  BY <2>1, <2>2, <2>3, <2>4, QueueRests
  <1> QED  BY <1>1, <1>2

\* It moves the first block of the queue to the free list.
LEMMA ResetBlockLayout ==
    ASSUME QueueInv, MQ!ResetBlock, NEW q, NEW f, Layout(q, f), NEW b, b = head
    PROVE  /\ Layout(Tail(q), <<b>> \o f)'
           /\ next' \in [MqBlock -> MqBlock \cup {Null}]
  <1> USE QueueTypes
  <1>1. /\ At("reset") /\ b # Null /\ MQ!Unlink /\ next' = [next EXCEPT ![b] = free]
        /\ free' = b /\ UNCHANGED <<k, pc, hand, entry>>
    BY SamePlaces DEF MQ!ResetBlock, MQ!ipcVars
  <1>2. At("reset")'
    BY <1>1 DEF At, Me
  <1>3. /\ ToSet(q) \cap ToSet(f) = {}
        /\ \A t \in Thread : hand[t] \notin ToSet(q) \cup ToSet(f)
        /\ \A t, v \in Thread : hand[t] = hand[v] /\ hand[t] # Null => t = v
        /\ \A d \in MqBlock : d \in ToSet(q) \cup ToSet(f) \/ \E t \in Thread : hand[t] = d
    BY DEF Layout, Places
  <1>4. /\ Linked(next, q, head) /\ Distinct(q) /\ Linked(next, f, free) /\ Distinct(f)
        /\ tail = IF q = << >> THEN Null ELSE q[Len(q)]
        /\ ToSet(q) \subseteq MqBlock /\ ToSet(f) \subseteq MqBlock
        /\ next \in [MqBlock -> MqBlock \cup {Null}] /\ free \in MqBlock \cup {Null}
    <2>1. /\ Linked(next, q, head) /\ Distinct(q) /\ Linked(next, f, free) /\ Distinct(f)
          /\ tail = IF q = << >> THEN Null ELSE q[Len(q)]
      BY DEF Layout
    <2>2. ToSet(q) \subseteq MqBlock /\ ToSet(f) \subseteq MqBlock
      BY <2>1, LenProperties, ElementOfSeq DEF Linked, Chained, ToSet
    <2>3. next \in [MqBlock -> MqBlock \cup {Null}]
      BY DEF QueueInv, QueueData
    <2>4. free \in MqBlock \cup {Null}
      BY <2>1, LinkedHead
    <2> QED  BY <2>1, <2>2, <2>3, <2>4
  <1>5. q # << >>
    BY <1>1, <1>4, LinkedHead
  <1>6. /\ b \in MqBlock /\ b \in ToSet(q)
        /\ Linked(next, Tail(q), head') /\ Distinct(Tail(q))
        /\ ToSet(Tail(q)) = ToSet(q) \ {b}
        /\ tail' = IF Tail(q) = << >> THEN Null ELSE Tail(q)[Len(Tail(q))]
    BY <1>1, <1>4, <1>5, UnlinkBlock
  <1>7. /\ next' \in [MqBlock -> MqBlock \cup {Null}] /\ next'[b] = free
        /\ \A d \in MqBlock \ {b} : next'[d] = next[d]
    BY <1>1, <1>4, <1>6
  <1>8. b \notin ToSet(f)
    BY <1>3, <1>6
  <1>9. Linked(next', Tail(q), head')
    <2>1. \A d \in ToSet(Tail(q)) : next'[d] = next[d]
      BY <1>4, <1>6, <1>7
    <2> QED  BY <1>6, <2>1, LinkedSame
  <1> DEFINE r == <<b>> \o f
  <1>10. Linked(next', r, free') /\ Distinct(r) /\ ToSet(r) = ToSet(f) \cup {b}
    <2>1. \A d \in ToSet(f) : next'[d] = next[d]
      BY <1>4, <1>7, <1>8
    <2>2. Linked(next', r, b) /\ Distinct(r) /\ ToSet(r) = ToSet(f) \cup {b}
      BY <1>4, <1>6, <1>7, <1>8, <2>1, LinkedCons
    <2> QED  BY <1>1, <2>2
  <1>11. Places(ToSet(q) \ {b}, ToSet(f) \cup {b})'
    BY <1>1, <1>3, <1>6 DEF Places
  <1>12. entry' = entry /\ entry \in 0 .. Cardinality(MqBlock)
    BY <1>1
  <1> HIDE DEF r
  <1>13. Layout(Tail(q), r)'
    BY <1>2, <1>6, <1>9, <1>10, <1>11, <1>12 DEF Layout
  <1> QED  BY <1>7, <1>13 DEF r

LEMMA ResetBlockStep ==
    ASSUME QueueInv, MQ!ResetBlock
    PROVE  QueueInv'
  <1> USE QueueTypes
  <1>1. /\ UNCHANGED ipcVars /\ UNCHANGED <<body, entry, hand, taken, last>>
    BY DEF MQ!ResetBlock, MQ!ipcVars, ipcVars
  <1>2. PICK q, f : Layout(q, f)
    BY DEF QueueInv
  <1>3. /\ \E p, g : Layout(p, g)'
        /\ next' \in [MqBlock -> MqBlock \cup {Null}]
    BY <1>2, ResetBlockLayout
  <1>4. (\E p, g : Layout(p, g))'
    BY <1>3
  <1>5. IpcInv' /\ OnTheirWay("recv")' = OnTheirWay("recv")
    BY <1>1, SameIpc
  <1>6. QueueControl'
    BY <1>1 DEF ipcVars, QueueInv, QueueControl
  <1>7. QueueData'
    BY <1>1, <1>3 DEF QueueInv, QueueData
  <1>8. MQ!CopyIntact'
    BY <1>1 DEF ipcVars, QueueInv, MQ!CopyIntact
  <1>9. MQ!NoStrandedReceiver'
    BY <1>1, <1>5, ReceiverForm, ReceiverFormNext DEF ipcVars, QueueInv
  <1> QED  BY <1>4, <1>5, <1>6, <1>7, <1>8, <1>9 DEF QueueInv

\* It ends with an empty queue.
LEMMA QueueResetEnds ==
    ASSUME QueueInv, MQ!Reset
    PROVE  QueueInv'
  <1> USE QueueTypes
  <1>1. /\ ResetEnd /\ head = Null /\ entry' = 0
        /\ UNCHANGED <<head, tail, free, next>> /\ UNCHANGED <<body, hand, taken, last>>
    BY SameSections DEF MQ!Reset
  <1>2. /\ IpcInv' /\ wl'["recv"] = << >>
    BY <1>1, ResetEndSection
  <1>3. pc[Me] = "reset" /\ pc' = [pc EXCEPT ![Me] = "pend"] /\ UNCHANGED call
    BY <1>1 DEF ResetEnd, At, Goto
  <1>4. QueueControl'
    BY <1>1, <1>3 DEF QueueInv, QueueControl, IpcPc, Handing
  <1>5. QueueData'
    BY <1>1 DEF QueueInv, QueueData
  <1>6. (\E q, f : Layout(q, f))'
    <2>1. PICK q, f : Layout(q, f)
      BY DEF QueueInv
    <2>2. q = << >>
      BY <1>1, <2>1, LinkedHead DEF Layout
    <2>3. entry' = Len(q)
      BY <1>1, <2>2
    <2>4. Layout(q, f)'
      BY <1>1, <2>1, <2>3 DEF Layout, Places
    <2> QED  BY <2>4
  <1>7. MQ!CopyIntact'
    BY <1>1, <1>3 DEF QueueInv, MQ!CopyIntact
  <1>8. MQ!NoStrandedReceiver'
    BY <1>2, ReceiverFormNext
  <1> QED  BY <1>2, <1>4, <1>5, <1>6, <1>7, <1>8 DEF QueueInv

\* Every step of the queue and its interrupts keeps the invariant.
LEMMA QueueInvNext == QueueInv /\ MQ!Next => QueueInv'
  <1> SUFFICES ASSUME QueueInv, MQ!Next PROVE QueueInv'
    OBVIOUS
  <1>0. MQ!Wait = Wait
    BY SamePlaces
  <1>1. CASE MQ!IpcStep /\ UNCHANGED MQ!mqVars
    BY <1>1, QueueIpcStep
  <1>2. ASSUME NEW v \in Message, NEW urgent \in BOOLEAN,
               MQ!SendAlloc(v, urgent) \/ MQ!IsrSend(v, urgent)
        PROVE  QueueInv'
    BY <1>2, SendAllocStep, QueueIsrSendStep
  <1>3. CASE MQ!SendFill \/ MQ!SendLink
    BY <1>3, SendFillStep, SendLinkStep
  <1>4. ASSUME NEW time \in Wait,
               MQ!RecvUnlink(MQ!RecvCall(time)) \/ MQ!RecvBlock(MQ!RecvCall(time))
        PROVE  QueueInv'
    BY <1>4, RecvUnlinkStep, RecvWaitStep
  <1>5. CASE MQ!RecvCopy \/ MQ!RecvPut \/ MQ!RecvExpired
    BY <1>5, RecvCopyStep, RecvPutStep, RecvExpiredStep
  <1>6. CASE (MQ!ResetBegin \/ \E l \in WaitList : MQ!ResetResume(l)) /\ UNCHANGED MQ!mqVars
    BY <1>6, QueueResetStep
  <1>7. CASE MQ!ResetBlock \/ MQ!Reset
    BY <1>7, ResetBlockStep, QueueResetEnds
  <1> QED  BY <1>0, <1>1, <1>2, <1>3, <1>4, <1>5, <1>6, <1>7 DEF MQ!Next

\* rt_mq_init links every block to the free list.
LEMMA QueueInvInit == MQ!Init => QueueInv
  <1> SUFFICES ASSUME MQ!Init PROVE QueueInv
    OBVIOUS
  <1> DEFINE order == MQ!SetToSeq(MqBlock)
  <1>1. IsFiniteSet(MqBlock) /\ MqBlock # {} /\ Null \notin MqBlock /\ WaitList = {"recv", "send"}
    BY QueuesAssumption, MailboxAssumption
       DEF MQ!MessageQueueAssumption, MQ!IsFiniteSet, IsFiniteSet
  <1>2. /\ order \in Seq(MqBlock) /\ Distinct(order) /\ ToSet(order) = MqBlock
        /\ Len(order) = Cardinality(MqBlock) /\ Len(order) \in Nat
    BY <1>1, SameSetToSeq, SetInSequence, LenProperties
  <1>3. order # << >>
    BY <1>1, <1>2 DEF ToSet
  <1>4. /\ IpcInit /\ head = Null /\ tail = Null /\ entry = 0 /\ free = order[1]
        /\ next = [b \in MqBlock |->
                      LET i == MQ!SelectInSeq(order, LAMBDA c : c = b)
                      IN  IF i = Len(order) THEN Null ELSE order[i + 1]]
        /\ body = [b \in MqBlock |-> Nothing] /\ hand = [t \in Thread |-> Null]
        /\ taken = [t \in Thread |-> Nothing] /\ last = Nothing
    <2>1. MQ!IpcInit => IpcInit
      BY SamePlaces DEF MQ!IpcInit, MQ!SectionsInit, IpcInit, SectionsInit, MQ!Prio, Prio
    <2>2. /\ MQ!IpcInit /\ head = Null /\ tail = Null /\ entry = 0 /\ free = order[1]
          /\ body = [b \in MqBlock |-> Nothing] /\ hand = [t \in Thread |-> Null]
          /\ taken = [t \in Thread |-> Nothing] /\ last = Nothing
      BY DEF MQ!Init
    <2>3. next = [b \in MqBlock |->
                     LET i == MQ!SelectInSeq(order, LAMBDA c : c = b)
                     IN  IF i = Len(order) THEN Null ELSE order[i + 1]]
      BY Zenon DEF MQ!Init
    <2> QED  BY <2>1, <2>2, <2>3
  <1> HIDE DEF order
  <1>5. ASSUME NEW j \in 1 .. Len(order)
        PROVE  MQ!SelectInSeq(order, LAMBDA c : c = order[j]) = j
    <2> DEFINE I == {i \in 1 .. Len(order) : order[i] = order[j]}
    <2>1. I = {j}
      BY <1>2, <1>5, LenProperties DEF Distinct
    <2>2. MQ!SelectInSeq(order, LAMBDA c : c = order[j]) = IF I # {} THEN MQ!Min(I) ELSE 0
      BY DEF MQ!SelectInSeq
    <2>3. MQ!Min({j}) = j
      BY <1>2 DEF MQ!Min
    <2> QED  BY <2>1, <2>2, <2>3
  <1>6. ASSUME NEW j \in 1 .. Len(order)
        PROVE  /\ order[j] \in MqBlock
               /\ next[order[j]] = IF j = Len(order) THEN Null ELSE order[j + 1]
    <2>1. order[j] \in MqBlock
      BY <1>2, ElementOfSeq
    <2> QED  BY <1>4, <1>5, <2>1
  <1>7. Linked(next, order, free)
    BY <1>2, <1>3, <1>4, <1>6 DEF Linked, Chained
  <1>8. next \in [MqBlock -> MqBlock \cup {Null}]
    <2>1. ASSUME NEW b \in MqBlock PROVE next[b] \in MqBlock \cup {Null}
      <3>1. PICK j \in 1 .. Len(order) : b = order[j]
        BY <1>2, LenProperties DEF ToSet
      <3>2. j # Len(order) => j + 1 \in 1 .. Len(order)
        BY <1>2
      <3> QED  BY <1>2, <1>6, <3>1, <3>2, ElementOfSeq
    <2> QED  BY <1>4, <2>1
  <1>9. Linked(next, << >>, head) /\ Distinct(<< >>) /\ ToSet(<< >>) = {}
    BY <1>4 DEF Linked, Chained, Distinct, ToSet
  <1>10. Layout(<< >>, order)
    <2>1. Places({}, MqBlock)
      BY <1>1, <1>4 DEF Places
    <2> QED  BY <1>2, <1>4, <1>7, <1>9, <2>1 DEF Layout
  <1>11. IpcInv
    BY <1>4, IpcInvInit
  <1>12. /\ pc = [t \in Thread |-> "run"] /\ call = [t \in Thread |-> NoCall]
         /\ wl = [l \in WaitList |-> << >>]
    BY <1>4 DEF IpcInit, SectionsInit
  <1>13. QueueControl
    <2>1. NoCall \in MQ!Calls
      BY SamePlaces DEF MQ!Calls
    <2> QED  BY <1>4, <1>12, <2>1 DEF QueueControl, IpcPc, Handing
  <1>14. QueueData
    BY <1>4, <1>8 DEF QueueData
  <1>15. MQ!CopyIntact
    BY <1>12 DEF MQ!CopyIntact
  <1>16. MQ!NoStrandedReceiver
    BY <1>1, <1>12 DEF MQ!NoStrandedReceiver
  <1> QED  BY <1>10, <1>11, <1>13, <1>14, <1>15, <1>16 DEF QueueInv

-----------------------------------------------------------------------------
(* Either object *)

\* The inductive invariant of the object that is used.
QueuesInv ==
    /\ object \in {"mailbox", "queue"}
    /\ object = "mailbox" => MailboxInv
    /\ object = "queue" => QueueInv

LEMMA QueuesInvInit == QueuesInit => QueuesInv
  BY MailboxInvInit, QueueInvInit DEF QueuesInit, QueuesInv

LEMMA MailboxStutter ==
    ASSUME MailboxInv, UNCHANGED vars
    PROVE  MailboxInv'
  <1>1. UNCHANGED ipcVars /\ UNCHANGED <<pool, entry, in_offset, out_offset, received>>
    BY DEF vars, mbVars
  <1>2. IpcInv' /\ \A o : OnTheirWay(o)' = OnTheirWay(o)
    BY <1>1, SameIpc DEF MailboxInv
  <1>3. UNCHANGED <<k, wl, pc, call>>
    BY <1>1 DEF ipcVars
  <1>4. MailboxData' /\ InPlace'
    BY <1>1, <1>3 DEF MailboxInv, MailboxData, InPlace
  <1>5. NoStrandedWaiter'
    BY <1>1, <1>2, <1>3, StrandedForm, StrandedFormNext DEF MailboxInv
  <1> QED  BY <1>2, <1>4, <1>5 DEF MailboxInv

LEMMA QueueStutter ==
    ASSUME QueueInv, UNCHANGED ipcVars, UNCHANGED MQ!mqVars
    PROVE  QueueInv'
  <1>1. UNCHANGED <<k, wl, pc, call>> /\ UNCHANGED hand
    BY DEF ipcVars, MQ!mqVars
  <1>2. IpcInv' /\ OnTheirWay("recv")' = OnTheirWay("recv")
    BY SameIpc DEF QueueInv
  <1>3. QueueControl'
    BY <1>1 DEF QueueInv, QueueControl
  <1>4. At("reset") => At("reset")'
    BY <1>1 DEF At, Me
  <1> QED  BY <1>1, <1>2, <1>3, <1>4, QueueRests

LEMMA QueuesInvStep ==
    ASSUME QueuesInv,
           [QueuesNext]_<<object, vars, head, tail, free, next, body, hand, taken, last>>
    PROVE  QueuesInv'
  <1>1. CASE MailboxNext
    BY <1>1, MailboxInvNext DEF QueuesInv, MailboxNext
  <1>2. CASE QueueNext
    BY <1>2, QueueInvNext DEF QueuesInv, QueueNext
  <1>3. CASE UNCHANGED <<object, vars, head, tail, free, next, body, hand, taken, last>>
    <2>1. UNCHANGED object /\ UNCHANGED vars
      BY <1>3
    <2>2. UNCHANGED ipcVars /\ UNCHANGED MQ!mqVars
      BY <1>3 DEF vars, mbVars, MQ!mqVars
    <2> QED  BY <2>1, <2>2, MailboxStutter, QueueStutter DEF QueuesInv
  <1> QED  BY <1>1, <1>2, <1>3 DEF QueuesNext

-----------------------------------------------------------------------------
(* The theorems *)

\* The invariant holds in every reachable state: of rt_mb_send, rt_mb_recv,
\* rt_mq_send, rt_mq_urgent, rt_mq_recv, the resets and the tick interrupt.
THEOREM QueuesInvariant == QueuesSpec => []QueuesInv
  <1>1. QueuesInit => QueuesInv
    BY QueuesInvInit
  <1>2. QueuesInv /\ [QueuesNext]_<<object, vars, head, tail, free, next, body,
                                    hand, taken, last>> => QueuesInv'
    BY QueuesInvStep
  <1> QED  BY <1>1, <1>2, PTL DEF QueuesSpec

\* The kernel and the wait lists are consistent whichever object is used, and no
\* woken thread of higher priority is passed over once rt_schedule has run.
THEOREM QueuesStayConsistent == QueuesSpec => []QueuesConsistent
  <1>1. ASSUME QueuesInv, object = "mailbox" PROVE Consistent
    <2>1. MailboxInv
      BY <1>1 DEF QueuesInv
    <2> USE MailboxTypes
    <2>2. KernelConsistent /\ WaitersParked /\ PreemptionPending /\ k \in KernelState
      BY <2>1 DEF MailboxInv, IpcInv, Scheduled, KernelConsistent
    <2>3. TypeOK
      BY <2>1, <2>2 DEF TypeOK, IpcTypeOK, MailboxInv, MailboxData, IpcInv
    <2> QED  BY <2>2, <2>3 DEF Consistent
  <1>2. ASSUME QueuesInv, object = "queue" PROVE MQ!Consistent
    <2>1. QueueInv
      BY <1>2 DEF QueuesInv
    <2> USE QueueTypes
    <2>2. MQ!KernelConsistent /\ k \in MQ!KernelState
      BY <2>1, SameKernel, IpcTypes DEF MQ!KernelConsistent
    <2>3. MQ!WaitersParked
      <3>1. WaitersParked
        BY <2>1 DEF QueueInv, IpcInv
      <3> QED  BY <3>1, SameLists, SamePlaces DEF WaitersParked, MQ!WaitersParked
    <2>4. MQ!PreemptionPending
      <3>1. PreemptionPending
        BY <2>1 DEF QueueInv, IpcInv
      <3> QED  BY <3>1, SameKernel, SamePlaces DEF PreemptionPending, MQ!PreemptionPending
    <2>5. MQ!IpcTypeOK
      <3>1. MQ!App = App /\ wl \in [WaitList -> Seq(App)]
        BY <2>1, SamePlaces, IpcTypes
      <3> QED  BY <2>2, <3>1 DEF MQ!IpcTypeOK
    <2>6. {head, tail, free} \subseteq MqBlock \cup {Null}
      <3>1. PICK q, f : Layout(q, f)
        BY <2>1 DEF QueueInv
      <3>2. head \in MqBlock \cup {Null} /\ free \in MqBlock \cup {Null}
        BY <2>1, <3>1, LinkedHead DEF Layout
      <3>3. tail \in MqBlock \cup {Null}
        <4>1. q \in Seq(MqBlock) /\ Len(q) \in Nat
          BY <3>1, LenProperties DEF Layout, Linked, Chained
        <4>2. q # << >> => Len(q) \in 1 .. Len(q)
          BY <4>1, EmptySeq
        <4>3. q # << >> => q[Len(q)] \in MqBlock
          BY <4>1, <4>2, ElementOfSeq
        <4>4. tail = IF q = << >> THEN Null ELSE q[Len(q)]
          BY <3>1 DEF Layout
        <4> QED  BY <4>3, <4>4
      <3> QED  BY <3>2, <3>3
    <2>7. pc \in [Thread -> MQ!IpcPc \cup {"fill", "link", "copy", "put"}]
      BY <2>1 DEF IpcPc, MQ!IpcPc, Handing
    <2>8. entry \in 0 .. MQ!Cardinality(MqBlock)
      BY <2>1, SameCardinality
    <2>9. MQ!TypeOK
      BY <2>1, <2>5, <2>6, <2>7, <2>8 DEF MQ!TypeOK, QueueInv, QueueData
    <2> QED  BY <2>2, <2>3, <2>4, <2>9 DEF MQ!Consistent
  <1>3. QueuesInv => QueuesConsistent
    BY <1>1, <1>2 DEF QueuesInv, QueuesConsistent
  <1> QED  BY <1>3, QueuesInvariant, PTL

\* No thread waits for a slot or a message that is there, unless as many threads
\* as there are slots or messages were woken for them.
THEOREM QueuesStrandNobody == QueuesSpec => []NoThreadStranded
  <1>1. QueuesInv => NoThreadStranded
    BY DEF QueuesInv, NoThreadStranded, MailboxInv, QueueInv
  <1> QED  BY <1>1, QueuesInvariant, PTL

\* What rt_mq_recv copies is the message that it took off the queue: nobody
\* writes a block that is in a receiver's hand.
THEOREM QueuesCopyIntact == QueuesSpec => []CopyIntact
  <1>1. QueuesInv => CopyIntact
    BY DEF QueuesInv, CopyIntact, QueueInv
  <1> QED  BY <1>1, QueuesInvariant, PTL

\* The blocks that are in hand, each once.
LEMMA HandsInSequence ==
    ASSUME QueueInv, NEW q, NEW f, Layout(q, f)
    PROVE  LET T == {t \in Thread : hand[t] # Null}
               s == MQ!SetToSeq(T)
               h == [i \in DOMAIN s |-> hand[s[i]]]
           IN  /\ h \in Seq(MqBlock) /\ Distinct(h)
               /\ ToSet(h) = {hand[t] : t \in T}
  <1> DEFINE T == {t \in Thread : hand[t] # Null}
             s == MQ!SetToSeq(T)
             h == [i \in DOMAIN s |-> hand[s[i]]]
  <1> USE QueueTypes
  <1>1. IsFiniteSet(T)
    BY KernelAssumption, FS_Subset
  <1>2. s \in Seq(T) /\ Distinct(s) /\ ToSet(s) = T
    BY <1>1, SameSetToSeq, SetInSequence
  <1> HIDE DEF s
  <1>3. DOMAIN s = 1 .. Len(s) /\ Len(s) \in Nat /\ \A i \in DOMAIN s : s[i] \in T
    BY <1>2, LenProperties, ElementOfSeq
  <1>4. \A i \in DOMAIN s : hand[s[i]] \in MqBlock
    BY <1>3
  <1>5. h \in Seq(MqBlock) /\ DOMAIN h = DOMAIN s
    <2>1. h \in [1 .. Len(s) -> MqBlock]
      BY <1>3, <1>4
    <2> QED  BY <1>3, <2>1
  <1>6. Distinct(h)
    <2>1. \A t, v \in Thread : hand[t] = hand[v] /\ hand[t] # Null => t = v
      BY DEF Layout, Places
    <2>2. ASSUME NEW i \in DOMAIN s, NEW j \in DOMAIN s, h[i] = h[j] PROVE i = j
      <3>1. s[i] \in T /\ s[j] \in T /\ hand[s[i]] = hand[s[j]]
        BY <1>3, <2>2
      <3>2. s[i] = s[j]
        BY <2>1, <3>1
      <3> QED  BY <1>2, <3>2 DEF Distinct
    <2> QED  BY <1>5, <2>2 DEF Distinct
  <1>7. ToSet(h) = {hand[t] : t \in T}
    <2>1. \A t : t \in T <=> \E i \in DOMAIN s : s[i] = t
      BY <1>2 DEF ToSet
    <2>2. \A b : b \in ToSet(h) <=> \E i \in DOMAIN s : hand[s[i]] = b
      BY <1>5 DEF ToSet
    <2> QED  BY <2>1, <2>2
  <1> QED  BY <1>5, <1>6, <1>7 DEF s

\* Two lists without a common element, one behind the other.
LEMMA DistinctConcat ==
    ASSUME NEW A, NEW s \in Seq(A), NEW r \in Seq(A), Distinct(s), Distinct(r),
           ToSet(s) \cap ToSet(r) = {}
    PROVE  /\ s \o r \in Seq(A) /\ Distinct(s \o r)
           /\ ToSet(s \o r) = ToSet(s) \cup ToSet(r)
  <1> DEFINE q == s \o r
  <1>1. /\ q \in Seq(A) /\ Len(q) = Len(s) + Len(r) /\ Len(s) \in Nat /\ Len(r) \in Nat
        /\ \A i \in 1 .. Len(s) + Len(r) : q[i] = IF i <= Len(s) THEN s[i] ELSE r[i - Len(s)]
    BY LenProperties
  <1> HIDE DEF q
  <1>2. /\ DOMAIN q = 1 .. Len(s) + Len(r) /\ DOMAIN s = 1 .. Len(s)
        /\ DOMAIN r = 1 .. Len(r)
    BY <1>1, LenProperties
  <1>3. \A i \in DOMAIN q : \/ i \in DOMAIN s /\ q[i] = s[i]
                            \/ /\ i \notin DOMAIN s /\ i - Len(s) \in DOMAIN r
                               /\ q[i] = r[i - Len(s)]
    BY <1>1, <1>2
  <1>4. /\ \A i \in DOMAIN s : i \in DOMAIN q /\ q[i] = s[i]
        /\ \A i \in DOMAIN r : i + Len(s) \in DOMAIN q /\ q[i + Len(s)] = r[i]
    <2>1. \A i \in DOMAIN s : i \in DOMAIN q /\ q[i] = s[i]
      BY <1>1, <1>2
    <2>2. ASSUME NEW i \in DOMAIN r
          PROVE  i + Len(s) \in DOMAIN q /\ q[i + Len(s)] = r[i]
      <3>1. /\ i + Len(s) \in 1 .. Len(s) + Len(r) /\ ~ (i + Len(s) <= Len(s))
            /\ (i + Len(s)) - Len(s) = i
        BY <1>1, <1>2
      <3> QED  BY <1>1, <1>2, <3>1
    <2> QED  BY <2>1, <2>2
  <1>5. ToSet(q) = ToSet(s) \cup ToSet(r)
    <2>1. ToSet(q) \subseteq ToSet(s) \cup ToSet(r)
      BY <1>3 DEF ToSet
    <2>2. ToSet(s) \subseteq ToSet(q) /\ ToSet(r) \subseteq ToSet(q)
      BY <1>4 DEF ToSet
    <2> QED  BY <2>1, <2>2
  <1>6. ASSUME NEW i \in DOMAIN q, NEW j \in DOMAIN q, q[i] = q[j] PROVE i = j
    <2>1. \A m \in DOMAIN s, n \in DOMAIN r : s[m] # r[n]
      BY DEF ToSet
    <2>2. CASE i \in DOMAIN s
      <3>1. q[i] = s[i]
        BY <1>4, <2>2
      <3>2. j \in DOMAIN s /\ q[j] = s[j]
        BY <1>3, <1>6, <2>1, <2>2, <3>1
      <3> QED  BY <1>6, <2>2, <3>1, <3>2 DEF Distinct
    <2>3. CASE i \notin DOMAIN s
      <3>1. i - Len(s) \in DOMAIN r /\ q[i] = r[i - Len(s)]
        BY <1>3, <2>3
      <3>2. j - Len(s) \in DOMAIN r /\ q[j] = r[j - Len(s)]
        BY <1>3, <1>6, <2>1, <3>1
      <3>3. i - Len(s) = j - Len(s)
        BY <1>6, <3>1, <3>2 DEF Distinct
      <3> QED  BY <1>1, <1>2, <3>3
    <2> QED  BY <2>2, <2>3
  <1>7. Distinct(q)
    BY <1>6 DEF Distinct
  <1> QED  BY <1>1, <1>5, <1>7 DEF q

\* Every block is on the list of messages, on the free list or in one hand, once:
\* none is lost or doubled whatever senders, receivers, handlers and a reset do
\* between the sections of each other's calls.
THEOREM QueuesAccountBlocks == QueuesSpec => []BlocksAccounted
  <1>1. ASSUME QueueInv PROVE MQ!BlocksAccounted /\ MQ!QueueLinked
    <2> USE QueueTypes, <1>1
    <2>1. PICK q, f : Layout(q, f)
      BY DEF QueueInv
    <2>2. MQ!Chain(head) = q /\ MQ!Chain(free) = f
      BY <2>1, ChainIs DEF Layout
    <2>3. MQ!QueueLinked
      <3>1. /\ tail = IF q = << >> THEN Null ELSE q[Len(q)]
            /\ entry = Len(q) \/ At("reset")
        BY <2>1 DEF Layout
      <3>2. MQ!At("reset") <=> At("reset")
        BY SamePlaces
      <3> QED  BY <2>2, <3>1, <3>2 DEF MQ!QueueLinked
    <2> DEFINE T == {t \in Thread : hand[t] # Null}
               s == MQ!SetToSeq(T)
               h == [i \in DOMAIN s |-> hand[s[i]]]
    <2>4. h \in Seq(MqBlock) /\ Distinct(h) /\ ToSet(h) = {hand[t] : t \in T}
      BY <2>1, HandsInSequence
    <2>5. q \in Seq(MqBlock) /\ Distinct(q) /\ f \in Seq(MqBlock) /\ Distinct(f)
      BY <2>1 DEF Layout, Linked, Chained
    <2>6. /\ ToSet(q) \cap ToSet(f) = {}
          /\ \A t \in Thread : hand[t] \notin ToSet(q) \cup ToSet(f)
          /\ \A b \in MqBlock : b \in ToSet(q) \cup ToSet(f) \/ \E t \in Thread : hand[t] = b
      BY <2>1 DEF Layout, Places
    <2> DEFINE r == q \o f
               all == r \o h
    <2>7. r \in Seq(MqBlock) /\ Distinct(r) /\ ToSet(r) = ToSet(q) \cup ToSet(f)
      BY <2>5, <2>6, DistinctConcat
    <2>8. ToSet(r) \cap ToSet(h) = {}
      BY <2>4, <2>6, <2>7
    <2>9. /\ all \in Seq(MqBlock) /\ Distinct(all)
          /\ ToSet(all) = ToSet(q) \cup ToSet(f) \cup {hand[t] : t \in T}
      <3> HIDE DEF r, h
      <3> QED  BY <2>4, <2>7, <2>8, DistinctConcat
    <2>10. ToSet(all) = MqBlock
      <3>1. ToSet(all) \subseteq MqBlock
        <4> HIDE DEF all
        <4> QED  BY <2>9, LenProperties, ElementOfSeq DEF ToSet
      <3>2. MqBlock \subseteq ToSet(q) \cup ToSet(f) \cup {hand[t] : t \in T}
        BY <2>6
      <3> QED  BY <2>9, <3>1, <3>2
    <2>11. MQ!Distinct(all) /\ MQ!ToSet(all) = MqBlock
      <3> HIDE DEF all
      <3> QED  BY <2>9, <2>10, SameLists
    <2>12. MQ!BlocksAccounted
      <3>1. all = MQ!Chain(head) \o MQ!Chain(free) \o [i \in DOMAIN s |-> hand[s[i]]]
        BY <2>2
      <3> HIDE DEF all, s
      <3>2. MQ!Distinct(MQ!Chain(head) \o MQ!Chain(free) \o [i \in DOMAIN s |-> hand[s[i]]])
        BY <2>11, <3>1
      <3>3. MQ!ToSet(MQ!Chain(head) \o MQ!Chain(free) \o [i \in DOMAIN s |-> hand[s[i]]])
               = MqBlock
        BY <2>11, <3>1
      <3> QED  BY <3>2, <3>3 DEF MQ!BlocksAccounted, s
    <2> QED  BY <2>3, <2>12
  <1>2. QueuesInv => BlocksAccounted
    BY <1>1 DEF QueuesInv, BlocksAccounted
  <1> QED  BY <1>2, QueuesInvariant, PTL


-----------------------------------------------------------------------------
(* Either object is a queue: the abstract steps *)

\* What was sent and not received, and what was received last.
Sent == IF object = "mailbox" THEN Ring ELSE MQ!Bodies

Got == IF object = "mailbox" THEN received ELSE last

\* What a step may do to the messages s, of which r was received last: nothing,
\* or Get, Put, PutUrgent or Drop of module Fifo.
FifoMove(s, r, t, u) ==
    \/ t = s /\ u = r
    \/ s # << >> /\ t = Tail(s) /\ u = Head(s)
    \/ u = r /\ Len(s) < Size /\ \E v \in Message : t = Append(s, v) \/ t = <<v>> \o s
    \/ u = r /\ \E n \in 1 .. Len(s) : t = SubSeq(s, n + 1, Len(s))

LEMMA FifoMoves ==
    ASSUME NEW V, Sent \in Seq(V), Message \subseteq V, FifoMove(Sent, Got, Sent', Got')
    PROVE  [Promise!FifoNext]_Promise!fifoVars
  <1>1. Sent' = Sent /\ Got' = Got => UNCHANGED Promise!fifoVars
    BY DEF Sent, Got, Promise!fifoVars
  <1>2. Sent' # Sent /\ Sent # << >> /\ Sent' = Tail(Sent) /\ Got' = Head(Sent)
          => Promise!FifoNext
    BY DEF Sent, Got, Promise!FifoNext, Promise!Get
  <1>3. ASSUME NEW v \in Message, Sent' # Sent, Got' = Got, Len(Sent) < Size,
               Sent' = Append(Sent, v)
        PROVE  Promise!FifoNext
    BY <1>3 DEF Sent, Got, Promise!FifoNext, Promise!Put
  <1>4. ASSUME NEW v \in Message, Sent' # Sent, Got' = Got, Len(Sent) < Size,
               Sent' = <<v>> \o Sent
        PROVE  Promise!FifoNext
    BY <1>4 DEF Sent, Got, Promise!FifoNext, Promise!PutUrgent
  <1>5. ASSUME NEW n \in 1 .. Len(Sent), Sent' # Sent, Got' = Got,
               Sent' = SubSeq(Sent, n + 1, Len(Sent))
        PROVE  Promise!FifoNext
    BY <1>5 DEF Sent, Got, Promise!FifoNext, Promise!Drop
  <1> DEFINE s == Sent
             t == Sent'
  <1>6. s \in Seq(V) /\ Len(s) \in Nat /\ (s = << >> <=> Len(s) = 0)
    BY LenProperties, EmptySeq
  <1> HIDE DEF s
  <1>7. s # << >> => Tail(s) # s
    <2>1. s # << >> => Len(Tail(s)) = Len(s) - 1 /\ Len(s) # 0
      BY <1>6
    <2> QED  BY <1>6, <2>1
  <1>8. \A v \in Message : Append(s, v) # s /\ <<v>> \o s # s
    <2> SUFFICES ASSUME NEW v \in Message PROVE Append(s, v) # s /\ <<v>> \o s # s
      OBVIOUS
    <2>1. Len(Append(s, v)) = Len(s) + 1
      BY <1>6
    <2>2. Len(<<v>> \o s) = Len(s) + 1
      BY <1>6, ConsList
    <2> QED  BY <1>6, <2>1, <2>2
  <1>9. \A n \in 1 .. Len(s) : SubSeq(s, n + 1, Len(s)) # s
    <2> SUFFICES ASSUME NEW n \in 1 .. Len(s) PROVE SubSeq(s, n + 1, Len(s)) # s
      OBVIOUS
    <2>1. Len(SubSeq(s, n + 1, Len(s))) = Len(s) - n
      BY <1>6
    <2> QED  BY <1>6, <2>1
  <1>10. CASE Sent' = Sent /\ Got' = Got
    BY <1>1, <1>10
  <1>11. CASE Sent # << >> /\ Sent' = Tail(Sent) /\ Got' = Head(Sent)
    BY <1>2, <1>7, <1>11 DEF s
  <1>12. CASE /\ Got' = Got /\ Len(Sent) < Size
              /\ \E v \in Message : Sent' = Append(Sent, v) \/ Sent' = <<v>> \o Sent
    BY <1>3, <1>4, <1>8, <1>12 DEF s
  <1>13. CASE /\ Got' = Got
              /\ \E n \in 1 .. Len(Sent) : Sent' = SubSeq(Sent, n + 1, Len(Sent))
    BY <1>5, <1>9, <1>13 DEF s
  <1> QED  BY <1>10, <1>11, <1>12, <1>13 DEF FifoMove

-----------------------------------------------------------------------------
(* The mailbox's ring *)

\* The slot of the i-th message when the first is at offset o.
Slot(o, i) == IF o + i - 1 < Size THEN o + i - 1 ELSE o + i - 1 - Size

RingOf(p, o, e) == [i \in 1 .. e |-> p[Slot(o, i)]]

LEMMA SlotIs ==
    ASSUME Size \in Nat \ {0}, NEW o \in 0 .. Size - 1, NEW i \in 1 .. Size
    PROVE  (o + i - 1) % Size = Slot(o, i) /\ Slot(o, i) \in 0 .. Size - 1
  <1> DEFINE n == o + i - 1
  <1>1. n \in Nat /\ n < Size + Size
    OBVIOUS
  <1> HIDE DEF n
  <1>2. n < Size => n % Size = n
    BY <1>1
  <1>3. ~ (n < Size) => n % Size = n - Size
    BY <1>1
  <1>4. Slot(o, i) = IF n < Size THEN n ELSE n - Size
    BY DEF Slot, n
  <1>5. Slot(o, i) \in 0 .. Size - 1
    BY <1>1, <1>4
  <1> QED  BY <1>2, <1>3, <1>4, <1>5 DEF n

LEMMA SlotsDiffer ==
    ASSUME Size \in Nat \ {0}, NEW o \in 0 .. Size - 1,
           NEW i \in 1 .. Size, NEW j \in 1 .. Size, i # j
    PROVE  Slot(o, i) # Slot(o, j)
  <1> DEFINE m == o + i - 1
             n == o + j - 1
  <1>1. m \in Int /\ n \in Int /\ m # n /\ m - n < Size /\ n - m < Size
    OBVIOUS
  <1>2. /\ Slot(o, i) = IF m < Size THEN m ELSE m - Size
        /\ Slot(o, j) = IF n < Size THEN n ELSE n - Size
    BY DEF Slot
  <1> HIDE DEF m, n
  <1> QED  BY ONLY Size \in Nat \ {0}, <1>1, <1>2

LEMMA RingForm ==
    ASSUME NEW p, Size \in Nat \ {0}, NEW o \in 0 .. Size - 1, NEW e \in 0 .. Size
    PROVE  [i \in 1 .. e |-> p[(o + i - 1) % Size]] = RingOf(p, o, e)
  <1>1. \A i \in 1 .. e : (o + i - 1) % Size = Slot(o, i)
    BY SlotIs
  <1> QED  BY <1>1 DEF RingOf

\* The ring before a step and after it.
LEMMA Rings ==
    ASSUME MailboxInv
    PROVE  /\ Ring = RingOf(pool, out_offset, entry)
           /\ MailboxInv' => Ring' = RingOf(pool', out_offset', entry')
           /\ Ring \in Seq(Message \cup {Nothing}) /\ Len(Ring) = entry
  <1> USE MailboxTypes
  <1>1. /\ out_offset \in 0 .. Size - 1 /\ entry \in 0 .. Size
        /\ pool \in [0 .. Size - 1 -> Message \cup {Nothing}]
    BY DEF MailboxInv, MailboxData
  <1>2. Ring = RingOf(pool, out_offset, entry)
    BY <1>1, RingForm DEF Ring
  <1>3. MailboxInv' => Ring' = RingOf(pool', out_offset', entry')
    <2> SUFFICES ASSUME MailboxInv' PROVE Ring' = RingOf(pool', out_offset', entry')
      OBVIOUS
    <2>1. out_offset' \in 0 .. Size - 1 /\ entry' \in 0 .. Size
      BY DEF MailboxInv, MailboxData
    <2>2. Ring' = [i \in 1 .. entry' |-> pool'[(out_offset' + i - 1) % Size]]
      BY DEF Ring
    <2> QED  BY <2>1, <2>2, RingForm
  <1>4. \A i \in 1 .. entry : pool[Slot(out_offset, i)] \in Message \cup {Nothing}
    BY <1>1, SlotIs
  <1>5. Ring \in [1 .. entry -> Message \cup {Nothing}]
    BY <1>2, <1>4 DEF RingOf
  <1>6. Ring \in Seq(Message \cup {Nothing}) /\ Len(Ring) = entry
    BY <1>1, <1>5, LenProperties
  <1> QED  BY <1>2, <1>3, <1>6

LEMMA RingAfter ==
    ASSUME MailboxInv'
    PROVE  Ring' \in Seq(Message \cup {Nothing}) /\ Len(Ring') = entry'
  <1> USE MailboxAssumption DEF MailboxAssumption
  <1>1. /\ out_offset' \in 0 .. Size - 1 /\ entry' \in 0 .. Size
        /\ pool' \in [0 .. Size - 1 -> Message \cup {Nothing}]
    BY DEF MailboxInv, MailboxData
  <1>2. Ring' = [i \in 1 .. entry' |-> pool'[(out_offset' + i - 1) % Size]]
    BY DEF Ring
  <1>3. Ring' = RingOf(pool', out_offset', entry')
    BY <1>1, <1>2, RingForm
  <1>4. \A i \in 1 .. entry' : pool'[Slot(out_offset', i)] \in Message \cup {Nothing}
    <2> SUFFICES ASSUME NEW i \in 1 .. entry'
                 PROVE  pool'[Slot(out_offset', i)] \in Message \cup {Nothing}
      OBVIOUS
    <2>1. i \in 1 .. Size
      BY <1>1
    <2>2. Slot(out_offset', i) \in 0 .. Size - 1
      BY <1>1, <2>1, SlotIs
    <2> QED  BY <1>1, <2>2
  <1>5. Ring' \in [1 .. entry' -> Message \cup {Nothing}]
    BY <1>3, <1>4 DEF RingOf
  <1> QED  BY <1>1, <1>5, LenProperties

\* A message that is stored comes behind those in the ring.
LEMMA StoreMoves ==
    ASSUME MailboxInv, MailboxInv', NEW v \in Message, Store(v)
    PROVE  FifoMove(Ring, received, Ring', received')
  <1> USE MailboxTypes
  <1>1. /\ entry < Size /\ entry' = entry + 1 /\ UNCHANGED <<out_offset, received>>
        /\ pool' = [pool EXCEPT ![in_offset] = v]
    BY DEF Store
  <1>2. /\ out_offset \in 0 .. Size - 1 /\ in_offset \in 0 .. Size - 1
        /\ pool \in [0 .. Size - 1 -> Message \cup {Nothing}]
    BY DEF MailboxInv, MailboxData
  <1>3. in_offset = Slot(out_offset, entry + 1)
    BY <1>2 DEF MailboxInv, InPlace, Slot
  <1>4. ASSUME NEW i \in 1 .. entry
        PROVE  Slot(out_offset, i) # in_offset /\ Slot(out_offset, i) \in 0 .. Size - 1
    <2>1. /\ Size \in Nat \ {0} /\ out_offset \in 0 .. Size - 1
          /\ i \in 1 .. Size /\ entry + 1 \in 1 .. Size /\ i # entry + 1
      BY <1>1, <1>2
    <2>2. Slot(out_offset, i) # Slot(out_offset, entry + 1)
      BY ONLY <2>1, SlotsDiffer
    <2>3. Slot(out_offset, i) \in 0 .. Size - 1
      BY ONLY <2>1, SlotIs
    <2> QED  BY <1>3, <2>2, <2>3
  <1>5. Ring = RingOf(pool, out_offset, entry) /\ Ring' = RingOf(pool', out_offset, entry + 1)
    BY <1>1, Rings
  <1>6. RingOf(pool', out_offset, entry + 1) = Append(RingOf(pool, out_offset, entry), v)
    <2> DEFINE s == RingOf(pool, out_offset, entry)
               t == RingOf(pool', out_offset, entry + 1)
    <2>1. s \in Seq(Message \cup {Nothing}) /\ Len(s) = entry
      BY <1>5, Rings
    <2>2. /\ Append(s, v) \in Seq(Message \cup {Nothing})
          /\ Len(Append(s, v)) = entry + 1
          /\ \A i \in 1 .. entry + 1 : Append(s, v)[i] = IF i = entry + 1 THEN v ELSE s[i]
      <3> HIDE DEF s
      <3> QED  BY <2>1, AppendProperties
    <2>3. \A i \in 1 .. entry + 1 : t[i] = IF i = entry + 1 THEN v ELSE s[i]
      <3> SUFFICES ASSUME NEW i \in 1 .. entry + 1
                   PROVE  t[i] = IF i = entry + 1 THEN v ELSE s[i]
        OBVIOUS
      <3>1. t[i] = pool'[Slot(out_offset, i)]
        BY DEF RingOf
      <3>2. CASE i = entry + 1
        BY <1>1, <1>2, <1>3, <3>1, <3>2
      <3>3. CASE i # entry + 1
        <4>1. i \in 1 .. entry /\ s[i] = pool[Slot(out_offset, i)]
          BY <3>3 DEF RingOf
        <4> QED  BY <1>1, <1>2, <1>4, <3>1, <3>3, <4>1
      <3> QED  BY <3>2, <3>3
    <2>4. t \in Seq(Message \cup {Nothing}) /\ Len(t) = entry + 1
      BY <1>1, <1>5, RingAfter
    <2> HIDE DEF s, t
    <2>5. t = Append(s, v)
      BY <1>2, <2>2, <2>3, <2>4, SeqEqual
    <2> QED  BY <2>5 DEF s, t
  <1>7. Len(Ring) < Size
    BY <1>1, Rings
  <1> QED  BY <1>1, <1>5, <1>6, <1>7 DEF FifoMove

\* The message that is fetched is the first.
LEMMA FetchMoves ==
    ASSUME MailboxInv, MailboxInv', Fetch
    PROVE  FifoMove(Ring, received, Ring', received')
  <1> USE MailboxTypes
  <1>1. /\ entry > 0 /\ entry' = entry - 1 /\ pool' = pool
        /\ out_offset' = IF out_offset + 1 >= Size THEN 0 ELSE out_offset + 1
        /\ received' = pool[out_offset]
    BY DEF Fetch, Advance
  <1>2. out_offset \in 0 .. Size - 1
    BY DEF MailboxInv, MailboxData
  <1>3. /\ Ring = RingOf(pool, out_offset, entry) /\ Ring' = RingOf(pool, out_offset', entry - 1)
        /\ Ring \in Seq(Message \cup {Nothing}) /\ Len(Ring) = entry
    BY <1>1, Rings
  <1>4. Ring # << >> /\ received' = Head(Ring)
    <2>1. Slot(out_offset, 1) = out_offset
      BY <1>2 DEF Slot
    <2>2. 1 \in 1 .. entry
      BY <1>1
    <2>3. Ring[1] = pool[out_offset]
      BY <1>3, <2>1, <2>2 DEF RingOf
    <2>4. Ring # << >>
      BY <1>1, <1>3, EmptySeq
    <2> QED  BY <1>1, <1>3, <2>3, <2>4
  <1>5. Ring' = Tail(Ring)
    <2>1. /\ Tail(Ring) \in Seq(Message \cup {Nothing}) /\ Len(Tail(Ring)) = entry - 1
          /\ \A i \in 1 .. entry - 1 : Tail(Ring)[i] = Ring[i + 1]
      <3> DEFINE r == Ring
      <3>1. r \in Seq(Message \cup {Nothing}) /\ r # << >> /\ Len(r) = entry
        BY <1>3, <1>4
      <3> HIDE DEF r
      <3>2. /\ Tail(r) \in Seq(Message \cup {Nothing}) /\ Len(Tail(r)) = entry - 1
            /\ \A i \in 1 .. entry - 1 : Tail(r)[i] = r[i + 1]
        BY <3>1, HeadTailProperties
      <3> QED  BY <3>2 DEF r
    <2>2. ASSUME NEW i \in 1 .. entry - 1
          PROVE  Ring[i + 1] = pool[Slot(out_offset', i)]
      <3>1. i + 1 \in 1 .. entry
        BY <1>1
      <3>2. Ring[i + 1] = pool[Slot(out_offset, i + 1)]
        BY <1>3, <3>1 DEF RingOf
      <3>3. Slot(out_offset, i + 1) = Slot(out_offset', i)
        BY <1>1, <1>2, <2>2 DEF Slot
      <3> QED  BY <3>2, <3>3
    <2>3. Ring' \in Seq(Message \cup {Nothing}) /\ Len(Ring') = entry - 1
      BY <1>1, RingAfter
    <2>4. \A i \in 1 .. entry - 1 : Ring'[i] = pool[Slot(out_offset', i)]
      BY <1>3 DEF RingOf
    <2> DEFINE r == Ring'
               q == Tail(Ring)
    <2>5. /\ r \in Seq(Message \cup {Nothing}) /\ q \in Seq(Message \cup {Nothing})
          /\ Len(r) = Len(q) /\ Len(r) = entry - 1 /\ \A i \in 1 .. entry - 1 : r[i] = q[i]
      BY <2>1, <2>2, <2>3, <2>4
    <2> HIDE DEF r, q
    <2>6. r = q
      BY <2>5, SeqEqual
    <2> QED  BY <2>6 DEF r, q
  <1> QED  BY <1>4, <1>5 DEF FifoMove

\* A reset drops what there is.
LEMMA MailboxResetMoves ==
    ASSUME MailboxInv, MailboxInv', Reset
    PROVE  FifoMove(Ring, received, Ring', received')
  <1> USE MailboxTypes
  <1>1. entry' = 0 /\ received' = received
    BY DEF Reset
  <1>2. Ring \in Seq(Message \cup {Nothing}) /\ Len(Ring) = entry
    BY Rings
  <1>3. Ring' = << >>
    BY <1>1 DEF Ring
  <1>4. CASE entry = 0
    BY <1>1, <1>2, <1>3, <1>4, EmptySeq DEF FifoMove
  <1>5. CASE entry # 0
    <2>1. entry \in 1 .. Len(Ring) /\ SubSeq(Ring, entry + 1, Len(Ring)) = << >>
      BY <1>2, <1>5
    <2> QED  BY <1>1, <1>3, <2>1 DEF FifoMove
  <1> QED  BY <1>4, <1>5

LEMMA MailboxMoves ==
    ASSUME MailboxInv, MailboxInv', Next
    PROVE  FifoMove(Ring, received, Ring', received')
  <1>1. CASE UNCHANGED mbVars
    <2>1. UNCHANGED <<pool, entry, out_offset, received>>
      BY <1>1 DEF mbVars
    <2> QED  BY <2>1 DEF Ring, FifoMove
  <1>2. ASSUME NEW v \in Message, Store(v) PROVE FifoMove(Ring, received, Ring', received')
    BY <1>2, StoreMoves
  <1>3. CASE Fetch
    BY <1>3, FetchMoves
  <1>4. CASE Reset
    BY <1>4, MailboxResetMoves
  <1>5. \/ UNCHANGED mbVars
        \/ \E v \in Message : Store(v)
        \/ Fetch
        \/ Reset
    <2>1. ASSUME NEW v \in Message, NEW time \in Wait, Send(SendCall(v, time)) PROVE Store(v)
      BY <2>1 DEF Send, SendCall
    <2> QED  BY <2>1 DEF Next, SendBlock, Recv, RecvBlock, SendExpired, RecvExpired,
                         IsrSend, IsrRecv
  <1> QED  BY <1>1, <1>2, <1>3, <1>4, <1>5


-----------------------------------------------------------------------------
(* The messages of the queue *)

\* What the blocks q hold when bd says what each holds.
Content(bd, q) == [i \in DOMAIN q |-> bd[q[i]]]

LEMMA BodiesAre ==
    /\ MQ!Bodies = Content(body, ChainedFrom(next, head))
    /\ MQ!Bodies' = Content(body', ChainedFrom(next', head'))
  BY ChainForm DEF MQ!Bodies, Content

LEMMA ContentIn ==
    ASSUME NEW V, NEW bd \in [MqBlock -> V], NEW q \in Seq(MqBlock)
    PROVE  /\ Content(bd, q) \in Seq(V) /\ Len(Content(bd, q)) = Len(q) /\ Len(q) \in Nat
           /\ \A i \in 1 .. Len(q) : Content(bd, q)[i] = bd[q[i]]
  <1>1. DOMAIN q = 1 .. Len(q) /\ Len(q) \in Nat /\ \A i \in 1 .. Len(q) : q[i] \in MqBlock
    BY LenProperties, ElementOfSeq
  <1>2. Content(bd, q) \in [1 .. Len(q) -> V]
    BY <1>1 DEF Content
  <1>3. \A i \in 1 .. Len(q) : Content(bd, q)[i] = bd[q[i]]
    BY <1>1 DEF Content
  <1> HIDE DEF Content
  <1>4. Content(bd, q) \in Seq(V) /\ Len(Content(bd, q)) = Len(q)
    BY <1>1, <1>2, LenProperties
  <1> QED  BY <1>1, <1>3, <1>4

LEMMA ContentSame ==
    ASSUME NEW bd, NEW be, NEW q \in Seq(MqBlock), \A b \in ToSet(q) : be[b] = bd[b]
    PROVE  Content(be, q) = Content(bd, q)
  BY DEF Content, ToSet

LEMMA ContentCons ==
    ASSUME NEW V, NEW bd \in [MqBlock -> V], NEW q \in Seq(MqBlock), NEW b \in MqBlock
    PROVE  Content(bd, <<b>> \o q) = <<bd[b]>> \o Content(bd, q)
  <1> DEFINE r == <<b>> \o q
             s == Content(bd, r)
             t == <<bd[b]>> \o Content(bd, q)
  <1>1. /\ r \in Seq(MqBlock) /\ Len(r) = Len(q) + 1 /\ Len(q) \in Nat
        /\ r[1] = b /\ \A i \in 1 .. Len(q) : r[i + 1] = q[i]
    BY ConsList
  <1> HIDE DEF r
  <1>2. s \in Seq(V) /\ Len(s) = Len(r) /\ \A i \in 1 .. Len(r) : s[i] = bd[r[i]]
    BY <1>1, ContentIn
  <1>3. /\ Content(bd, q) \in Seq(V) /\ Len(Content(bd, q)) = Len(q)
        /\ \A i \in 1 .. Len(q) : Content(bd, q)[i] = bd[q[i]]
    BY ContentIn
  <1>4. /\ t \in Seq(V) /\ Len(t) = Len(q) + 1 /\ t[1] = bd[b]
        /\ \A i \in 1 .. Len(q) : t[i + 1] = bd[q[i]]
    <2> HIDE DEF Content
    <2>1. bd[b] \in V
      OBVIOUS
    <2> QED  BY <1>1, <1>3, <2>1, ConsList
  <1> HIDE DEF s, t
  <1>5. ASSUME NEW i \in 1 .. Len(s) PROVE s[i] = t[i]
    <2>1. CASE i = 1
      BY <1>1, <1>2, <1>4, <2>1
    <2>2. CASE i # 1
      <3> DEFINE m == i - 1
      <3>1. m \in 1 .. Len(q) /\ m + 1 = i
        BY <1>1, <1>2, <2>2
      <3> HIDE DEF m
      <3> QED  BY <1>1, <1>2, <1>4, <3>1
    <2> QED  BY <2>1, <2>2
  <1>6. s = t
    BY <1>1, <1>2, <1>4, <1>5, SeqEqual
  <1> QED  BY <1>6 DEF r, s, t

LEMMA ContentAppend ==
    ASSUME NEW V, NEW bd \in [MqBlock -> V], NEW q \in Seq(MqBlock), NEW b \in MqBlock
    PROVE  Content(bd, Append(q, b)) = Append(Content(bd, q), bd[b])
  <1> DEFINE r == Append(q, b)
             s == Content(bd, r)
             t == Append(Content(bd, q), bd[b])
  <1>1. /\ r \in Seq(MqBlock) /\ Len(r) = Len(q) + 1 /\ Len(q) \in Nat
        /\ r[Len(q) + 1] = b /\ \A i \in 1 .. Len(q) : r[i] = q[i]
    BY AppendProperties, LenProperties
  <1> HIDE DEF r
  <1>2. s \in Seq(V) /\ Len(s) = Len(r) /\ \A i \in 1 .. Len(r) : s[i] = bd[r[i]]
    BY <1>1, ContentIn
  <1>3. /\ Content(bd, q) \in Seq(V) /\ Len(Content(bd, q)) = Len(q)
        /\ \A i \in 1 .. Len(q) : Content(bd, q)[i] = bd[q[i]]
    BY ContentIn
  <1>4. /\ t \in Seq(V) /\ Len(t) = Len(q) + 1 /\ t[Len(q) + 1] = bd[b]
        /\ \A i \in 1 .. Len(q) : t[i] = bd[q[i]]
    <2> HIDE DEF Content
    <2>1. bd[b] \in V
      OBVIOUS
    <2> QED  BY <1>3, <2>1, AppendProperties
  <1> HIDE DEF s, t
  <1>5. ASSUME NEW i \in 1 .. Len(s) PROVE s[i] = t[i]
    BY <1>1, <1>2, <1>4
  <1>6. s = t
    BY <1>1, <1>2, <1>4, <1>5, SeqEqual
  <1> QED  BY <1>6 DEF r, s, t

LEMMA ContentTail ==
    ASSUME NEW V, NEW bd \in [MqBlock -> V], NEW q \in Seq(MqBlock), q # << >>
    PROVE  /\ Content(bd, q) # << >> /\ Head(Content(bd, q)) = bd[q[1]]
           /\ Content(bd, Tail(q)) = Tail(Content(bd, q))
  <1> DEFINE r == Tail(q)
             c == Content(bd, q)
             s == Content(bd, r)
             t == Tail(c)
  <1>1. Len(q) \in Nat \ {0}
    BY LenProperties, EmptySeq
  <1>2. /\ r \in Seq(MqBlock) /\ Len(r) = Len(q) - 1
        /\ \A i \in 1 .. Len(q) - 1 : r[i] = q[i + 1]
    BY <1>1, HeadTailProperties
  <1> HIDE DEF r
  <1>3. s \in Seq(V) /\ Len(s) = Len(r) /\ \A i \in 1 .. Len(r) : s[i] = bd[r[i]]
    BY SMTT(40), <1>2, ContentIn
  <1>4. c \in Seq(V) /\ Len(c) = Len(q) /\ \A i \in 1 .. Len(q) : c[i] = bd[q[i]]
    BY ContentIn
  <1> HIDE DEF c
  <1>5. c # << >> /\ Head(c) = bd[q[1]]
    <2>1. c # << >>
      BY <1>1, <1>4, EmptySeq
    <2>2. 1 \in 1 .. Len(q) /\ Head(c) = c[1]
      BY <1>1, <1>4
    <2> QED  BY <1>4, <2>1, <2>2
  <1>6. /\ t \in Seq(V) /\ Len(t) = Len(q) - 1
        /\ \A i \in 1 .. Len(q) - 1 : t[i] = c[i + 1]
    BY <1>4, <1>5, HeadTailProperties
  <1> HIDE DEF s, t
  <1>7. ASSUME NEW i \in 1 .. Len(s) PROVE s[i] = t[i]
    <2>1. i \in 1 .. Len(q) - 1 /\ i + 1 \in 1 .. Len(q)
      BY <1>1, <1>2, <1>3
    <2> QED  BY <1>2, <1>3, <1>4, <1>6, <2>1
  <1>8. s = t
    BY <1>1, <1>2, <1>3, <1>6, <1>7, SeqEqual
  <1> QED  BY <1>5, <1>8 DEF r, c, s, t

\* The messages of the queue that a layout describes.
LEMMA QueueContent ==
    ASSUME QueueInv, NEW q, NEW f, Layout(q, f)
    PROVE  /\ MQ!Bodies = Content(body, q) /\ q \in Seq(MqBlock)
           /\ body \in [MqBlock -> Message \cup {Nothing}]
           /\ Len(MQ!Bodies) = Len(q) /\ MQ!Bodies \in Seq(Message \cup {Nothing})
  <1>1. MQ!Chain(head) = q /\ q \in Seq(MqBlock)
    BY ChainIs, QueueTypes DEF Layout, Linked, Chained
  <1>2. MQ!Bodies = Content(body, q)
    BY <1>1 DEF MQ!Bodies, Content
  <1>3. body \in [MqBlock -> Message \cup {Nothing}]
    BY DEF QueueInv, QueueData
  <1> QED  BY <1>1, <1>2, <1>3, ContentIn

LEMMA QueueContentNext ==
    ASSUME QueueInv, NEW r, NEW g, Layout(r, g)'
    PROVE  /\ MQ!Bodies' = Content(body', r) /\ r \in Seq(MqBlock)
           /\ Len(r) <= Size
  <1>1. Linked(next', r, head') /\ Distinct(r) /\ r \in Seq(MqBlock)
    BY DEF Layout, Linked, Chained
  <1>2. MQ!Chain(head)' = r
    BY <1>1, ChainIsNext, QueueTypes
  <1>3. MQ!Bodies' = Content(body', r)
    BY <1>2 DEF MQ!Bodies, Content
  <1>4. Len(r) <= Size
    BY <1>1, ChainLength, QueueTypes
  <1> QED  BY <1>1, <1>3, <1>4


\* The block that a sender is about to link holds its message.
Filled == \A t \in Thread : pc[t] = "link" => body[hand[t]] \in Message

LEMMA FilledRests ==
    ASSUME QueueInv, Filled, UNCHANGED MQ!mqVars,
           \A t \in Thread : pc'[t] = "link" => pc[t] = "link"
    PROVE  Filled'
  BY DEF Filled, MQ!mqVars

LEMMA FilledNext ==
    ASSUME QueueInv, Filled, MQ!Next
    PROVE  Filled'
  <1> USE QueueTypes
  <1>0. MQ!Wait = Wait
    BY SamePlaces
  <1>1. CASE MQ!IpcStep /\ UNCHANGED MQ!mqVars
    <2>1. \A t \in Thread : pc'[t] = "link" => pc[t] = "link"
      BY <1>1, SameSections
         DEF MQ!IpcStep, Startup, CallSchedule, WaitFailed, EndCall, Goto, TickTimeout,
             TickYield
    <2> QED  BY <1>1, <2>1, FilledRests
  <1>2. ASSUME NEW v \in Message, NEW urgent \in BOOLEAN, MQ!SendAlloc(v, urgent)
        PROVE  Filled'
    <2>1. /\ pc' = [pc EXCEPT ![Me] = "fill"] /\ hand' = [hand EXCEPT ![Me] = free]
          /\ UNCHANGED body
      BY <1>2, SamePlaces DEF MQ!SendAlloc, Goto
    <2> QED  BY <2>1 DEF Filled
  <1>3. ASSUME NEW v \in Message, NEW urgent \in BOOLEAN, MQ!IsrSend(v, urgent)
        PROVE  Filled'
    <2>1. /\ UNCHANGED <<pc, hand>> /\ body' = [body EXCEPT ![free] = v]
      BY <1>3, SameSections DEF MQ!IsrSend, IsrWakes
    <2>2. body \in [MqBlock -> Message \cup {Nothing}]
      BY DEF QueueInv, QueueData
    <2> QED  BY <2>1, <2>2 DEF Filled, QueueInv, QueueControl, Handing
  <1>4. CASE MQ!SendFill
    <2>1. /\ pc[Me] = "fill" /\ body' = [body EXCEPT ![hand[Me]] = call[Me].val]
          /\ pc' = [pc EXCEPT ![Me] = "link"] /\ UNCHANGED hand
      BY <1>4, SamePlaces DEF MQ!SendFill, At, Goto
    <2>2. hand[Me] \in MqBlock /\ call[Me].val \in Message
      BY <2>1, SendValue DEF QueueInv
    <2>3. body \in [MqBlock -> Message \cup {Nothing}]
      BY DEF QueueInv, QueueData
    <2>4. ASSUME NEW t \in Thread, pc'[t] = "link" PROVE body'[hand[t]] \in Message
      <3>1. t # Me => pc[t] = "link" /\ hand[t] \in MqBlock /\ body[hand[t]] \in Message
        BY <2>1, <2>4 DEF Filled, QueueInv, QueueControl, Handing
      <3> QED  BY <2>1, <2>2, <2>3, <3>1
    <2> QED  BY <2>1, <2>4 DEF Filled
  <1>5. CASE MQ!SendLink
    <2>1. /\ hand' = [hand EXCEPT ![Me] = Null] /\ UNCHANGED body
          /\ pc' = [pc EXCEPT ![Me] = IF wl["recv"] = << >> THEN "run" ELSE "pend"]
      BY <1>5, SamePlaces, SameSections DEF MQ!SendLink, ThreadWakes, EndCall, Goto
    <2> QED  BY <2>1 DEF Filled
  <1>6. ASSUME NEW time \in Wait, MQ!RecvUnlink(MQ!RecvCall(time))
        PROVE  Filled'
    <2>1. /\ pc' = [pc EXCEPT ![Me] = "copy"] /\ hand' = [hand EXCEPT ![Me] = head]
          /\ UNCHANGED body
      BY <1>6, SamePlaces DEF MQ!RecvUnlink, Goto
    <2> QED  BY <2>1 DEF Filled
  <1>7. ASSUME NEW time \in Wait, MQ!RecvBlock(MQ!RecvCall(time))
        PROVE  Filled'
    <2>1. pc' = [pc EXCEPT ![Me] = "blocked"] /\ UNCHANGED MQ!mqVars
      BY <1>7, SamePlaces, SameKernel, SameSections DEF MQ!RecvBlock, Block, Goto
    <2>2. \A t \in Thread : pc'[t] = "link" => pc[t] = "link"
      BY <2>1
    <2> QED  BY <2>1, <2>2, FilledRests
  <1>8. CASE MQ!RecvCopy
    <2>1. pc' = [pc EXCEPT ![Me] = "put"] /\ UNCHANGED MQ!mqVars
      BY <1>8, SamePlaces DEF MQ!RecvCopy, Goto
    <2>2. \A t \in Thread : pc'[t] = "link" => pc[t] = "link"
      BY <2>1
    <2> QED  BY <2>1, <2>2, FilledRests
  <1>9. CASE MQ!RecvPut
    <2>1. /\ hand' = [hand EXCEPT ![Me] = Null] /\ UNCHANGED body
          /\ pc' = [pc EXCEPT ![Me] = "run"]
      BY <1>9, SamePlaces DEF MQ!RecvPut, EndCall, Goto
    <2> QED  BY <2>1 DEF Filled
  <1>10. CASE MQ!RecvExpired
    <2>1. pc' = [pc EXCEPT ![Me] = "run"] /\ UNCHANGED MQ!mqVars
      BY <1>10, SameSections DEF MQ!RecvExpired, Expired, EndCall, Goto
    <2>2. \A t \in Thread : pc'[t] = "link" => pc[t] = "link"
      BY <2>1
    <2> QED  BY <2>1, <2>2, FilledRests
  <1>11. CASE (MQ!ResetBegin \/ \E l \in WaitList : MQ!ResetResume(l)) /\ UNCHANGED MQ!mqVars
    <2>1. \A t \in Thread : pc'[t] = "link" => pc[t] = "link"
      BY <1>11, SameSections DEF ResetBegin, ResetResume, Goto
    <2> QED  BY <1>11, <2>1, FilledRests
  <1>12. CASE MQ!ResetBlock
    <2>1. UNCHANGED <<pc, hand, body>>
      BY <1>12 DEF MQ!ResetBlock, MQ!ipcVars
    <2> QED  BY <2>1 DEF Filled
  <1>13. CASE MQ!Reset
    <2>1. pc' = [pc EXCEPT ![Me] = "pend"] /\ UNCHANGED <<hand, body>>
      BY <1>13, SameSections DEF MQ!Reset, ResetEnd, Goto
    <2> QED  BY <2>1 DEF Filled
  <1> QED  BY <1>0, <1>1, <1>2, <1>3, <1>4, <1>5, <1>6, <1>7, <1>8, <1>9, <1>10, <1>11,
              <1>12, <1>13 DEF MQ!Next


\* A step that leaves the queue's blocks alone.
LEMMA QueueKeeps ==
    ASSUME UNCHANGED <<head, next, body, last>>
    PROVE  FifoMove(MQ!Bodies, last, MQ!Bodies', last')
  <1>1. MQ!Bodies' = MQ!Bodies
    BY BodiesAre
  <1> QED  BY <1>1 DEF FifoMove

\* A block that is linked brings one message, at the back or, if it is urgent,
\* at the front.
LEMMA LinkMoves ==
    ASSUME QueueInv, NEW q, NEW f, Layout(q, f), NEW b \in MqBlock, b \notin ToSet(q),
           NEW urgent \in BOOLEAN, NEW r, r = Joined(q, b, urgent),
           NEW g, Layout(r, g)', body' \in [MqBlock -> Message \cup {Nothing}],
           \A c \in MqBlock \ {b} : body'[c] = body[c],
           body'[b] \in Message, UNCHANGED last
    PROVE  FifoMove(MQ!Bodies, last, MQ!Bodies', last')
  <1>1. /\ MQ!Bodies = Content(body, q) /\ q \in Seq(MqBlock)
        /\ body \in [MqBlock -> Message \cup {Nothing}] /\ Len(MQ!Bodies) = Len(q)
    BY QueueContent
  <1>2. MQ!Bodies' = Content(body', r) /\ r \in Seq(MqBlock) /\ Len(r) <= Size
    BY QueueContentNext
  <1>3. ToSet(q) \subseteq MqBlock
    BY <1>1, LenProperties, ElementOfSeq DEF ToSet
  <1>4. Content(body', q) = Content(body, q)
    <2>1. \A c \in ToSet(q) : body'[c] = body[c]
      BY <1>3
    <2> QED  BY <1>1, <2>1, ContentSame
  <1>5. Len(r) = Len(q) + 1 /\ Len(q) \in Nat
    <2>1. Len(<<b>> \o q) = Len(q) + 1 /\ Len(q) \in Nat
      BY <1>1, ConsList
    <2>2. Len(Append(q, b)) = Len(q) + 1
      BY <1>1
    <2> QED  BY <2>1, <2>2 DEF Joined
  <1>6. Len(MQ!Bodies) < Size
    BY <1>1, <1>2, <1>5, MailboxAssumption DEF MailboxAssumption
  <1>7. \/ MQ!Bodies' = Append(MQ!Bodies, body'[b])
        \/ MQ!Bodies' = <<body'[b]>> \o MQ!Bodies
    <2>1. Content(body', Append(q, b)) = Append(Content(body', q), body'[b])
      BY <1>1, ContentAppend
    <2>2. Content(body', <<b>> \o q) = <<body'[b]>> \o Content(body', q)
      BY <1>1, ContentCons
    <2> QED  BY <1>1, <1>2, <1>4, <2>1, <2>2 DEF Joined
  <1> QED  BY <1>6, <1>7 DEF FifoMove

LEMMA SendLinkMoves ==
    ASSUME QueueInv, QueueInv', Filled, MQ!SendLink
    PROVE  FifoMove(MQ!Bodies, last, MQ!Bodies', last')
  <1>1. pc[Me] = "link" /\ UNCHANGED <<body, last>>
    BY DEF MQ!SendLink, At, MQ!At, MQ!Me, Me
  <1>2. PICK q, f : Layout(q, f)
    BY DEF QueueInv
  <1>3. PICK b : b = hand[Me]
    OBVIOUS
  <1>4. PICK u : u = call[Me].urgent
    OBVIOUS
  <1>5. PICK r : r = Joined(q, b, u)
    OBVIOUS
  <1>6. Layout(r, f)' /\ b \in MqBlock /\ b \notin ToSet(q)
    BY <1>2, <1>3, <1>4, <1>5, SendLinkLayout
  <1>7. u \in BOOLEAN /\ body[b] \in Message
    BY <1>1, <1>3, <1>4, SendValue, QueueTypes DEF QueueInv, Filled
  <1>8. /\ body' \in [MqBlock -> Message \cup {Nothing}] /\ body'[b] \in Message
        /\ \A c \in MqBlock \ {b} : body'[c] = body[c]
    BY <1>1, <1>7 DEF QueueInv, QueueData
  <1> QED  BY <1>1, <1>2, <1>5, <1>6, <1>7, <1>8, LinkMoves

LEMMA IsrSendMoves ==
    ASSUME QueueInv, QueueInv', NEW v \in Message, NEW urgent \in BOOLEAN,
           MQ!IsrSend(v, urgent)
    PROVE  FifoMove(MQ!Bodies, last, MQ!Bodies', last')
  <1>1. body' = [body EXCEPT ![free] = v] /\ UNCHANGED last
    BY DEF MQ!IsrSend
  <1>2. PICK q, f : Layout(q, f)
    BY DEF QueueInv
  <1>3. PICK b : b = free
    OBVIOUS
  <1>4. PICK r : r = Joined(q, b, urgent)
    OBVIOUS
  <1>5. Layout(r, Tail(f))' /\ b \in MqBlock /\ b \notin ToSet(q)
    BY <1>2, <1>3, <1>4, IsrSendLayout
  <1>6. /\ body' \in [MqBlock -> Message \cup {Nothing}] /\ body'[b] \in Message
        /\ \A c \in MqBlock \ {b} : body'[c] = body[c]
    BY <1>1, <1>3, <1>5 DEF QueueInv, QueueData
  <1>7. PICK g : g = Tail(f)
    OBVIOUS
  <1>8. Layout(r, g)'
    BY <1>5, <1>7
  <1> QED  BY <1>1, <1>2, <1>4, <1>5, <1>6, <1>8, LinkMoves

\* Filling a block in hand and giving one back leave the messages.
LEMMA SendFillMoves ==
    ASSUME QueueInv, QueueInv', MQ!SendFill
    PROVE  FifoMove(MQ!Bodies, last, MQ!Bodies', last')
  <1>1. /\ pc[Me] = "fill" /\ body' = [body EXCEPT ![hand[Me]] = call[Me].val]
        /\ UNCHANGED <<head, next, hand, last>>
    BY DEF MQ!SendFill, At, MQ!At, MQ!Me, Me
  <1>2. PICK q, f : Layout(q, f)
    BY DEF QueueInv
  <1>3. /\ MQ!Bodies = Content(body, q) /\ q \in Seq(MqBlock)
        /\ body \in [MqBlock -> Message \cup {Nothing}]
    BY <1>2, QueueContent
  <1>4. MQ!Bodies' = Content(body', q)
    <2>1. MQ!Chain(head) = q
      BY <1>2, ChainIs, QueueTypes DEF Layout
    <2>2. MQ!Chain(head)' = q
      BY <1>1, <2>1, ChainForm
    <2> QED  BY <2>2 DEF MQ!Bodies, Content
  <1>5. ToSet(q) \subseteq MqBlock /\ hand[Me] \notin ToSet(q)
    BY <1>2, <1>3, LenProperties, ElementOfSeq, QueueTypes DEF ToSet, Layout, Places
  <1>6. \A c \in ToSet(q) : body'[c] = body[c]
    BY <1>1, <1>3, <1>5
  <1>7. Content(body', q) = Content(body, q)
    BY <1>3, <1>6, ContentSame
  <1> QED  BY <1>1, <1>3, <1>4, <1>7 DEF FifoMove

LEMMA RecvPutMoves ==
    ASSUME QueueInv, QueueInv', MQ!RecvPut
    PROVE  FifoMove(MQ!Bodies, last, MQ!Bodies', last')
  <1>1. UNCHANGED <<body, last>>
    BY DEF MQ!RecvPut
  <1>2. PICK q, f : Layout(q, f)
    BY DEF QueueInv
  <1>3. PICK b : b = hand[Me]
    OBVIOUS
  <1>4. PICK g : g = <<b>> \o f
    OBVIOUS
  <1>5. Layout(q, g)'
    BY <1>2, <1>3, <1>4, RecvPutLayout
  <1>6. MQ!Bodies = Content(body, q) /\ MQ!Bodies' = Content(body', q)
    BY <1>2, <1>5, QueueContent, QueueContentNext
  <1> QED  BY <1>1, <1>6 DEF FifoMove

\* A receiver takes the first message, and a reset drops it.
LEMMA RecvUnlinkMoves ==
    ASSUME QueueInv, QueueInv', NEW c, MQ!RecvUnlink(c)
    PROVE  FifoMove(MQ!Bodies, last, MQ!Bodies', last')
  <1>1. /\ Testing(c) /\ entry > 0 /\ last' = body[head] /\ UNCHANGED body
    BY SamePlaces DEF MQ!RecvUnlink
  <1>2. PICK q, f : Layout(q, f)
    BY DEF QueueInv
  <1>3. q # << >> /\ head = q[1]
    <2>1. ~ At("reset")
      BY <1>1, TesterHands
    <2> QED  BY <1>1, <1>2, <2>1 DEF Layout, Linked, Chained
  <1>4. PICK r : r = Tail(q)
    OBVIOUS
  <1>5. Layout(r, f)'
    BY <1>2, <1>4, RecvUnlinkLayout
  <1>6. /\ MQ!Bodies = Content(body, q) /\ MQ!Bodies' = Content(body', r)
        /\ q \in Seq(MqBlock) /\ body \in [MqBlock -> Message \cup {Nothing}]
    BY <1>2, <1>5, QueueContent, QueueContentNext
  <1>7. /\ MQ!Bodies # << >> /\ Head(MQ!Bodies) = body[head]
        /\ MQ!Bodies' = Tail(MQ!Bodies)
    BY <1>1, <1>3, <1>4, <1>6, ContentTail
  <1> QED  BY <1>1, <1>7 DEF FifoMove

LEMMA ResetBlockMoves ==
    ASSUME QueueInv, QueueInv', MQ!ResetBlock
    PROVE  FifoMove(MQ!Bodies, last, MQ!Bodies', last')
  <1>1. head # Null /\ UNCHANGED <<body, last>>
    BY DEF MQ!ResetBlock
  <1>2. PICK q, f : Layout(q, f)
    BY DEF QueueInv
  <1>3. q # << >>
    BY <1>1, <1>2 DEF Layout, Linked, Chained
  <1>4. PICK b : b = head
    OBVIOUS
  <1>5. PICK r : r = Tail(q)
    OBVIOUS
  <1>6. PICK g : g = <<b>> \o f
    OBVIOUS
  <1>7. Layout(r, g)'
    BY <1>2, <1>4, <1>5, <1>6, ResetBlockLayout
  <1>8. /\ MQ!Bodies = Content(body, q) /\ MQ!Bodies' = Content(body', r)
        /\ q \in Seq(MqBlock) /\ body \in [MqBlock -> Message \cup {Nothing}]
        /\ MQ!Bodies \in Seq(Message \cup {Nothing})
    BY <1>2, <1>7, QueueContent, QueueContentNext
  <1>9. MQ!Bodies # << >> /\ MQ!Bodies' = Tail(MQ!Bodies)
    BY <1>1, <1>3, <1>5, <1>8, ContentTail
  <1>10. /\ Tail(MQ!Bodies) = SubSeq(MQ!Bodies, 1 + 1, Len(MQ!Bodies))
         /\ 1 \in 1 .. Len(MQ!Bodies)
    <2> DEFINE s == MQ!Bodies
    <2>1. s \in Seq(Message \cup {Nothing}) /\ s # << >>
      BY <1>8, <1>9
    <2> HIDE DEF s
    <2>2. Tail(s) = SubSeq(s, 2, Len(s)) /\ Len(s) \in Nat \ {0}
      BY <2>1, TailIsSubSeq, LenProperties, EmptySeq
    <2> QED  BY <2>2 DEF s
  <1> QED  BY <1>1, <1>9, <1>10 DEF FifoMove

LEMMA QueueMoves ==
    ASSUME QueueInv, QueueInv', Filled, MQ!Next
    PROVE  FifoMove(MQ!Bodies, last, MQ!Bodies', last')
  <1>1. CASE UNCHANGED <<head, next, body, last>>
    BY <1>1, QueueKeeps
  <1>2. ASSUME NEW v \in Message, NEW urgent \in BOOLEAN, MQ!IsrSend(v, urgent)
        PROVE  FifoMove(MQ!Bodies, last, MQ!Bodies', last')
    BY <1>2, IsrSendMoves
  <1>3. CASE MQ!SendFill \/ MQ!SendLink
    BY <1>3, SendFillMoves, SendLinkMoves
  <1>4. ASSUME NEW c, MQ!RecvUnlink(c) PROVE FifoMove(MQ!Bodies, last, MQ!Bodies', last')
    BY <1>4, RecvUnlinkMoves
  <1>5. CASE MQ!RecvPut \/ MQ!ResetBlock
    BY <1>5, RecvPutMoves, ResetBlockMoves
  <1>6. \/ UNCHANGED <<head, next, body, last>>
        \/ \E v \in Message, urgent \in BOOLEAN : MQ!IsrSend(v, urgent)
        \/ MQ!SendFill \/ MQ!SendLink
        \/ \E c : MQ!RecvUnlink(c)
        \/ MQ!RecvPut \/ MQ!ResetBlock
    <2>1. UNCHANGED MQ!mqVars => UNCHANGED <<head, next, body, last>>
      BY DEF MQ!mqVars
    <2>2. \A v, urgent : MQ!SendAlloc(v, urgent) => UNCHANGED <<head, next, body, last>>
      BY DEF MQ!SendAlloc
    <2>3. \A c : MQ!RecvBlock(c) => UNCHANGED <<head, next, body, last>>
      BY <2>1 DEF MQ!RecvBlock
    <2>4. MQ!RecvCopy \/ MQ!RecvExpired \/ MQ!Reset => UNCHANGED <<head, next, body, last>>
      BY <2>1 DEF MQ!RecvCopy, MQ!RecvExpired, MQ!Reset
    <2> QED  BY <2>1, <2>2, <2>3, <2>4 DEF MQ!Next
  <1> QED  BY <1>1, <1>2, <1>3, <1>4, <1>5, <1>6


-----------------------------------------------------------------------------
(* Either object is a queue *)

FifoInv == QueuesInv /\ (object = "queue" => Filled)

LEMMA FifoInvInit == QueuesInit => FifoInv
  <1> SUFFICES ASSUME QueuesInit PROVE FifoInv
    OBVIOUS
  <1>1. Filled
    <2>1. pc = [t \in Thread |-> "run"]
      BY DEF QueuesInit, Init, IpcInit, SectionsInit
    <2> QED  BY <2>1 DEF Filled
  <1> QED  BY <1>1, QueuesInvInit DEF FifoInv

LEMMA FifoInvStep ==
    ASSUME FifoInv,
           [QueuesNext]_<<object, vars, head, tail, free, next, body, hand, taken, last>>
    PROVE  FifoInv'
  <1>1. QueuesInv'
    BY QueuesInvStep DEF FifoInv
  <1>2. CASE MailboxNext
    BY <1>1, <1>2 DEF FifoInv, MailboxNext
  <1>3. CASE QueueNext
    BY <1>1, <1>3, FilledNext DEF FifoInv, QueuesInv, QueueNext
  <1>4. CASE UNCHANGED <<object, vars, head, tail, free, next, body, hand, taken, last>>
    <2>1. UNCHANGED <<object, pc, hand, body>>
      BY <1>4 DEF vars, ipcVars
    <2> QED  BY <1>1, <2>1 DEF FifoInv, Filled
  <1> QED  BY <1>2, <1>3, <1>4 DEF QueuesNext

LEMMA SentTypes ==
    ASSUME QueuesInv
    PROVE  Sent \in Seq(Message \cup {Nothing})
  <1>1. CASE object = "mailbox"
    BY <1>1, Rings DEF QueuesInv, Sent
  <1>2. CASE object = "queue"
    <2>1. QueueInv /\ Sent = MQ!Bodies
      BY <1>2 DEF QueuesInv, Sent
    <2>2. PICK q, f : Layout(q, f)
      BY <2>1 DEF QueueInv
    <2> QED  BY <2>1, <2>2, QueueContent
  <1> QED  BY <1>1, <1>2 DEF QueuesInv

LEMMA QueuesMove ==
    ASSUME FifoInv, FifoInv',
           [QueuesNext]_<<object, vars, head, tail, free, next, body, hand, taken, last>>
    PROVE  FifoMove(Sent, Got, Sent', Got')
  <1>1. CASE MailboxNext
    <2>1. object = "mailbox" /\ object' = "mailbox" /\ Next
      BY <1>1 DEF MailboxNext
    <2>2. FifoMove(Ring, received, Ring', received')
      BY <2>1, MailboxMoves DEF FifoInv, QueuesInv
    <2> QED  BY <2>1, <2>2 DEF Sent, Got
  <1>2. CASE QueueNext
    <2>1. object = "queue" /\ object' = "queue" /\ MQ!Next
      BY <1>2 DEF QueueNext
    <2>2. FifoMove(MQ!Bodies, last, MQ!Bodies', last')
      BY <2>1, QueueMoves DEF FifoInv, QueuesInv
    <2> QED  BY <2>1, <2>2 DEF Sent, Got
  <1>3. CASE UNCHANGED <<object, vars, head, tail, free, next, body, hand, taken, last>>
    <2>1. /\ UNCHANGED <<object, pool, entry, out_offset, received>>
          /\ UNCHANGED <<head, next, body, last>>
      BY <1>3 DEF vars, mbVars
    <2>2. Ring' = Ring /\ MQ!Bodies' = MQ!Bodies
      BY <2>1, BodiesAre DEF Ring
    <2>3. Sent' = Sent /\ Got' = Got
      BY <2>1, <2>2 DEF Sent, Got
    <2> QED  BY <2>3 DEF FifoMove
  <1> QED  BY <1>1, <1>2, <1>3 DEF QueuesNext

\* An empty ring, and a queue without a block.
LEMMA QueuesStartEmpty == QueuesInit => Promise!FifoInit
  <1> SUFFICES ASSUME QueuesInit PROVE Promise!FifoInit
    OBVIOUS
  <1>1. object \in {"mailbox", "queue"} /\ Init /\ MQ!Init
    BY DEF QueuesInit
  <1>2. Ring = << >> /\ received = Nothing
    <2>1. entry = 0 /\ received = Nothing
      BY <1>1 DEF Init
    <2> QED  BY <2>1 DEF Ring
  <1>3. MQ!Bodies = << >> /\ last = Nothing
    <2>1. head = Null /\ last = Nothing /\ QueueInv
      BY <1>1, QueueInvInit DEF MQ!Init
    <2>2. PICK q, f : Layout(q, f)
      BY <2>1 DEF QueueInv
    <2>3. q = << >>
      BY <2>1, <2>2, LinkedHead, QueueTypes DEF Layout
    <2>4. Len(MQ!Bodies) = 0 /\ MQ!Bodies \in Seq(Message \cup {Nothing})
      BY <2>1, <2>2, <2>3, QueueContent
    <2> QED  BY <2>1, <2>4, EmptySeq
  <1> QED  BY <1>1, <1>2, <1>3 DEF Promise!FifoInit

\* Every step of the mailbox and of the message queue is one of the bounded queue
\* that delivers each message once and in order, an urgent one first, or leaves
\* that queue alone: the ring of rt_mb_send, rt_mb_recv and their reset, and the
\* blocks that rt_mq_send, rt_mq_urgent, rt_mq_recv and rt_mq_control move
\* through their hands in several sections.
THEOREM QueuesAreFifo == QueuesSpec => QueuesImplementFifo
  <1>1. QueuesInit => FifoInv /\ Promise!FifoInit
    BY FifoInvInit, QueuesStartEmpty
  <1>2. FifoInv /\ [QueuesNext]_<<object, vars, head, tail, free, next, body,
                                  hand, taken, last>>
           => FifoInv' /\ [Promise!FifoNext]_Promise!fifoVars
    <2> SUFFICES ASSUME FifoInv, [QueuesNext]_<<object, vars, head, tail, free, next, body,
                                                hand, taken, last>>
                 PROVE  FifoInv' /\ [Promise!FifoNext]_Promise!fifoVars
      OBVIOUS
    <2>1. FifoInv'
      BY FifoInvStep
    <2>2. FifoMove(Sent, Got, Sent', Got')
      BY <2>1, QueuesMove
    <2>3. Sent \in Seq(Message \cup {Nothing}) /\ Message \subseteq Message \cup {Nothing}
      BY SentTypes DEF FifoInv
    <2>4. [Promise!FifoNext]_Promise!fifoVars
      BY ONLY <2>2, <2>3, FifoMoves
    <2> QED  BY <2>1, <2>4
  <1> QED  BY <1>1, <1>2, PTL DEF QueuesSpec, QueuesImplementFifo, Promise!FifoSpec
=============================================================================
