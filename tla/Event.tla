------------------------------- MODULE Event -------------------------------
(***************************************************************************)
(* rt_event_send, rt_event_recv and rt_event_control of src/rt-thread/src/ *)
(* ipc.c: threads wait for all or for one of a set of events, and a send   *)
(* serves the waiters in the order of the list.                            *)
(***************************************************************************)
EXTENDS Ipc

CONSTANTS Bit,  \* the bits of event->set
          Ask   \* the calls of rt_event_recv that the threads make

ASSUME EventAssumption == IsFiniteSet(Bit) /\ "recv" \in WaitList

VARIABLES set   \* event->set

evSpecVars == <<ipcVars, set>>

EvInit ==
    /\ IpcInit
    /\ set = {}

-----------------------------------------------------------------------------
\* rt_event_recv of the events want with RT_EVENT_FLAG_AND or _OR, and with
\* RT_EVENT_FLAG_CLEAR if clear.  got is thread->event_set, which a send may
\* overwrite; mode and clear are thread->event_info.
RecvCall(want, mode, clear) ==
    [op |-> "recv", want |-> want, got |-> want, mode |-> mode, clear |-> clear]

RecvCalls ==
    {RecvCall(want, mode, clear) :
        want \in SUBSET Bit \ {{}}, mode \in {"AND", "OR"}, clear \in BOOLEAN}

ASSUME AskAssumption == Ask \subseteq RecvCalls

Satisfied(c, events) ==
    IF c.mode = "AND" THEN c.want \subseteq events ELSE c.want \cap events # {}

\* Mutant: what a waiter clears stays in the set during the scan.
MutServe(s, t) ==
    LET c   == s.call[t]
        got == IF c.mode = "AND" THEN c.want ELSE c.want \cap s.set
    IN  IF ~ Satisfied(c, s.set) THEN s
        ELSE [s EXCEPT !.k = Resume(@, t), !.q = RemoveFirst(@, t), !.call[t].got = got]

\* Mutant: an event is taken out of the set before the intersection is formed.
MutServeLate(s, t) ==
    LET c    == s.call[t]
        rest == IF c.clear THEN s.set \ c.want ELSE s.set
        got  == IF c.mode = "AND" THEN c.want ELSE c.want \cap rest
    IN  IF ~ Satisfied(c, s.set) THEN s
        ELSE [s EXCEPT !.k = Resume(@, t), !.q = RemoveFirst(@, t), !.call[t].got = got,
                       !.set = rest]

\* The scan of rt_event_send: what becomes of the kernel, the list, the set and
\* the threads' event_set, in the record s, when the waiter t is looked at.
Serve(s, t) ==
    LET c   == s.call[t]
        got == IF c.mode = "AND" THEN c.want ELSE c.want \cap s.set
    IN  IF ~ Satisfied(c, s.set) THEN s
        ELSE [s EXCEPT !.k = Resume(@, t), !.q = RemoveFirst(@, t), !.call[t].got = got,
                       !.set = IF c.clear THEN @ \ got ELSE @]

\* Mutant: the scan stops at the first waiter.
MutSent(new) ==
    LET s == [k |-> k, q |-> wl["recv"], set |-> set \cup new, call |-> call]
    IN  IF s.q = << >> THEN s ELSE Serve(s, Head(s.q))

\* The state in which the scan ends.
Sent(new) ==
    LET q == wl["recv"]
        scan[n \in 0 .. Len(q)] ==
            IF n = 0 THEN [k |-> k, q |-> q, set |-> set \cup new, call |-> call]
            ELSE Serve(scan[n - 1], q[n])
    IN  scan[Len(q)]

\* rt_event_send, with s the outcome of its scan.
Send(s) ==
    /\ wl' = [wl EXCEPT !["recv"] = s.q]
    /\ set' = s.set
    /\ call' = s.call

ThreadSend(new) ==
    /\ Calling
    /\ LET s == Sent(new)
       IN  /\ Send(s)
           /\ k' = s.k
           /\ Goto(IF s.q = wl["recv"] THEN "run" ELSE "pend")

IsrSend(new) ==
    /\ IrqEnabled
    /\ LET s == Sent(new)
       IN  /\ Send(s)
           /\ k' = IF s.q = wl["recv"] THEN k ELSE Schedule(s.k)
    /\ UNCHANGED pc

\* rt_event_recv of events that are there.
RecvNow(c) ==
    /\ Calling
    /\ Satisfied(c, set)
    /\ set' = IF c.clear THEN set \ c.want ELSE set
    /\ k' = [k EXCEPT !.err[Me] = "EOK"]
    /\ UNCHANGED <<wl, pc, call>>

\* rt_event_recv that has to wait.  With no time to wait it returns
\* -RT_ETIMEOUT.
RecvBlock(c, time) ==
    /\ Calling
    /\ ~ Satisfied(c, set)
    /\ Block("recv", EnqueueWaiter(k, wl["recv"], Me, Flag), c, time)
    /\ UNCHANGED set

\* The waiter returns what rt_event_send left in thread->event_set.
RecvReturn ==
    /\ Retrying("recv")
    /\ EndCall("run")
    /\ UNCHANGED <<k, wl, set>>

\* rt_event_control(RT_IPC_CMD_RESET), after the wake-ups.
Reset == ResetEnd /\ set' = {}

-----------------------------------------------------------------------------
EvNext ==
    \/ IpcStep /\ UNCHANGED set
    \/ \E new \in SUBSET Bit \ {{}} : ThreadSend(new) \/ IsrSend(new)
    \/ \E c \in Ask : RecvNow(c) \/ \E time \in Wait : RecvBlock(c, time)
    \/ RecvReturn
    \/ (ResetBegin \/ \E l \in WaitList : ResetResume(l)) /\ UNCHANGED set
    \/ Reset

EvSpec == EvInit /\ [][EvNext]_evSpecVars

-----------------------------------------------------------------------------
(* Properties *)

EvTypeOK ==
    /\ IpcTypeOK
    /\ pc \in [Thread -> IpcPc]
    /\ call \in [Thread -> {NoCall} \cup
                   {[c EXCEPT !.got = g] : c \in Ask, g \in SUBSET Bit}]
    /\ \A t \in Thread : call[t] # NoCall => pc[t] \in {"blocked", "wait"}
    /\ set \subseteq Bit

\* The types hold, and the object's calls leave the kernel's state and the wait
\* lists consistent and no woken thread behind.
EvConsistent == EvTypeOK /\ KernelConsistent /\ WaitersParked /\ PreemptionPending

\* No thread sleeps on events that are there: a send that serves several
\* waiters, each of which may take events away, skips none that it could serve.
EvNoneStranded ==
    \A t \in ToSet(wl["recv"]) : ~ Satisfied(call[t], set)

\* What a woken waiter will report is what it asked for: all of its events, or
\* some of them.
OutcomeTrue ==
    \A t \in Woken : call[t].got \subseteq call[t].want /\ Satisfied(call[t], call[t].got)

\* An event that one waiter takes with RT_EVENT_FLAG_CLEAR is gone: the step
\* does not leave it in the set, and no later waiter of the same send gets it.
TakesOnce ==
    LET served == Woken' \ Woken
        place(t) == SelectInSeq(wl["recv"], LAMBDA y : y = t)
    IN  \A t \in served :
           call[t].clear =>
             /\ call'[t].got \cap set' = {}
             /\ \A u \in served :
                   place(t) < place(u) => call'[t].got \cap call'[u].got = {}
=============================================================================
