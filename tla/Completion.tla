----------------------------- MODULE Completion -----------------------------
(***************************************************************************)
(* rt_completion_wait and rt_completion_done of src/rt-thread/components/  *)
(* drivers/src/completion.c: one thread waits for a flag that the others,  *)
(* or an interrupt handler, set.                                           *)
(***************************************************************************)
EXTENDS Ipc

CONSTANT Waiter  \* the thread that waits; the code asserts that it is one

CompletionAssumption == Waiter \in App /\ "done" \in WaitList

VARIABLES flag,   \* completion->flag
          due,    \* ghost: there was a rt_completion_done since the last return
          answer  \* ghost: what the last rt_completion_wait returned, and due then

cpVars == <<flag, due, answer>>

cpSpecVars == <<ipcVars, cpVars>>

CpInit ==
    /\ IpcInit
    /\ flag = "UNCOMPLETED"
    /\ due = FALSE
    /\ answer = [error |-> "none", due |-> FALSE]

-----------------------------------------------------------------------------
WaitCall(time) == [op |-> "done", time |-> time]

\* rt_completion_wait returns e, with the flag cleared.
Answer(e) ==
    /\ flag' = "UNCOMPLETED"
    /\ due' = FALSE
    /\ answer' = [error |-> e, due |-> due]

\* It is already completed.
WaitCompleted ==
    /\ Calling /\ Me = Waiter
    /\ flag = "COMPLETED"
    /\ Answer("EOK")
    /\ UNCHANGED ipcVars

\* It is not.  With no time to wait the call returns -RT_ETIMEOUT and leaves
\* the flag.
WaitBlock(time) ==
    /\ Calling /\ Me = Waiter
    /\ flag # "COMPLETED"
    /\ Block("done", Append(wl["done"], Me), WaitCall(time), time)
    /\ UNCHANGED cpVars

\* Mutant: the flag of the completion that woke the waiter stays set.
MutWaitReturn ==
    /\ At("wait")
    /\ due' = FALSE
    /\ answer' = [error |-> k.err[Me], due |-> due]
    /\ EndCall("run")
    /\ UNCHANGED <<k, wl, flag>>

\* Behind rt_schedule the error number is returned, and the flag is cleared
\* whatever it is.
WaitReturn ==
    /\ At("wait")
    /\ Answer(k.err[Me])
    /\ EndCall("run")
    /\ UNCHANGED <<k, wl>>

\* rt_completion_done looks at the flag with interrupts enabled: it returns ...
DoneTwice ==
    /\ Calling /\ Me # Waiter
    /\ flag = "COMPLETED"
    /\ due' = TRUE
    /\ UNCHANGED <<ipcVars, flag, answer>>

\* ... or goes on ...
DoneBegin ==
    /\ Calling /\ Me # Waiter
    /\ flag # "COMPLETED"
    /\ Goto("done")
    /\ UNCHANGED <<k, wl, call, cpVars>>

SetFlag ==
    /\ flag' = "COMPLETED"
    /\ due' = TRUE
    /\ UNCHANGED answer

\* ... to the section that sets it and resumes the waiter.
Done ==
    /\ At("done")
    /\ SetFlag
    /\ ThreadWakes("done")

IsrDone ==
    /\ IF flag = "COMPLETED"
       THEN IrqEnabled /\ due' = TRUE /\ UNCHANGED <<ipcVars, flag, answer>>
       ELSE SetFlag /\ IsrWakes("done")

-----------------------------------------------------------------------------
CpNext ==
    \/ ((\E t \in Thread : Startup(t) \/ TickTimeout(t)) \/ CallSchedule \/ TickYield)
          /\ UNCHANGED cpVars
    \/ (\E time \in Wait : WaitBlock(time)) \/ WaitCompleted \/ WaitReturn
    \/ DoneTwice \/ DoneBegin \/ Done \/ IsrDone

CpSpec == CpInit /\ [][CpNext]_cpSpecVars

-----------------------------------------------------------------------------
(* Properties *)

CpTypeOK ==
    /\ IpcTypeOK
    /\ pc \in [Thread -> {"run", "pend", "blocked", "wait", "done"}]
    /\ call \in [Thread -> {NoCall} \cup {WaitCall(time) : time \in Wait}]
    /\ flag \in {"COMPLETED", "UNCOMPLETED"} /\ due \in BOOLEAN
    /\ answer \in [error : {"none", "EOK", "ETIMEOUT"}, due : BOOLEAN]

CpConsistent == CpTypeOK /\ KernelConsistent /\ WaitersParked /\ PreemptionPending

\* The waiter does not sleep beside a completion: neither one that found it on
\* the list nor one that came before it.
CpNoneStranded == wl["done"] # << >> => flag = "UNCOMPLETED" /\ ~ due

\* RT_EOK means that there was a rt_completion_done since the last return, and
\* the flag remembers one until the waiter takes note of it, across the waiter's
\* wake-ups, time-outs and several rt_completion_done.
CompletionTrue ==
    /\ answer.error = "EOK" => answer.due
    /\ due <=> flag = "COMPLETED"
=============================================================================
