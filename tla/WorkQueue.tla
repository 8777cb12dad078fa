----------------------------- MODULE WorkQueue -----------------------------
(***************************************************************************)
(* src/rt-thread/components/drivers/src/workqueue.c: threads submit work   *)
(* to a list, a worker thread takes it from there and runs it.  Work of    *)
(* type RT_WORK_TYPE_DELAYED, rt_workqueue_destroy and the undeclared      *)
(* rt_workqueue_cancel_all_work are left out.                              *)
(*                                                                         *)
(* A step is one section of code between two points at which interrupts    *)
(* are enabled.                                                            *)
(***************************************************************************)
EXTENDS Ipc

CONSTANTS Work,     \* the work items, initialised by rt_work_init
          NoWork,   \* RT_NULL
          Worker,   \* queue->work_thread
          Serial    \* whether the threads' calls are kept from overlapping

WorkQueueAssumption ==
    /\ Worker \in App
    /\ Serial \in BOOLEAN
    /\ NoWork \notin Work
    /\ "sync" \in WaitList

VARIABLES works,    \* queue->work_list
          current,  \* queue->work_current
          pending,  \* the work with RT_WORK_STATE_PENDING
          ended     \* ghost: thread -> the run that it waits for has ended

wqVars == <<works, current, pending, ended>>

wqSpecVars == <<ipcVars, wqVars>>

WqInit ==
    /\ IpcInit
    /\ works = << >> /\ current = NoWork /\ pending = {}
    /\ ended = [t \in Thread |-> TRUE]

-----------------------------------------------------------------------------
(* The worker *)

\* The look at the list, with interrupts enabled.
WorkerLook ==
    /\ Me = Worker /\ At("run")
    /\ Goto(IF works = << >> THEN "sleep" ELSE "take")
    /\ UNCHANGED <<k, wl, call, wqVars>>

WorkerSuspend ==
    /\ At("sleep")
    /\ k' = Suspend(k, Me)
    /\ Goto("asleep")
    /\ UNCHANGED <<wl, call, wqVars>>

\* The rt_schedule behind it.
WorkerSleep ==
    /\ At("asleep")
    /\ k' = Schedule(k)
    /\ Goto("take")
    /\ UNCHANGED <<wl, call, wqVars>>

\* Mutant: the work keeps its RT_WORK_STATE_PENDING.
MutWorkerTake ==
    /\ At("take")
    /\ works # << >>
    /\ current' = Head(works) /\ works' = Tail(works)
    /\ Goto("work")
    /\ UNCHANGED <<k, wl, call, pending, ended>>

\* The first work becomes the current one.  Of an empty list the code would
\* take the list head for a work item: see WqHasWork.
WorkerTake ==
    /\ At("take")
    /\ works # << >>
    /\ current' = Head(works) /\ works' = Tail(works)
    /\ pending' = pending \ {Head(works)}
    /\ Goto("work")
    /\ UNCHANGED <<k, wl, call, ended>>

\* work_func waits for something of its own, for a time or until an interrupt.
WorkSuspend(time) ==
    /\ At("work")
    /\ k' = SuspendOn(k, Me, time)
    /\ Goto("dozing")
    /\ UNCHANGED <<wl, call, wqVars>>

WorkDoze ==
    /\ At("dozing")
    /\ k' = Schedule(k)
    /\ Goto("work")
    /\ UNCHANGED <<wl, call, wqVars>>

IsrWakesWork ==
    /\ pc[Worker] \in {"dozing", "work"} /\ k.stat[Worker] = "SUSPEND"
    /\ k' = Schedule(Resume(k, Worker))
    /\ UNCHANGED <<wl, pc, call, wqVars>>

\* work_func has returned.
WorkEnd ==
    /\ At("work")
    /\ current' = NoWork
    /\ ended' = [t \in Thread |-> TRUE]
    /\ Goto("done")
    /\ UNCHANGED <<k, wl, call, works, pending>>

\* _workqueue_work_completion locks the scheduler ...
AckBegin ==
    /\ Me = Worker /\ At("done")
    /\ k' = EnterCritical(k)
    /\ Goto("ack")
    /\ UNCHANGED <<wl, call, wqVars>>

\* ... releases queue->sem once for each waiter, which finds it at 0 ...
AckRelease ==
    /\ At("ack")
    /\ wl["sync"] # << >>
    /\ k' = ResumeFirst("sync")
    /\ wl' = Popped("sync")
    /\ UNCHANGED <<pc, call, wqVars>>

\* ... and once more, takes that token back and unlocks it.
AckEnd ==
    /\ At("ack")
    /\ wl["sync"] = << >>
    /\ k' = Schedule(ExitCritical(k))
    /\ Goto("run")
    /\ UNCHANGED <<wl, call, wqVars>>

-----------------------------------------------------------------------------
(* Clients: threads, and the functions of the work *)

\* In a submission that is to resume the worker, up to the end of rt_schedule.
Submitting(t) == pc[t] \in {"resume", "unlink", "insert", "pend"}

\* rt_workqueue_create starts the worker before there is a queue to use.
Using ==
    \/ /\ Calling /\ Me # Worker
       /\ k.stat[Worker] # "INIT"
       /\ Serial => ~ \E t \in Thread : Submitting(t)
    \/ At("work")

\* The work w goes to the end of the list; a worker that runs nothing is to be
\* resumed.
Enqueue(w) ==
    /\ Using
    /\ current # w
    /\ works' = Append(RemoveFirst(works, w), w)
    /\ IF current = NoWork THEN Goto("resume") ELSE UNCHANGED pc
    /\ UNCHANGED <<k, wl, call, current, ended>>

\* _workqueue_submit_work; of a pending or running work it returns -RT_EBUSY.
SubmitWork(w) ==
    /\ w \notin pending
    /\ pending' = pending \cup {w}
    /\ Enqueue(w)

\* rt_workqueue_critical_work.
CriticalWork(w) == Enqueue(w) /\ UNCHANGED pending

\* Mutant: a submission does not resume the worker.
MutResumeTest ==
    /\ At("resume")
    /\ Goto("pend")
    /\ UNCHANGED <<k, wl, call, wqVars>>

\* rt_thread_resume of the worker, with interrupts enabled: the test ...
ResumeTest ==
    /\ At("resume")
    /\ Goto(IF k.stat[Worker] = "SUSPEND" THEN "unlink" ELSE "pend")
    /\ UNCHANGED <<k, wl, call, wqVars>>

\* ... the section that takes it off its list and stops its timer ...
ResumeUnlink ==
    /\ At("unlink")
    /\ k' = ResumeOff(k, Worker)
    /\ Goto("insert")
    /\ UNCHANGED <<wl, call, wqVars>>

\* ... and rt_schedule_insert_thread, before rt_schedule.
ResumeInsert ==
    /\ At("insert")
    /\ k' = InsertThread(k, Worker)
    /\ Goto("pend")
    /\ UNCHANGED <<wl, call, wqVars>>

\* rt_workqueue_cancel_work; of the running work it returns -RT_EBUSY.
CancelWork(w) ==
    /\ Using
    /\ current # w
    /\ works' = RemoveFirst(works, w)
    /\ pending' = pending \ {w}
    /\ UNCHANGED <<ipcVars, current, ended>>

\* rt_workqueue_cancel_work_sync of the running work, by another thread.  It
\* calls rt_sem_take with interrupts disabled: the switch that rt_schedule asks
\* for is taken when they are enabled again, after the flag is cleared.
CancelSync ==
    /\ Using /\ Me # Worker
    /\ current # NoWork
    /\ pending' = pending \ {current}
    /\ wl' = [wl EXCEPT !["sync"] = Append(@, Me)]
    /\ ended' = [ended EXCEPT ![Me] = FALSE]
    /\ k' = Schedule(SuspendOn(k, Me, "forever"))
    /\ Goto("synced")
    /\ UNCHANGED <<call, works, current>>

SyncReturn ==
    /\ At("synced")
    /\ Goto("run")
    /\ UNCHANGED <<k, wl, call, wqVars>>

-----------------------------------------------------------------------------
\* Only clients and the idle thread start threads.
WqNext ==
    \/ (\E t \in Thread : Startup(t)) /\ Me # Worker /\ UNCHANGED wqVars
    \/ ((\E t \in Thread : TickTimeout(t)) \/ TickYield \/ CallSchedule) /\ UNCHANGED wqVars
    \/ WorkerLook \/ WorkerSuspend \/ WorkerSleep \/ WorkerTake
    \/ (\E time \in Wait : WorkSuspend(time)) \/ WorkDoze \/ IsrWakesWork \/ WorkEnd
    \/ AckBegin \/ AckRelease \/ AckEnd
    \/ \E w \in Work : SubmitWork(w) \/ CriticalWork(w) \/ CancelWork(w)
    \/ ResumeTest \/ ResumeUnlink \/ ResumeInsert
    \/ CancelSync \/ SyncReturn

WqSpec == WqInit /\ [][WqNext]_wqSpecVars

-----------------------------------------------------------------------------
(* Properties *)

WqTypeOK ==
    /\ IpcTypeOK
    /\ pc \in [Thread -> {"run", "pend", "sleep", "asleep", "take", "work", "dozing",
                          "done", "ack", "resume", "unlink", "insert", "synced"}]
    /\ works \in Seq(Work) /\ Distinct(works)
    /\ current \in Work \cup {NoWork} /\ pending \subseteq Work
    /\ ended \in [Thread -> BOOLEAN]

\* The worker is on its way back to a ready list, on none.
Underway == \E t \in Thread : pc[t] = "insert"

\* The types hold; ready lists, bitmap and states agree but while the worker is
\* being resumed; a thread waits for the end of a run only while there is one.
WqConsistent ==
    /\ WqTypeOK
    /\ Underway \/ KernelConsistent
    /\ ReadyDistinct(k) /\ GroupExact(k) /\ OneRunning(k)
    /\ \A t \in Thread : Waiting(t) => k.stat[t] = "SUSPEND" /\ pc[t] = "synced"

\* The worker finds work when it takes some: "we have work to do with".
WqHasWork == pc[Worker] = "take" /\ Me = Worker => works # << >>

\* The worker does not sleep beside work unless somebody is about to resume it,
\* and no canceller sleeps after the run that it waits for was acknowledged.
WqNoneStranded ==
    /\ pc[Worker] \in {"sleep", "asleep", "take"} /\ works # << >> =>
          k.stat[Worker] # "SUSPEND" \/ \E t \in Thread : Submitting(t)
    /\ wl["sync"] # << >> => current # NoWork \/ pc[Worker] \in {"done", "ack"}

\* Pending work is on the list and not running, and rt_workqueue_cancel_work_sync
\* returns only when the run that it found has ended.
WqAccounted ==
    /\ pending \subseteq ToSet(works)
    /\ current \notin ToSet(works)
    /\ \A t \in Thread : pc[t] = "synced" /\ k.stat[t] # "SUSPEND" => ended[t]
=============================================================================
