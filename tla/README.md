# Verification of the EFM32GG380 RT-Thread firmware

The repository is the firmware of a battery-powered data logger: RT-Thread 4.0.2 built for an EFM32GG380 (one Cortex-M3 core, no SMP, no signals, 32 priorities, 1000 ticks a second), a set of drivers in `src/drivers`, a few threads in `src/applications`, and vendored packages.
All of its concurrency goes through one small kernel, `src/rt-thread/src`: every driver lock is a semaphore, every bus a mutex, every deferred action a soft timer or a work item.
That kernel is what this project models first, checks with TLC and proves about with TLAPS; over it come the services of RT-Thread that this firmware uses, and the drivers and applications that keep a protocol of their own.

Contents: [inventory](#inventory), [how the code is modelled](#how-the-code-is-modelled), [modules](#modules), [runs](#runs), [what the runs found](#what-the-runs-found), [proofs](#proofs), [not modelled](#not-modelled), [plan](#plan).

## Inventory

| Part | Source | State | Operations | Hard behaviour | What makes it correct |
|---|---|---|---|---|---|
| Scheduler | `scheduler.c` | ready lists by priority, `rt_thread_ready_priority_group`, current thread, lock nesting | `rt_schedule`, insert, remove, enter and exit critical | runs from threads and, nested, from interrupts; a suspended thread still runs until its `rt_schedule` | lists, bitmap and thread states agree; the most urgent ready thread runs once a pending `rt_schedule` is done |
| Threads | `thread.c`, `idle.c` | `stat`, `current_priority`, `error`, thread timer, defunct list | create, startup, suspend, resume, sleep, change of priority, timeout, exit, delete; clean-up by the idle thread | state read outside the interrupt lock; three sections in delete | no thread on two lists; a deleted thread never runs |
| Timers | `timer.c`, `clock.c` | tick, two sorted lists, `ACTIVATED` flags, timer thread | start, stop, control, check (interrupt), soft check (thread) | tick wraps; callbacks start and stop timers; timer thread sleeps and is kicked | a started timer fires, in order, once; the timer thread never sleeps beside a timer |
| Semaphore | `ipc.c` 186-515 | `value` (16 bits), wait list | take, trytake, release, reset, detach | release, timeout and reset race; interrupt releases | tokens are conserved; no waiter beside a token; a token goes past all waiters only when there are none |
| Mutex | `ipc.c` 517-900 | `value`, `owner`, `original_priority`, `hold`, wait list | take, recursive take, release | priority inheritance through preemption, sleep and timeout | one owner; owner as urgent as its waiters; boosts end |
| Event | `ipc.c` 903-1280 | `set`, wait list, what each thread waits for | send, receive (and, or, clear), reset | one send serves several waiters that clear | every wake-up is earned; a cleared event is consumed once; nobody is left whose events are set |
| Mailbox | `ipc.c` 1282-1760 | ring, offsets, `entry`, two wait lists | send, send with wait, receive, reset | woken threads compete and go back to sleep | bounded FIFO queue; no wake-up lost |
| Message queue | `ipc.c` 1762-2329 | block chain, free list, `entry`, wait list | send, urgent, receive, reset | blocks are in nobody's list while they are copied with interrupts enabled | no block lost or shared; messages intact and in order |
| Memory pool | `mempool.c` | free list, counts, wait list | allocate, free | as the mailbox, with a separate count of waiters | no block lost or handed out twice; count of waiters true |
| Heap | `memheap.c` | ring of blocks, free list, `available_size`, semaphore | allocate, free, reallocate | a reallocation that moves gives the semaphore back twice; neighbours are split and joined in place | blocks tile the heap; no region is lent twice |
| Completion | `completion.c` | flag, one waiter | wait, done | an answer that races the timeout of its waiter | no waiter beside a completion; `RT_EOK` means there was one |
| Data queue | `dataqueue.c` | ring with 16-bit indices, low-water mark, two wait lists | push, pop | pushers wait until the mark is reached; the indices wrap | bounded FIFO queue; no pusher left below the mark |
| Work queue | `workqueue.c` | work list, current work, `PENDING` flags, worker | submit, critical work, cancel, cancel and wait | looks at the list with interrupts enabled; work that cancels and submits work | the worker is never sent to an empty list; a synchronous cancel outlasts the run |
| Pipe, ring buffers, wait queue | `components/drivers/src` | rings, a list of waiters | read, write, wait, wake | the blocking file operations are not part of this build | bytes in order |
| Serial and LEUART | `serial.c`, `drv_leuart.c` | receive ring, lock, semaphore of the shell | open, read, write, control, receive interrupt | ring shared with the interrupt, which drops the oldest byte; reads and writes exclude each other | bytes in order, only the oldest lost; the shell never sleeps beside a byte |
| SPI bus and driver | `spi_core.c`, `drv_spi.c` | bus owner and mutex, chip selects, USART set-up, DMA flags | configure, transfer, DMA interrupts | configuration, selection and transfer are three steps; DMA ends in interrupts | one device selected, set up and owned while bytes move |
| Power management | `pm.c`, `drv_pm.c`, `drv_emu.c` | request counts, run mode, sleep mode | request, release, change of speed, idle | a request between selection and sleep; a pending change of clock | never deeper than asked; never slower than asked |
| Firmware download | `ymodem.c`, `update.c` | stage, buffer, open file | handshake, transfer, finish | lost and damaged packets and answers, time-outs | files whole or an error |
| I2C and sensors, RTC, LCD, flash, others | `src/drivers`, `src/applications` | see `PROJECT.json` | | | |

How the parts interact: threads and interrupt handlers call the IPC objects; these call `rt_thread_suspend`, `rt_thread_resume` and the thread timers; the tick interrupt calls the scheduler (end of a time slice) and the timers' callbacks, which resume threads with `-RT_ETIMEOUT`; all of them end in `rt_schedule`.
Drivers use the objects only through those calls: the LEUART, SPI and I2C drivers a semaphore of value 1 as a lock, the SPI framework a FIFO mutex, the watchdog, LED and shell threads `rt_thread_delay` and semaphores.

## How the code is modelled

**Steps.** There is one core, so two pieces of code interleave only where interrupts are enabled: an interrupt may come there, and its `rt_schedule` may switch threads.
A step is therefore the code between two such points, with every call it makes.
`rt_sem_take` that has to wait, for instance, is `TakeSuspend` (the section up to `rt_hw_interrupt_enable`), `CallSchedule` (`rt_schedule`, which disables interrupts itself) and `TakeReturn` (what the thread does when it runs again).
Between the first two the thread is suspended and still has the processor; an interrupt may resume it or time it out right there.
Only the current thread takes thread steps, because a suspended thread still runs until its `rt_schedule`.

**Interrupts.** An interrupt handler is one step, which cannot be interrupted by a thread: the `Isr...` actions are calls of the objects from handlers, `TickYield` is the end of a time slice and `TickTimeout` the expiry of a thread timer.
Handlers do not nest in the model; nested handlers would call the same sections one after the other, with one `rt_schedule` at the end or two.
Steps of a loop that runs with interrupts disabled (the resets) carry the label `reset`, at which `IrqEnabled` is false and no other actor moves.

**Time.** A thread timer is a member of `k.tmr` and may expire at any later step, so that every order of timeouts and other events is covered; how long a wait lasts is abstracted.
`SoftTimer` and `HardTimer` keep the tick itself, with its wrap, because their properties are about the order of ticks.

**Data.** Priorities are numbers as in the code (smaller is more urgent); the hardware bitmap is the set of its bits; wait lists and ready lists are sequences; messages and blocks are model values.
`sem->value` is taken modulo `SemMod` and `mutex->hold` modulo `HoldMod`, as in their 16-bit and 8-bit fields.
Hooks, debug output, assertions and stack checks are left out.

## Modules

| Module | Models | State and actions |
|---|---|---|
| `Kernel` | `scheduler.c`, the parts of `thread.c` that move threads, the wait lists of `ipc.c` | no variables: operators on kernel states, records `[cur, prio, stat, err, rq, grp, tmr, lock]`. `Schedule`, `InsertThread`, `RemoveThread`, `Suspend`, `Resume`, `Timeout`, `ChangePriority`, `EnterCritical`, `ExitCritical`, `EnqueueWaiter`, `SuspendOn`, `ResumeError`; `KernelOK` and `TopRuns` say what a state promises |
| `Threads` | what every program of threads shares | `k`, the kernel, and `pc`, where each thread is in the code; who runs, and where it goes next |
| `Sections` | what the calls of `ipc.c` share | EXTENDS `Threads`: the start, time slices, `KernelConsistent` and `PreemptionPending` |
| `Semaphore` | `rt_sem_init`, `take`, `trytake`, `release`, `control` | EXTENDS `Sections` by `semValue` and `semWaiters`; `credit` is a ghost: the tokens that were released and not yet taken. One action for each section, `IsrRelease`, `TickYield`, `TickTimeout` |
| `TokenPool` | abstract: a counting semaphore | a take is waiting, granted or failed, and learns one outcome; a token enters the pool only when nobody waits. `Semaphore!ImplementsPool` is the refinement |
| `Mutex` | `rt_mutex_init`, `take`, `release`, `rt_thread_sleep` | EXTENDS `Sections` by the fields of each mutex; `lowered` is a ghost: a boost was given up and no `rt_schedule` has run since |
| `Lock` | abstract: a lock with hand-over | `Mutex!ImplementsLock` is the refinement |
| `SoftTimer` | `rt_timer_start`, `rt_timer_stop`, `rt_thread_timer_entry`, `rt_soft_timer_check`, `rt_thread_resume` of the timer thread | EXTENDS `Threads` by the list, `due`, `active`, the tick, the locals `loc` of the walk; one action for each stretch that reads or writes shared state once, because most of this code runs with interrupts enabled |
| `TimerList` | the lists of `timer.c` | no variables: the comparison of ticks by half ranges, the insertion of `rt_timer_start`, and what it means to be in order |
| `HardTimer` | `rt_timer_start`, `rt_timer_stop`, a new time, `rt_timer_check`, `rt_tick_increase` | `tick`, `rt_timer_list`, `timeout_tick`, `init_tick`, `activated`. Threads start and stop in sections, handlers at once; `TickIncrease` is the whole interrupt with the callbacks, which may stop timers; `fresh` is a ghost: listed since the last tick |
| `ThreadLife` | `rt_thread_create`, `init`, `startup`, `suspend`, `resume`, `exit`, `delete`, `detach`, `rt_thread_idle_excute` | EXTENDS `Threads` by `memory` (what there is of a thread), `defunct` and `about` (the thread that a call is about); one action for each section |
| `Lifecycle` | abstract: a thread is born, lives, dies once, is given back once | no switch to a thread that is not alive, no stack freed under the running thread; `ThreadLife!ImplementsLifecycle` is the refinement |
| `Ipc` | what the objects with wait lists share | EXTENDS `Sections` by the wait lists `wl` and the calls `call`; `Block`, `CallSchedule`, `WaitFailed`, `ResumeFirst`, `ThreadWakes`, `IsrWakes`, the reset loop, `TickYield`, `TickTimeout`; the common invariants |
| `Mailbox`, `MessageQueue`, `Event`, `MemPool` | the objects of `ipc.c` and `mempool.c` | each EXTENDS `Ipc` and adds its fields and the sections of its calls |
| `DataQueue`, `Completion` | `dataqueue.c`, `completion.c` | the same way; `popped`, `due` and `answer` record what a call returned |
| `WorkQueue` | `workqueue.c` | the same way; the worker is one of the threads, and its work makes the calls a thread makes |
| `Leuart` | `drv_leuart.c` under `finsh_getchar` and `rt_kprintf` | the same way, with the lock of the device and the semaphore of the shell as numbers; `missed` is what makes the shell wait for its semaphore |
| `Fifo` | abstract: a bounded queue with urgent insertion | `QueuesImplementFifo` and `DataImplementsFifo` are the refinements |
| `Backlog` | abstract: a queue that drops its oldest | `LineImplementsBacklog` |
| `MemHeap` | `rt_memheap_alloc`, `realloc`, `free` | blocks by address, free list, counter; a part of a call under the heap's semaphore is one step; `lent` is a ghost: what each user asked for |
| `Allocator` | abstract: regions that do not overlap | `HeapImplementsAllocator` |
| `Ymodem` | `rym_recv_on_device` with the callbacks of `update.c` | the receiver's stage and buffer, the files, a sender (external) and two channels; the actions of the line lose and damage what is under way |
| `Pm` | `rt_pm_request`, `release`, `run_enter`, `rt_system_power_manager`, the board's sleep and run operations | request counts, run mode, clock; the idle thread between selection and sleep |
| `Spi` | `rt_spi_configure`, `rt_spi_transfer`, `rt_spi_send_then_recv`, `spiDmaXfer`, the two DMA interrupts | owner, locker, chip selects, USART set-up, DMA flags, each thread's job |
| `Devices` | the heap, the download, the power management, the SPI bus and the hard timers side by side | instances `MH`, `YM`, `PM`, `SP` and `HT` of their modules: these objects use nothing of the kernel but its tick |
| `KernelProofs` | what each operator of `Kernel` does to a consistent state | lemmas, see [proofs](#proofs) |
| `LockProofs`, `ThreadProofs` | theorems about `Semaphore` and `Mutex`; about `ThreadLife` and `SoftTimer` | see [proofs](#proofs) |
| `IpcProofs` | what each section of `Ipc` does to the wait lists and to those who are on their way | lemmas for `QueueProofs` and `ObjectProofs` |
| `QueueProofs` | theorems about `Mailbox` and `MessageQueue` as `MCQueues` puts them together | see [proofs](#proofs) |
| `ObjectProofs` | the objects with wait lists of `MCServices`: one inductive invariant for each | lemmas for `ServicesProofs` |
| `DeviceProofs` | the heap and the hard timers of `Devices`: one inductive invariant for each | lemmas for `ServicesProofs` |
| `ServicesProofs` | the download, the power management and the SPI bus, and the theorems about all eleven objects as `MCServices` puts them together | see [proofs](#proofs) |
| `MCSemaphore`, `MCMutex`, `MCSoftTimer`, `MCThreadLife`, `MCMemPool` | instances for TLC | threads, priorities, symmetry |
| `MCQueues`, `MCServices` | compositions for TLC | several objects, of which the initial state chooses the one that is used; the objects with wait lists share the threads, the kernel and the lists of `Ipc`, `MCServices` has those of `Devices` beside them, and each property says for each object what it promises |

`PROJECT.json` maps each definition to the lines it stands for.
Definitions whose names start with `Mut` are mutants: what a plausible mistake in the code would make of the definition that follows.
Each property is known to fail when its mutant takes the place of the definition.

## Runs

All instances have one application thread of high priority, one or two below it and the idle thread, which is enough for each pattern that involves a holder, a waiter and a thread that preempts or takes turns with either.

| Run | Instance | Shows |
|---|---|---|
| `semaphore` | 3 threads and idle, two of equal priority; PRIO list; at most 2 tokens, field of 4 values | `SemTypeOK`, `KernelConsistent`, `SemWaitersParked` and `SemPreemptionPending`; `Conservation`, `NoStrandedWaiter`, `WaitersOrdered`; `TimedTakeReturns` under fairness; the refinement of `TokenPool` |
| `mutex` | 3 threads of 3 priorities; one PRIO mutex, recursion up to 2 | `Consistent` (with `LockConsistent`), `OwnerInherits`, `NeverDemoted`, `BoostEnds`; `UrgentTakeReturns`: no unbounded priority inversion; the refinement of `Lock` |
| `mutex_nested_boost` | two mutexes | violates `BoostEnds` |
| `queues` | 3 threads, handlers that send and receive, 2 slots or blocks, 2 messages; a mailbox or a message queue | `QueuesConsistent`, `NoThreadStranded`, `BlocksAccounted`, `CopyIntact`, the refinement of `Fifo` |
| `services` | 3 threads and handlers; one of eleven objects | `ServicesConsistent`, `NoThreadStranded`, `ResultTrue`, `BlocksAccounted`, `WorkAccounted`, `EventTakenOnce`; the refinements of `Fifo`, `Allocator` and `Backlog` |
| `workqueue_overlap` | two clients that preempt each other | violates `WorkToDo` |
| `mempool_count` | 3 threads, handlers, 2 blocks | violates `WaitersCounted` |
| `softtimer_safety` | timer thread, a thread below it, idle; a one-shot and a periodic timer that restarts itself in its callback; tick modulo 13 | `ListedActive`, `ListOrdered`, `AsleepWhenNone`, `WakesInTime`, `FiresListed` |
| `softtimer_fires` | one one-shot timer | `TimerFires` |
| `softtimer_lost_wakeup` | the owner is above the timer thread | violates `AsleepWhenNone` |
| `threads` | two static threads, one of them the most urgent, and a created one; a static one and the created one have cleanup functions | `LifeConsistent`, `DeadAccounted`, `DeadReaped`; the refinement of `Lifecycle` |
| `thread_delete_race` | threads deleted while their timer runs | violates `ClosedOffQueues` |

What `services` says of each object:

| Object | Instance | Promise |
|---|---|---|
| event | 2 events; waits for one or both, and or or, clear or keep | a thread that is woken was owed it (`ResultTrue`); an event that is cleared is taken once (`EventTakenOnce`) |
| pool | 2 blocks | `BlocksAccounted`: free once or allocated, and counted |
| data | 2 items, low-water mark 0, 3 pushes | a FIFO queue; no pusher or popper stranded |
| completion | one waiter | no waiter beside a completion; the result is true, also when the timeout comes first |
| work | 2 works, the worker above its clients | `WorkAccounted` |
| heap | 16 units with headers of 2, requests of 1, 2, 4 and 6 | blocks tile the heap, free list and counter agree, a used block is as large as asked |
| update | files of 2 blocks and 1 block, up to 3 faults, 3 attempts at the handshake | no file with a block missing or twice; success means that all are whole |
| line | ring of 4, 2 unclaimed releases | the shell never sleeps beside a byte |
| power | all speeds, 4 of the sleep modes, counts up to 2 | the mode that is entered is no deeper than those asked for at its selection |
| bus | 2 devices, 2 settings, 2 threads, messages of 1 or 2 pieces | while bytes move, one device is selected, set up, and belongs to the owner |
| timers | a periodic and a one-shot timer, tick modulo 9, times 1 and 2; either callback may stop timers | list in order and true to the flags; no tick leaves a due timer behind |

`Consistent` is the conjunction of the type invariant with what the kernel promises on behalf of every object: `KernelConsistent` (ready lists, bitmap and states agree), `WaitersParked` (exactly the waiters are suspended, each on one list) and `PreemptionPending` (a ready thread of higher priority is passed over only while the current one still has an `rt_schedule` to call). `LifeConsistent` is that for `ThreadLife`, where a thread under deletion is on no list (`ReadyOrDoomed`). `semaphore` has these parts as properties of its own.

**Bounds.** `MaxCredit` bounds the tokens in circulation, `MaxHold` the recursion, `MaxSuspended` the drift of the count that `mempool_count` is about, `MaxPut` the pushes that are followed, `MaxRx` the unclaimed releases of the shell's semaphore, `MaxFault` the faults of the line; each guards the action that would exceed it.
Two slots or blocks are the fewest with which a queue is empty, partly filled, full and wrapped around; three pushes take the index of the data queue around its ring.
Two tokens and three threads let a token be promised while another is available and a third thread waits.
A heap of 16 units holds three used blocks and a tail, so that a block is freed between free neighbours, between used ones and beside one of each.
Three faults lose a packet, the request that repeats it and the repetition.
`PmMax` is the ceiling at which a request is ignored; two are enough for two requests to be counted and released in either order.
`TickMod = 13` gives `RT_TICK_MAX` the value 12 and leaves six ticks on each side of the half-range comparison, `TickMod = 11` five, `TickMod = 9` four, more than the longest time and the lag together, as the assertion of `rt_timer_start` demands.
`MaxLag = 1` says that a stretch of code between two looks at the tick takes at most one tick, as the code itself assumes when it compares ticks by half ranges.
Threads of equal priority are interchangeable, and so are messages, which makes the symmetry sets of the configurations sound; they are used only with invariants, action properties and refinements without fairness.

**What the instances take for granted.**

* `ThreadLife`: a thread is suspended only by itself, as everywhere in this firmware; no two calls are about one thread at the same time (`Settled`); a thread is resumed by another only when its own timer does not run; no thread deletes itself with `rt_thread_delete`. In the run `threads` a thread is deleted only while its timer does not run (`DeleteAsleep = FALSE`), which the violation run lifts. The idle thread makes and starts threads, for the start-up code, as long as none lives.
* `WorkQueue`: in `services` clients run below the worker and do not overlap (`Serial`); the worker waits before it is first used; work does not cancel itself synchronously.
* `Completion`: one waiter, as the code asserts. `DataQueue`: nobody resets the queue.
* `MemHeap`: one heap; `heap->lock` is the semaphore of `Semaphore`, so that a part of a call under it is a step.
* `Ymodem`: the sender repeats a block only when it is asked to, because the receiver compares no sequence numbers; packets are read whole or damaged, and a damaged one keeps its first byte; headers are 128 bytes; no file has 256 blocks.
* `Leuart`: the device is opened once, a read asks for one byte.
* `Pm`: no mode has a timer and no device is registered, as on this board; nobody asks for `LIGHT`; a call is one section.
* `Spi`: the driver's own semaphore is never contended, because the bus mutex is held around it; transfers do not fail.
* `HardTimer`: a timer is in the hands of one thread or handler at a time. Two that start one timer at once could link it twice; the kernel's own timers belong to one thread each.

**Fairness.** Four runs check liveness.
`TimedTakeReturns` assumes that a thread that is current goes on with its call (weak fairness of `CallSchedule`, `TakeReturn` and the reset) and that a running timer expires.
It claims the return only for a thread that no other outranks or equals, because fixed priorities let the others starve.
`UrgentTakeReturns` assumes that the tick goes on (weak fairness of `TickYield`), that a thread which again and again becomes current makes its next step (strong fairness of `Proceed`: it is interrupted, not held up), and that an owner that again and again can release its mutex does so (strong fairness of `ReleaseInner` and `ReleaseFinal`); it does not assume that the middle thread ever sleeps.
`TimerFires` assumes that the tick goes on, that the timer thread goes on whenever it could all the time (weak fairness), and that a timer's owner finishes the calls it is in (strong fairness, because the timer thread interrupts it).
`DeadReaped` assumes that the idle thread, when it gets the processor again and again, makes its steps (strong fairness), and claims that all the dead are given back in the end, unless the idle thread is kept off the processor or threads go on dying, because the list is served from the end at which they are inserted.
The tick stops while the chip is in EM2, because SysTick stops there and the board's power manager has no timer to replace it: the fairness of the tick is that of a system which does not sleep that deep, or which an interrupt wakes. The hazard list says so at `drv_pm.c`.

**Deadlock** is checked everywhere: the idle thread and the tick always have a step. A download that is over may stop; `UpdateOver` is its stuttering step.

## What the runs found

* `mutex_nested_boost`: `rt_mutex_release` restores `original_priority`, the priority at which the mutex was taken. A thread that takes A, inherits through A, takes B (recording the inherited priority), releases A and then B keeps the inherited priority for ever.
* `softtimer_lost_wakeup`: the timer thread looks at its list, finds it empty and suspends itself, with interrupts enabled in between. A more urgent thread that starts a timer in that window finds the timer thread not suspended and does not resume it. The timer thread sleeps with a timer on its list until another timer is started.
* `mempool_count`: `rt_mp_alloc` counts a waiter in `suspend_thread_count`, and a waiter that times out is never uncounted. `rt_mp_free` trusts the count and resumes the head of the empty list.
* `thread_delete_race`: `rt_thread_delete` takes the thread off its list and detaches its timer in two sections. The timeout of a sleeping thread that comes between them puts it on a ready list, and there it stays while it is closed, linked into the list of dead threads through the same node, and freed.
* `workqueue_overlap`: a submission puts work on the list and then wakes the worker, with interrupts enabled in between. A second client that cancels the work there leaves the worker, which does not look again, to take the list head for work.

Some properties hold only in the instance that is checked, and the hazards in `PROJECT.json` say so: `OwnerInherits` needs a PRIO list; `FiresListed` and `AsleepWhenNone` need timers that are used from below the timer thread; `ListedActive` needs one-shot timers that do not restart themselves.
`AsleepWhenNone` and `TimerFires` except the case that the first timeout is `RT_TICK_MAX`, which the code takes for an empty list (the ghost `misread`).

## Proofs

TLAPS checks eight modules with theorems, each for every value of the constants that the named assumptions allow:
`KernelProofs` and `LockProofs` (semaphore and mutex) for any finite set of threads and any number of priorities; `ThreadProofs` for these, and for any number of timers and any width of the tick; `IpcProofs` and `QueueProofs` for any number of threads, priorities, messages and slots or blocks and either flag of the wait lists; `ObjectProofs` for any events, blocks, items, works and bytes; `DeviceProofs` for any timers, width of the tick, and sizes and requests of the heap; `ServicesProofs` for any modes, devices, settings and files, and for all of the composition.
A module of proofs EXTENDS only what its lemmas speak of; the objects meet in `ServicesProofs`.

| Component | Proved for every instance | Under |
|---|---|---|
| semaphore | `Consistent` in its parts (`TypeOK`, `KernelConsistent`, `WaitersParked`), `Conservation`, `NoStrandedWaiter`, `PreemptionPending`, `OnlyAwakeReturn`, `WaitersOrdered`, and that it implements `TokenPool` | nothing more |
| mutex | `Consistent` (with `LockConsistent` and `OutcomeTrue`), `NeverDemoted` | nothing more |
| mutex | `BoostEnds`, and that each mutex implements `Lock` | `NotNested` |
| mutex | `OwnerInherits` | `NotNested`, a PRIO list |
| threads | `LifeConsistent`, `DeadAccounted`, `ClosedOffQueues`, and that they implement `Lifecycle` | `DeleteAsleep = FALSE` |
| soft timers | `Consistent`, `AsleepWhenNone`, `FiresListed` | `OwnedFromBelow` |
| soft timers | `ListedActive` | `OwnedFromBelow`, `RestartsPeriodic` |
| soft timers | `ListOrdered`, `WakesInTime` | `OwnedFromBelow`, `ShortPeriods` |
| mailbox, message queue | `QueuesConsistent`, `NoThreadStranded`, `BlocksAccounted`, `CopyIntact`, and that either implements `Fifo` | nothing more |
| event | `ServicesConsistent`, `NoThreadStranded`, `ResultTrue`, `EventTakenOnce` | nothing more |
| memory pool | `ServicesConsistent`, `NoThreadStranded`, `BlocksAccounted` | nothing more |
| data queue | `ServicesConsistent`, `NoThreadStranded` | `NoWrap` |
| completion | `ServicesConsistent`, `NoThreadStranded`, `ResultTrue` | nothing more |
| work queue | `ServicesConsistent`, `NoThreadStranded`, `WorkAccounted` | `Serial`, `WorkerFirst` |
| console line | `ServicesConsistent`, `NoThreadStranded` | nothing more |
| heap | `BlocksAccounted` (its part `HeapConsistent`) | nothing more |
| download | `ResultTrue` (its part `UpdateTrue`) | nothing more |
| power management | `ServicesConsistent`, and `PowerConsistent` of `PmSpec` alone | nothing more |
| SPI bus | `ServicesConsistent`, and `BusConsistent` of `SpiSpec` alone | nothing more |
| hard timers | `ServicesConsistent` (list in order, true to the flags, nothing late) | nothing more |

**Assumptions.** `KernelAssumption`: threads are finite in number and the idle thread is one of them; there is at least one priority.
`SectionsAssumption`: every thread is created with one of the `PrioMax` priorities (any of them, the idle thread too), and the flag is FIFO or PRIO.
`SemaphoreAssumption`: the initial count is at most `MaxCredit`, and the tokens in circulation fit the field (`MaxCredit < SemMod`).
`MutexAssumption`: the null value is no thread and no priority, and the bound on recursion fits the field (`MaxHold < HoldMod`).
`ThreadLifeAssumption`: the null value is no thread, every thread has a priority, and the idle thread is neither static nor cleaned up after.
`SoftTimerAssumption`: the timer thread and the list head are apart from the owners and the timers, and every period is less than half the range of the tick, as `rt_timer_start` asserts; `TickAssumption`: the tick counts past four.
`MailboxAssumption` and `QueuesAssumption`: there is a slot, and as many blocks; the null value is no block.
TLC evaluates each in every run of the modules that declare them.
`DevicesAssumption` is about the instances of `Devices`: `SpiAssumption` says that the null values are no thread, no device and no setting, `PmAssumption` that nobody asks for `LIGHT` and that a request can be counted, `MemHeapAssumption` that headers and requests are positive and that the pool is larger than two headers, `HardTimerAssumption` that a time and the lag together fit half the range of the tick, `YmodemAssumption` that there is a file.
`ServicesAssumption` joins those of the objects with wait lists; the run `services` evaluates both.

**Eight hypotheses about the use of the code.** The code does not enforce them, and what is proved under them is false without them.
`NotNested` says that no thread has or waits for two mutexes at a time: `original_priority` is one priority for each mutex, so that the release of one gives back what was inherited through another. The run `mutex_nested_boost` shows it. `OneMutexInherits` discharges the hypothesis for a system with a single mutex, so that there both promises of priority inheritance hold of every behaviour.
`DeleteAsleep = FALSE` says that no thread is deleted while its timer runs: the run `thread_delete_race` shows what a timeout between the two sections of `rt_thread_delete` does.
`OwnedFromBelow` says that one thread below the timer thread starts and stops the timers, while callbacks may start their own. With a thread above it, the run `softtimer_lost_wakeup` refutes `AsleepWhenNone`, and TLC refutes `Consistent` as well when a tick wakes the timer thread while such a thread is between the test and the removal in `rt_thread_resume`.
`RestartsPeriodic` says that only periodic timers start themselves in their callback: `rt_soft_timer_check` clears the flag of a one-shot timer after the callback, although the callback put the timer back on the list.
`ShortPeriods(P)` says that no period is longer than `P`, and that `2 * P + MaxLag` is less than half the range of the tick: a quarter of it for a period, where `rt_timer_start` asserts a half. The assertion is not enough. With half a range of four ticks (`TickMod = 9`), periods of 1 and 2 and a lag of 1, TLC refutes `ListOrdered`: of two timers that the timer thread reaches two ticks late, the first is started again by its callback while the other is still on the list, and the two timeouts lie too far apart to be compared. At 32 bits and 1000 ticks a second the bound is twelve days.
`NoWrap` says that the put index of a data queue does not go around: the code compares `put_index` and `get_index` as 16-bit numbers, so that the proof follows a queue for fewer than 65536 pushes.
`Serial` says that two clients of a work queue are never inside its calls at a time, `WorkerFirst` that its worker is more urgent than they are. The run `workqueue_overlap` shows what overlapping clients do. Under `WorkerFirst` a client runs only while the worker sleeps, or waits inside its work.

**Kernel.** `KernelProofs` says what each kernel operator does to a consistent state: which fields it leaves, that `KernelOK` holds again, and for `Schedule` that a thread of the highest ready priority runs afterwards (`ScheduleEffect`, `ResumeEffect`, `SuspendOnEffect` and the lemmas under them about removal from and insertion into the ready lists).
The other modules of proofs cite its lemmas and never expand a kernel operator that takes more than one field.

**Semaphore.** One inductive invariant, `SemInv`, with one lemma for each action and one step for each conjunct that the action can disturb.
It is stronger than the conjunction of the properties: `Conservation` counts woken waiters, so it needs to know that a suspended thread is inside `rt_sem_take` with no error number yet (`ParkedInTake`); `PreemptionPending` needs that a thread runs suspended only between its suspension and its `rt_schedule` (`RunsAwake`), that the scheduler is not locked and that the idle thread is always runnable (`IdleRunnable`), without which `Schedule` may leave nobody to run.
`SemaphoreInvariant` is `Spec => []SemInv`; the theorems `SemaphoreTypes`, `SemaphoreKernel`, `SemaphoreConservation`, `SemaphoreNoLostWakeup`, `SemaphoreWaiters`, `SemaphorePreemption` and `SemaphoreAwake` follow from it.
`SemaphoreWaitersOrdered` adds that no call changes a priority; its core is a lemma about `rt_ipc_list_suspend`, that everyone before the place of insertion is at least as urgent as the new waiter and everyone from it on is less urgent.
`SemaphoreImplementsPool` is the refinement: under `SemInv` a waiter is inside `rt_sem_take`, so that `Outcome` gives each thread one outcome, and each action is then shown to be one action of `TokenPool` or to leave the token count and every outcome as they are.

**Mutex.** `MutexInv` has the same parts of the scheduler, and of the mutexes `LockConsistent` (field `value`, owner, depth and wait list of each agree) and `OutcomeTrue` (a take that is about to return `RT_EOK` has its mutex).
Priorities change under it, so that the invariants of inheritance are a second layer over it. Only three steps change a priority or an owner (`PriorityStep`): a take that gets the mutex, a take that waits and boosts, and the last release.
`MutexNeverDemotes` needs `Floors`: the priority that a mutex will give its owner back is no lower than the owner's own, nested or not.
`BoostEndsUnnested` needs more, that it is the owner's own exactly (`OrigExact`), and that needs `NotNested`.
`OwnerInheritsUnnested` needs that the waiters of each mutex are in the order of their priorities (`Ranked`), since a hand-over to the head of the list must leave nobody more urgent behind, and that a waiter has no boost that could end while it waits.
`MutexImplementsLock` goes by the same three steps: a wake-up is the hand-over of `Lock`, and a thread that was answered and has not run yet already holds the lock there.

**Threads.** Between the sections of `rt_thread_delete` a thread that is ready is on no ready list, and `KernelOK` does not hold of `k`. It holds of the state as the scheduler sees it, `Seen`, in which a thread under deletion counts as closed already; the first part of `ThreadProofs` shows that every kernel operator commutes with that view, so that the lemmas of `KernelProofs` serve here too.
`LifeInv` ties each call to the thread it is about: two calls are never about one thread (`InHand`), the place of a call says what has happened to the thread so far (`Stage`), and only a thread that runs or was preempted is inside a call (`Calling`).
`DeadAreAccounted` then follows: a thread is on the list of the dead exactly from its exit or deletion until the idle thread takes it off, and its stack is given back once.
`ThreadLifeImplementsLifecycle` maps each step to one of `Lifecycle` or to a stutter; the abstract actions whose guards say that nobody switches to the dead and that no stack is freed under the running thread are what make it worth stating.

**Soft timers.** `SoftInv` rests on one observation: below the timer thread, the owner runs only while the timer thread is suspended, in `rt_schedule` after its look at the list or on its way to the next round. So the owner's four sections never fall into the window between the look and the suspension (`Sleep`), nor between two steps of the walk.
The walk itself is interrupted, by its own callbacks' starts and by ticks: `Cursor` says that the next timer is still on the list or is its head, and never the timer that fires, and `Listing` that a timer which is being started or stopped is on no list.
`ListedActive` is a second layer, `Flags`, which says in which windows list and flag may disagree.
`ListOrdered` and `WakesInTime` are a third, `Timing`. The comparison of ticks modulo their range is no order, so that everything is said of `Off`, the signed distance of a timeout from the current tick, which each tick lowers by one; on timeouts that lie less than half the range apart the comparison of the code is the comparison of the distances (`WithinOff`).
`Spread` bounds the distances on the list from `P + MaxLag` behind to `P` ahead. The lower bound is the hard one: while the timer thread is in its delay nothing looks at the list, and `InTime` bounds the rest of the delay against what is on the list. The upper bound on the delay comes from `Planned`, that what the timer thread read of the list is still the first timeout when it calls `rt_thread_delay`.
`InsertInOrder`, that an insertion before the first element that ranks behind keeps a list in order, serves the timer list and the wait lists alike.

**Sections of calls.** `IpcProofs` takes `Ipc` section by section (block, wake one, time out, reset, be scheduled), each with what it does to the wait lists and to the set of threads that were woken and are on their way, so that each object with wait lists can use it: `IpcInv` is its invariant.

**Mailbox and message queue.** `NoThreadStranded` compares a count of messages or slots with the cardinality of that set: a section that brings a message and finds a waiter adds one thread to it, and a thread that leaves it takes one message.
The message queue's blocks move between two chains and the threads' hands. `Layout` says that there are two duplicate-free sequences, one linked from the head to the tail and one from the free list, which with the blocks in hand partition all the blocks; each section of `rt_mq_send`, `rt_mq_urgent`, `rt_mq_recv` and the reset transforms these sequences.
`BlocksAccounted` and `QueueLinked` speak of `Chain`, a recursive function that walks the links. That its value is the sequence of the layout (`WalkIs`) is an induction over the rest of the chain, given as an argument from the least length for which the walk would be wrong.
`QueuesAreFifo` is the refinement. The ring and the messages behind the first chain are the abstract queue; each step puts one message, gets the first, drops the first ones or leaves it as it is (`FifoMove`). A block that is filled with interrupts enabled is in no chain then, and holds a message by the time it is linked (`Filled`); a put fits because the blocks of a chain are distinct.

**Event, pool, data queue, completion.** Each invariant is `IpcInv`, the types of the object's fields and its own promises.
The event's send is the hard step: it walks the wait list once, wakes whom the set satisfies and takes their events out before it looks at the next. `EventInv` survives it by an invariant of the walk (`ScanKernel`, `ScanCalls`, `ScanOrder`): after any number of looks, those served are off the list, each was owed what it was told, and what is left in the set serves none of those passed by.
`PoolInv` knows the free list as one duplicate-free chain (`PoolChain`) and only half of the count of waiters (`PoolCounts`): that it is no smaller than the list. The run `mempool_count` shows why no more can be said, and half is what `NoThreadStranded` needs.
`DataInv` ties the two indices to the number of pushes (`DataIndices`), and counts who is on the way (`DataStrands`): while a popper waits, at least as many poppers as there are items; while a pusher waits, at least as many pushers as there are places below the low-water mark.
`DoneInv` says that one waits at most and that a waiter on its way was woken by a completion (`WokenIsDue`), also when the timeout comes first.

**Work queue.** The worker is a thread of the same program, with windows between its look at the list, its suspension and its `rt_schedule`. `WorkInv` says where the worker can be while a client is at each place of a call (`WorkerPhase`), which with `WorkerFirst` leaves few pairs; `WorkResumed` that one client at a time resumes the worker, which sleeps beside its work until then, `WorkSynced` that a synchronous cancellation still waits for the run that it found, `WorkListed` that pending work is on the list.

**Console line.** `LineOwner` counts the lock's value, its waiters on their way and the thread inside as one; `ByteAnnounced` says that a byte which the shell has not seen leaves a token of its semaphore, which the drop of the oldest byte in the interrupt must not lose.

**Hard timers.** As for the soft timers everything is said of `Off`, the signed distance of a timeout from the tick. `TickIncrease` is a whole interrupt, the walk of `rt_timer_check` with the callbacks that stop timers: the proof goes round by round (`Rounding`), each round taking one late timer off the list or off the set of `Late` ones and leaving the rest in order within `Furthest` of the tick, until none is late.

**SPI and power.** `BusConsistent` does not say that only the thread with the bus is inside a transfer, without which a second thread's step could move the chip select; `BusInv` ties the place of each thread to `locker` and to what it keeps of its call (`JobOK`).
The chip sleeps some steps after the mode was selected, with requests, releases and interrupts in between; `SelectionKept` carries the choice over them, and `LightestAsked` says that there was one.
`SpiBusConsistent` and `PowerAlwaysConsistent` are about the bus and the power management alone; `ServicesStayConsistent` has them as two objects of the composition.

**Heap.** `Tile` says that the blocks are a ring in the order of their addresses; `Separate` that no two free blocks are neighbours; `Listed` that the free list has each free block once and that `available_size` is the sum of their sizes; `Serves` that each user's block is as large as asked, and nobody else's; `HeapCalls` what a reallocation still holds between its parts.
Each call splits, joins or extends a block: the lemmas say of each of these changes of the ring (`Cut`, `Merged`, `Relinked`, `Rejoined`) that it keeps the five, and the sums are recursive functions over the addresses, compared place by place.

**Download.** The proof is one conversation: `Turn` says, for each place of the sender, what the receiver, the line and the disk can be, with every fault of the line as one more way to be there; `Ordered` that the files behind are whole and those ahead untouched. The number of faults does not occur in it.

**Only model-checked.** All liveness (`TimerFires`, `DeadReaped`, `TimedTakeReturns`, `UrgentTakeReturns`), and the refinements `DataImplementsFifo`, `HeapImplementsAllocator` and `LineImplementsBacklog` in the run `services`. What the theorems have a hypothesis for is checked without it in the instances of the runs where it happens to hold.
Liveness under fairness and `ENABLED` are out of the prover's reach, and so is induction over data where it needs a rule of induction: the proofs do without one by recursive functions and an argument from the least argument for which a claim would be wrong.

## Not modelled

`PROJECT.json` lists every part with the reason.
In short:

* Deletion and detach of IPC objects: the code leaves it to the user that no other caller holds the object, and in this firmware only the vendored gui_engine and the download, which is the only user of its semaphore, delete any.
* `rt_timer_create`, `delete` and `detach`, delayed work, `rt_workqueue_destroy`, `rt_data_queue_reset`, `rt_spi_take_bus`, the power modes with a timer and the DMA transmission of the LEUART: not used or not compiled here.
* The pipe's blocking operations and the wait queue: `RT_USING_POSIX` is not defined.
* `drv_rtc.c`: the board does not initialise it.
* Register programming, conversions, command strings, the shell, file systems, graphics and vendor libraries: they keep no state that several actors share. They are by far the larger part of the repository's lines.

Of the kernel that is modelled, hooks, assertions, debug output, stack checks and the assembler context switch are left out; interrupt handlers do not nest; the scheduler lock is modelled where the code uses it (soft timers) and not taken by applications around blocking calls.

## Plan

Done, in this order:

1. `Kernel`, `Semaphore` over it with the abstract `TokenPool`, and their proofs.
2. `Mutex` with `Lock`; `SoftTimer`.
3. `Ipc` with `Mailbox`, `MessageQueue`, `Event`, `MemPool` and the abstract `Fifo`.
4. `ThreadLife` with `Lifecycle`.
5. `DataQueue`, `Completion`, `WorkQueue`; `MemHeap` with `Allocator`; `HardTimer`.
6. The drivers and applications with a protocol: `Leuart` with `Backlog`, `Spi`, `Pm`, `Ymodem`.
7. The proofs of `Mutex`, with priority inheritance and the refinement of `Lock`, and of `ThreadLife`, with the refinement of `Lifecycle`.
8. The proofs of `SoftTimer`, for timers whose owner is below the timer thread, with the order of its list across the wrap of the tick; of the sections of `Ipc`; of `Mailbox` and `MessageQueue` with the refinement of `Fifo`.
9. The proofs of the services and devices: `IpcProofs`, `ObjectProofs`, `DeviceProofs`, `ServicesProofs`.

Left: the refinements `DataImplementsFifo`, `HeapImplementsAllocator` and `LineImplementsBacklog` as theorems, whose invariants are proved; `NoThreadStranded` of a data queue whose indices wrap; the work queue's calls under clients that overlap, once the code keeps the worker from an empty list.
