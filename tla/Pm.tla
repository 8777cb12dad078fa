-------------------------------- MODULE Pm --------------------------------
(***************************************************************************)
(* Power management: src/rt-thread/components/drivers/pm/pm.c over the     *)
(* sleep and run operations of src/drivers/drv_pm.c.  Threads ask for      *)
(* speeds and keep the chip from sleeping deeper than a mode; the idle     *)
(* thread carries a pending change of speed out, selects a mode and sleeps *)
(* in it until an interrupt comes.                                         *)
(*                                                                         *)
(* As on this board no mode has a timer, no device is registered and there *)
(* is no notification.  Of the threads only matters whether one is ready:  *)
(* each of their calls is one section.  A slower clock is switched on in   *)
(* EM1, which lasts until the next interrupt and changes nothing else.     *)
(***************************************************************************)
EXTENDS Naturals

CONSTANTS Mode,    \* the sleep modes that are asked for
          PmMax    \* the ceiling of pm->modes

\* The sleep modes of pm.h.
NONE == 0
IDLE == 1
LIGHT == 2
DEEP == 3
STANDBY == 4
SHUTDOWN == 5

\* The run modes of pm.h.
HIGH_SPEED == 0
NORMAL_SPEED == 1
MEDIUM_SPEED == 2
LOW_SPEED == 3

RunMode == {HIGH_SPEED, NORMAL_SPEED, MEDIUM_SPEED, LOW_SPEED}

\* Nobody asks for LIGHT, whose sleep leaves the clock at 1 MHz.
PmAssumption ==
    /\ Mode \subseteq {NONE, IDLE, DEEP, STANDBY, SHUTDOWN}
    /\ PmMax \in Nat \ {0}

VARIABLES modes,         \* pm->modes
          run_mode,      \* pm->run_mode
          freq_pending,  \* RT_PM_FREQUENCY_PENDING
          speed,         \* last_mode: the run mode of the clock
          sleep_mode,    \* pm->sleep_mode
          idle_at,       \* where the idle thread is
          busy,          \* another thread is ready
          kept           \* what was asked for when the mode was selected, and still is

pmVars == <<modes, run_mode, freq_pending, speed, sleep_mode, idle_at, busy, kept>>

\* The chip starts at full speed; last_mode is 0 and the run mode is not.
Init ==
    /\ modes = [m \in Mode |-> 0]
    /\ run_mode = NORMAL_SPEED /\ speed = HIGH_SPEED /\ freq_pending = FALSE
    /\ sleep_mode = IDLE
    /\ idle_at = "scale" /\ busy = TRUE /\ kept = {}

Asleep == idle_at = "asleep"

-----------------------------------------------------------------------------
(* The threads *)

\* rt_pm_request
PmRequest(m) ==
    /\ busy /\ ~ Asleep
    /\ modes' = [modes EXCEPT ![m] = IF @ < PmMax THEN @ + 1 ELSE @]
    /\ UNCHANGED <<run_mode, freq_pending, speed, sleep_mode, idle_at, busy, kept>>

\* rt_pm_release
PmRelease(m) ==
    /\ busy /\ ~ Asleep
    /\ modes' = [modes EXCEPT ![m] = IF @ > 0 THEN @ - 1 ELSE @]
    /\ kept' = IF modes'[m] = 0 THEN kept \ {m} ELSE kept
    /\ UNCHANGED <<run_mode, freq_pending, speed, sleep_mode, idle_at, busy>>

\* Mutant: the modes are compared the wrong way round.
MutRunEnter(m) ==
    /\ busy /\ ~ Asleep
    /\ IF m > run_mode
       THEN speed' = m /\ UNCHANGED freq_pending
       ELSE freq_pending' = TRUE /\ UNCHANGED speed
    /\ run_mode' = m
    /\ UNCHANGED <<modes, sleep_mode, idle_at, busy, kept>>

\* rt_pm_run_enter: faster at once, slower when the system is idle.
RunEnter(m) ==
    /\ busy /\ ~ Asleep
    /\ IF m < run_mode
       THEN speed' = m /\ UNCHANGED freq_pending
       ELSE freq_pending' = TRUE /\ UNCHANGED speed
    /\ run_mode' = m
    /\ UNCHANGED <<modes, sleep_mode, idle_at, busy, kept>>

\* The last ready thread waits.
Wait ==
    /\ busy /\ ~ Asleep
    /\ busy' = FALSE
    /\ UNCHANGED <<modes, run_mode, freq_pending, speed, sleep_mode, idle_at, kept>>

\* An interrupt makes a thread ready.
Interrupt ==
    /\ ~ busy /\ ~ Asleep
    /\ busy' = TRUE
    /\ UNCHANGED <<modes, run_mode, freq_pending, speed, sleep_mode, idle_at, kept>>

-----------------------------------------------------------------------------
(* rt_system_power_manager, which any thread may preempt until it sleeps *)

IdleAt(a) == ~ busy /\ idle_at = a

\* _pm_frequency_scaling
Scale ==
    /\ IdleAt("scale")
    /\ IF freq_pending THEN speed' = run_mode ELSE UNCHANGED speed
    /\ freq_pending' = FALSE
    /\ idle_at' = "select"
    /\ UNCHANGED <<modes, run_mode, sleep_mode, busy, kept>>

Asked == {m \in Mode : modes[m] > 0}

\* _pm_select_sleep_mode: the lightest of the modes that are asked for.
Select ==
    /\ IdleAt("select")
    /\ sleep_mode' = IF Asked = {} THEN IDLE ELSE CHOOSE m \in Asked : \A n \in Asked : m <= n
    /\ kept' = Asked
    /\ idle_at' = "enter"
    /\ UNCHANGED <<modes, run_mode, freq_pending, speed, busy>>

\* _pm_change_sleep_mode: the modes NONE and IDLE do not sleep.
Enter ==
    /\ IdleAt("enter")
    /\ idle_at' = IF sleep_mode <= IDLE THEN "scale" ELSE "asleep"
    /\ UNCHANGED <<modes, run_mode, freq_pending, speed, sleep_mode, busy, kept>>

\* An interrupt ends the sleep, and may make a thread ready.  From SHUTDOWN the
\* chip comes back through a reset.
Wake ==
    /\ Asleep
    /\ IF sleep_mode = SHUTDOWN
       THEN /\ modes' = [m \in Mode |-> 0]
            /\ run_mode' = NORMAL_SPEED /\ speed' = HIGH_SPEED /\ freq_pending' = FALSE
            /\ sleep_mode' = IDLE
            /\ busy' = TRUE /\ kept' = {}
       ELSE /\ busy' \in BOOLEAN
            /\ UNCHANGED <<modes, run_mode, freq_pending, speed, sleep_mode, kept>>
    /\ idle_at' = "scale"

PmNext ==
    \/ \E m \in Mode : PmRequest(m) \/ PmRelease(m)
    \/ \E m \in RunMode : RunEnter(m)
    \/ Wait \/ Interrupt \/ Scale \/ Select \/ Enter \/ Wake

PmSpec == Init /\ [][PmNext]_pmVars

-----------------------------------------------------------------------------
(* Properties *)

TypeOK ==
    /\ modes \in [Mode -> 0 .. PmMax]
    /\ {run_mode, speed} \subseteq RunMode /\ freq_pending \in BOOLEAN
    /\ sleep_mode \in NONE .. SHUTDOWN
    /\ idle_at \in {"scale", "select", "enter", "asleep"}
    /\ busy \in BOOLEAN /\ kept \subseteq Mode

\* The chip does not sleep deeper than a mode that was asked for when the idle
\* thread selected and still is; one that a thread asks for between the
\* selection and the sleep comes too late.  The clock is never slower than the
\* last rt_pm_run_enter said, and faster only while the change is pending or
\* before the first one.
PowerConsistent ==
    /\ TypeOK
    /\ Asleep => ~ busy /\ \A m \in kept : sleep_mode <= m
    /\ speed <= run_mode
    /\ \/ freq_pending \/ speed = run_mode
       \/ speed = HIGH_SPEED /\ run_mode = NORMAL_SPEED
=============================================================================
