--------------------------- MODULE ServicesProofs ---------------------------
(***************************************************************************)
(* The safety of the power management, the SPI bus and the firmware        *)
(* download, for any modes, threads, devices and files, and then that of   *)
(* module MCServices, whichever of its objects is used: the inductive      *)
(* invariants of this module, ObjectProofs and DeviceProofs side by side.  *)
(***************************************************************************)
EXTENDS MCServices, ObjectProofs, DeviceProofs

-----------------------------------------------------------------------------
(* The power management, for any of the modes and any ceiling of their counts *)

\* TypeOK without the Boolean variables and the names of the modes.
PmTypes ==
    /\ modes \in [Mode -> 0 .. PmMax]
    /\ run_mode \in 0 .. 3 /\ speed \in 0 .. 3
    /\ sleep_mode \in 0 .. 5
    /\ idle_at \in {"scale", "select", "enter", "asleep"}
    /\ kept \subseteq Mode

Flags == freq_pending \in BOOLEAN /\ busy \in BOOLEAN

\* From the selection on, the mode is no deeper than what is kept of it.
SelectionKept ==
    idle_at \in {"enter", "asleep"} => \A m \in kept : sleep_mode <= m

\* Nobody else is ready while the chip sleeps.
SleepAlone == PM!Asleep => ~ busy

NotSlower == speed <= run_mode

\* The clock is faster than asked only before the change or before the first one.
SpeedDue ==
    freq_pending \/ speed = run_mode \/ (speed = 0 /\ run_mode = 1)

\* The inductive invariant: PowerConsistent speaks only of a chip that sleeps,
\* and the mode was selected before, with threads and interrupts in between.
PmInv == PmTypes /\ Flags /\ SelectionKept /\ SleepAlone /\ NotSlower /\ SpeedDue

LEMMA PmInvImplies == PmInv => PM!PowerConsistent
<1> SUFFICES ASSUME PmInv PROVE PM!PowerConsistent
  OBVIOUS
<1>1. {run_mode, speed} \subseteq PM!RunMode
  BY DEF PmInv, PmTypes, PM!RunMode, PM!HIGH_SPEED, PM!NORMAL_SPEED, PM!MEDIUM_SPEED, PM!LOW_SPEED
<1>2. sleep_mode \in PM!NONE .. PM!SHUTDOWN
  BY DEF PmInv, PmTypes, PM!NONE, PM!SHUTDOWN
<1>3. PM!TypeOK
  BY <1>1, <1>2 DEF PmInv, PmTypes, Flags, PM!TypeOK
<1>4. PM!Asleep => ~ busy /\ \A m \in kept : sleep_mode <= m
  BY DEF PmInv, SelectionKept, SleepAlone, PM!Asleep
<1> QED
  BY <1>3, <1>4 DEF PmInv, NotSlower, SpeedDue, PM!PowerConsistent, PM!HIGH_SPEED, PM!NORMAL_SPEED

LEMMA PmInitInv == ASSUME PM!PmAssumption PROVE PM!Init => PmInv
<1> SUFFICES ASSUME PM!Init PROVE PmInv
  OBVIOUS
<1>1. PmTypes
  BY DEF PM!PmAssumption, PM!Init, PmTypes, PM!IDLE, PM!HIGH_SPEED, PM!NORMAL_SPEED
<1>2. Flags /\ SelectionKept /\ SleepAlone
  BY Zenon DEF PM!Init, Flags, SelectionKept, SleepAlone, PM!Asleep
<1>3. NotSlower /\ SpeedDue
  BY DEF PM!Init, NotSlower, SpeedDue, PM!HIGH_SPEED, PM!NORMAL_SPEED
<1> QED
  BY <1>1, <1>2, <1>3 DEF PmInv

\* Of the modes that are asked for one is the lightest.
LEMMA LightestAsked ==
  ASSUME PM!PmAssumption, PM!Asked # {}
  PROVE  \E m \in PM!Asked : \A n \in PM!Asked : m <= n
<1> DEFINE Lightest(m) == m \in PM!Asked /\ \A n \in PM!Asked : m <= n
<1>1. PM!Asked \subseteq {0, 1, 3, 4, 5}
  BY Zenon DEF PM!Asked, PM!PmAssumption, PM!NONE, PM!IDLE, PM!DEEP, PM!STANDBY, PM!SHUTDOWN
<1>2. \/ 0 \in PM!Asked \/ 1 \in PM!Asked \/ 3 \in PM!Asked \/ 4 \in PM!Asked \/ 5 \in PM!Asked
  BY <1>1, Zenon
<1>3. Lightest(0) \/ Lightest(1) \/ Lightest(3) \/ Lightest(4) \/ Lightest(5)
  BY <1>1, <1>2
<1> QED
  BY <1>3

\* The calls of the threads.
LEMMA RequestKeeps == ASSUME PM!PmAssumption, PmInv, NEW m \in Mode, PM!PmRequest(m) PROVE PmInv'
<1>1. PmTypes'
  BY DEF PM!PmAssumption, PmInv, PmTypes, PM!PmRequest
<1> QED
  BY <1>1 DEF PmInv, Flags, SelectionKept, SleepAlone, PM!Asleep, NotSlower, SpeedDue, PM!PmRequest

LEMMA PmReleaseKeeps == ASSUME PM!PmAssumption, PmInv, NEW m \in Mode, PM!PmRelease(m) PROVE PmInv'
<1>1. kept' \subseteq kept
  BY DEF PM!PmRelease
<1>2. PmTypes'
  BY <1>1 DEF PM!PmAssumption, PmInv, PmTypes, PM!PmRelease
<1>3. SelectionKept'
  BY <1>1 DEF PmInv, SelectionKept, PM!PmRelease
<1> QED
  BY <1>2, <1>3 DEF PmInv, Flags, SleepAlone, PM!Asleep, NotSlower, SpeedDue, PM!PmRelease

LEMMA RunEnterKeeps == ASSUME PmInv, NEW m \in PM!RunMode, PM!RunEnter(m) PROVE PmInv'
<1>1. m \in 0 .. 3
  BY DEF PM!RunMode, PM!HIGH_SPEED, PM!NORMAL_SPEED, PM!MEDIUM_SPEED, PM!LOW_SPEED
<1>2. speed' = IF m < run_mode THEN m ELSE speed
  BY DEF PM!RunEnter
<1>3. PmTypes' /\ NotSlower'
  BY <1>1, <1>2 DEF PmInv, PmTypes, NotSlower, PM!RunEnter
<1>4. Flags' /\ SelectionKept' /\ SleepAlone'
  BY Zenon DEF PmInv, Flags, SelectionKept, SleepAlone, PM!Asleep, PM!RunEnter
<1>5. SpeedDue'
  BY DEF SpeedDue, PM!RunEnter
<1> QED
  BY <1>3, <1>4, <1>5 DEF PmInv

\* rt_system_power_manager.
LEMMA ScaleKeeps == ASSUME PmInv, PM!Scale PROVE PmInv'
<1>1. speed' = run_mode \/ (speed' = speed /\ ~ freq_pending)
  BY DEF PM!Scale
<1>2. PmTypes' /\ NotSlower'
  BY <1>1 DEF PmInv, PmTypes, NotSlower, PM!Scale
<1>3. Flags' /\ SelectionKept' /\ SleepAlone'
  BY Zenon DEF PmInv, Flags, SelectionKept, SleepAlone, PM!Asleep, PM!Scale
<1>4. SpeedDue'
  BY <1>1 DEF PmInv, SpeedDue, PM!Scale
<1> QED
  BY <1>2, <1>3, <1>4 DEF PmInv

LEMMA SelectKeeps == ASSUME PM!PmAssumption, PmInv, PM!Select PROVE PmInv'
<1>1. PM!Asked \subseteq Mode /\ Mode \subseteq {0, 1, 3, 4, 5}
  BY DEF PM!Asked, PM!PmAssumption, PM!NONE, PM!IDLE, PM!DEEP, PM!STANDBY, PM!SHUTDOWN
<1>2. sleep_mode' \in 0 .. 5 /\ \A m \in PM!Asked : sleep_mode' <= m
  <2>1. CASE PM!Asked = {}
    BY <2>1 DEF PM!Select, PM!IDLE
  <2>2. CASE PM!Asked # {}
    <3>1. sleep_mode' \in PM!Asked /\ \A n \in PM!Asked : sleep_mode' <= n
      BY <2>2, LightestAsked DEF PM!Select
    <3> QED
      BY <3>1, <1>1
  <2> QED
    BY <2>1, <2>2
<1>3. PmTypes' /\ SelectionKept'
  BY <1>1, <1>2 DEF PmInv, PmTypes, SelectionKept, PM!Select
<1>4. Flags' /\ SleepAlone' /\ NotSlower' /\ SpeedDue'
  BY DEF PmInv, Flags, SleepAlone, PM!Asleep, NotSlower, SpeedDue, PM!Select
<1> QED
  BY <1>3, <1>4 DEF PmInv

LEMMA EnterKeeps == ASSUME PmInv, PM!Enter PROVE PmInv'
<1>1. PmTypes' /\ NotSlower' /\ SelectionKept'
  BY DEF PmInv, PmTypes, NotSlower, SelectionKept, PM!Enter, PM!IdleAt
<1>2. Flags' /\ SleepAlone' /\ SpeedDue'
  BY DEF PmInv, Flags, SleepAlone, PM!Asleep, SpeedDue, PM!Enter, PM!IdleAt
<1> QED
  BY <1>1, <1>2 DEF PmInv

LEMMA WakeKeeps == ASSUME PM!PmAssumption, PmInv, PM!Wake PROVE PmInv'
<1>1. idle_at' = "scale"
  BY DEF PM!Wake
<1>2. SelectionKept' /\ SleepAlone'
  BY <1>1 DEF SelectionKept, SleepAlone, PM!Asleep
<1>3. CASE sleep_mode = PM!SHUTDOWN
  <2>1. PmTypes' /\ NotSlower'
    BY <1>1, <1>3 DEF PM!PmAssumption, PmTypes, NotSlower, PM!Wake, PM!IDLE, PM!HIGH_SPEED, PM!NORMAL_SPEED
  <2>2. Flags'
    BY <1>3, Zenon DEF Flags, PM!Wake
  <2>3. SpeedDue'
    BY <1>3 DEF SpeedDue, PM!Wake, PM!HIGH_SPEED, PM!NORMAL_SPEED
  <2> QED
    BY <1>2, <2>1, <2>2, <2>3 DEF PmInv
<1>4. CASE sleep_mode # PM!SHUTDOWN
  <2>1. PmTypes' /\ NotSlower'
    BY <1>1, <1>4 DEF PmInv, PmTypes, NotSlower, PM!Wake
  <2>2. Flags' /\ SpeedDue'
    BY <1>4 DEF PmInv, Flags, SpeedDue, PM!Wake
  <2> QED
    BY <1>2, <2>1, <2>2 DEF PmInv
<1> QED
  BY <1>3, <1>4

LEMMA PmNextKeeps == ASSUME PM!PmAssumption, PmInv, [PM!PmNext]_PM!pmVars PROVE PmInv'
<1>1. CASE PM!Wait \/ PM!Interrupt
  BY <1>1, Zenon
     DEF PmInv, PmTypes, Flags, SelectionKept, SleepAlone, PM!Asleep, NotSlower, SpeedDue,
              PM!Wait, PM!Interrupt
<1>2. CASE UNCHANGED PM!pmVars
  BY <1>2 DEF PmInv, PmTypes, Flags, SelectionKept, SleepAlone, PM!Asleep, NotSlower, SpeedDue, PM!pmVars
<1> QED
  BY <1>1, <1>2, RequestKeeps, PmReleaseKeeps, RunEnterKeeps, ScaleKeeps, SelectKeeps,
     EnterKeeps, WakeKeeps DEF PM!PmNext

\* A chip that sleeps does so no deeper than any mode that was asked for when
\* _pm_select_sleep_mode ran and still is, however threads and interrupts come
\* between rt_system_power_manager's parts; the clock is never slower than the
\* last rt_pm_run_enter said.
THEOREM PowerAlwaysConsistent == ASSUME PM!PmAssumption PROVE PM!PmSpec => []PM!PowerConsistent
<1>1. PM!Init => PmInv
  BY PmInitInv
<1>2. PmInv /\ [PM!PmNext]_PM!pmVars => PmInv'
  BY PmNextKeeps
<1>3. PmInv => PM!PowerConsistent
  BY PmInvImplies
<1> QED
  BY <1>1, <1>2, <1>3, PTL DEF PM!PmSpec

-----------------------------------------------------------------------------
(* The SPI bus, for any number of threads, devices and settings *)

\* What a thread keeps of its call.
NoTransfer == [dev : {Nil}]

Configuring == [dev : Dev]

Transferring == [dev : Dev, messages : Seq(SP!SpiMessage) \ {<< >>}, chunk : Nat]

HasBus(u) == user_at[u] \in {"select", "start", "busy", "release"}

\* Where a thread is says what it keeps and whether the bus is its own.
JobOK(u) ==
    /\ SP!At(u, "run") => job[u] \in NoTransfer
    /\ SP!At(u, "configure") => job[u] \in Configuring
    /\ HasBus(u) => job[u] \in Transferring
    /\ HasBus(u) <=> locker = u

BusTypes ==
    /\ config \in [Dev -> Setting \cup {Unset}] /\ usart \in Setting \cup {Unset}
    /\ owner \in Dev \cup {Nil} /\ selected \subseteq Dev
    /\ locker \in Task \cup {Nil}
    /\ tx_active \in BOOLEAN /\ rx_active \in BOOLEAN
    /\ user_at \in [Task -> {"run", "configure", "select", "start", "busy", "release"}]
    /\ job \in [Task -> NoTransfer \cup Configuring \cup Transferring]

\* The parts of BusConsistent.
Moving == tx_active \/ rx_active => locker # Nil /\ SP!At(locker, "busy")

Selected ==
    /\ locker = Nil => selected = {}
    /\ locker # Nil =>
          /\ job[locker].dev = owner
          /\ selected = IF SP!At(locker, "start") \/ SP!At(locker, "busy") THEN {owner} ELSE {}

SetUp ==
    \/ owner = Nil \/ usart = config[owner]
    \/ \E u \in Task : SP!At(u, "configure") /\ job[u].dev = owner

\* The inductive invariant: BusConsistent does not say by itself that only the
\* thread with the bus is inside a transfer.
BusInv == BusTypes /\ (\A u \in Task : JobOK(u)) /\ Moving /\ Selected /\ SetUp

-----------------------------------------------------------------------------
\* A transfer has one message or two.
LEMMA TransferMessages == SP!Transfer \subseteq Seq(SP!SpiMessage) \ {<< >>}
<1>1. ASSUME NEW m \in SP!SpiMessage PROVE <<m>> \in Seq(SP!SpiMessage) \ {<< >>}
  OBVIOUS
<1>2. ASSUME NEW ms \in SP!SpiMessage \X SP!SpiMessage PROVE ms \in Seq(SP!SpiMessage) \ {<< >>}
  <2>1. PICK a \in SP!SpiMessage, b \in SP!SpiMessage : ms = <<a, b>>
    OBVIOUS
  <2>2. <<a, b>> \in Seq(SP!SpiMessage) /\ <<a, b>> # << >>
    OBVIOUS
  <2> QED
    BY <2>1, <2>2
<1> QED
  BY <1>1, <1>2, Zenon DEF SP!Transfer

\* BusInv implies what the run checks.
LEMMA BusInvImplies == BusInv => SP!BusConsistent
<1> SUFFICES ASSUME BusInv PROVE SP!BusConsistent
  OBVIOUS
<1>1. \A u \in Task : job[u].dev \in Dev \cup {Nil}
  BY Zenon DEF BusInv, BusTypes, NoTransfer, Configuring, Transferring
<1> QED
  BY <1>1 DEF BusInv, BusTypes, Moving, Selected, SetUp, SP!BusConsistent, SP!TypeOK

LEMMA BusInitInv == ASSUME SP!SpiAssumption PROVE SP!Init => BusInv
<1> SUFFICES ASSUME SP!Init PROVE BusInv
  OBVIOUS
<1>1. BusTypes
  BY Zenon DEF SP!Init, BusTypes, NoTransfer, SP!NoJob
<1>2. ASSUME NEW u \in Task PROVE JobOK(u)
  BY DEF SP!Init, JobOK, SP!At, HasBus, NoTransfer, SP!NoJob, SP!SpiAssumption
<1>3. Moving /\ Selected /\ SetUp
  BY DEF SP!Init, Moving, Selected, SetUp
<1> QED
  BY <1>1, <1>2, <1>3 DEF BusInv

-----------------------------------------------------------------------------
LEMMA SetConfigKeeps ==
  ASSUME SP!SpiAssumption, BusInv, NEW u \in Task, NEW d \in Dev, NEW s \in Setting,
         SP!SetConfig(u, d, s)
  PROVE  BusInv'
<1>1. BusTypes'
  BY DEF BusInv, BusTypes, SP!SetConfig, SP!Goto, Configuring
<1>2. ASSUME NEW v \in Task PROVE JobOK(v)'
  <2>1. CASE v = u
    BY <2>1 DEF BusInv, BusTypes, JobOK, SP!SetConfig, SP!Goto, SP!At, HasBus, Configuring
  <2>2. CASE v # u
    BY <2>2 DEF BusInv, BusTypes, JobOK, SP!SetConfig, SP!Goto, SP!At, HasBus
  <2> QED
    BY <2>1, <2>2
<1>3. locker # u
  BY DEF BusInv, JobOK, HasBus, SP!SetConfig, SP!At
<1>4. Moving' /\ Selected'
  BY <1>3 DEF BusInv, BusTypes, Moving, Selected, SP!SetConfig, SP!Goto, SP!At
<1>5. SetUp'
  <2>1. CASE d = owner
    BY <2>1 DEF BusInv, BusTypes, SetUp, SP!SetConfig, SP!Goto, SP!At
  <2>2. CASE d # owner
    BY <2>2 DEF BusInv, BusTypes, SetUp, SP!SetConfig, SP!Goto, SP!At
  <2> QED
    BY <2>1, <2>2
<1> QED
  BY <1>1, <1>2, <1>4, <1>5 DEF BusInv

LEMMA ConfigureKeeps ==
  ASSUME SP!SpiAssumption, BusInv, NEW u \in Task, SP!Configure(u)
  PROVE  BusInv'
<1>0. job[u].dev \in Dev /\ locker = Nil /\ selected = {}
  BY DEF BusInv, JobOK, SP!Configure, SP!At, Configuring, Selected
<1>1. BusTypes'
  BY <1>0 DEF BusInv, BusTypes, SP!Configure, SP!Apply, SP!Goto, SP!NoJob, NoTransfer
<1>2. ASSUME NEW v \in Task PROVE JobOK(v)'
  <2>1. CASE v = u
    BY <2>1, <1>0 DEF BusInv, BusTypes, JobOK, SP!Configure, SP!Goto, SP!At, HasBus, NoTransfer, SP!NoJob, SP!SpiAssumption
  <2>2. CASE v # u
    BY <2>2 DEF BusInv, BusTypes, JobOK, SP!Configure, SP!Goto, SP!At, HasBus
  <2> QED
    BY <2>1, <2>2
<1>3. Moving' /\ Selected'
  BY <1>0 DEF BusInv, BusTypes, Moving, Selected, SP!Configure, SP!Apply, SP!Goto, SP!At
<1>4. SetUp'
  <2>1. CASE owner = job[u].dev
    BY <2>1 DEF SetUp, SP!Configure, SP!Apply
  <2>2. CASE owner # job[u].dev
    BY <2>2 DEF BusInv, BusTypes, SetUp, SP!Configure, SP!Goto, SP!At
  <2> QED
    BY <2>1, <2>2
<1> QED
  BY <1>1, <1>2, <1>3, <1>4 DEF BusInv

LEMMA TakeBusKeeps ==
  ASSUME SP!SpiAssumption, BusInv, NEW u \in Task, NEW d \in Dev, NEW ms \in SP!Transfer,
         SP!TakeBus(u, d, ms)
  PROVE  BusInv'
<1>0. /\ ms \in Seq(SP!SpiMessage) \ {<< >>}
      /\ locker = Nil /\ selected = {} /\ u # Nil
  BY TransferMessages DEF BusInv, SP!TakeBus, Selected, SP!SpiAssumption
<1>1. BusTypes'
  BY <1>0 DEF BusInv, BusTypes, SP!TakeBus, SP!Apply, SP!Goto, Transferring
<1>2. ASSUME NEW v \in Task PROVE JobOK(v)'
  <2>1. CASE v = u
    BY <2>1, <1>0 DEF BusInv, BusTypes, JobOK, SP!TakeBus, SP!Goto, SP!At, HasBus, Transferring
  <2>2. CASE v # u
    BY <2>2, <1>0 DEF BusInv, BusTypes, JobOK, SP!TakeBus, SP!Goto, SP!At, HasBus, SP!SpiAssumption
  <2> QED
    BY <2>1, <2>2
<1>3. Moving'
  BY <1>0 DEF BusInv, BusTypes, Moving, SP!TakeBus
<1>4. Selected'
  BY <1>0 DEF BusInv, BusTypes, Selected, SP!TakeBus, SP!Apply, SP!Goto, SP!At
<1>5. SetUp'
  <2>1. CASE owner = d
    BY <2>1 DEF BusInv, BusTypes, SetUp, SP!TakeBus, SP!Goto, SP!At
  <2>2. CASE owner # d
    BY <2>2 DEF SetUp, SP!TakeBus, SP!Apply
  <2> QED
    BY <2>1, <2>2
<1> QED
  BY <1>1, <1>2, <1>3, <1>4, <1>5 DEF BusInv

LEMMA SelectBusKeeps ==
  ASSUME SP!SpiAssumption, BusInv, NEW u \in Task, SP!Select(u)
  PROVE  BusInv'
<1>0. locker = u /\ u # Nil /\ job[u] \in Transferring /\ job[u].dev = owner /\ selected = {}
  BY DEF BusInv, JobOK, HasBus, SP!Select, SP!At, Selected, SP!SpiAssumption
<1>1. BusTypes'
  BY <1>0 DEF BusInv, BusTypes, SP!Select, SP!Goto, Transferring
<1>2. ASSUME NEW v \in Task PROVE JobOK(v)'
  BY <1>0 DEF BusInv, BusTypes, JobOK, SP!Select, SP!Goto, SP!At, HasBus
<1>3. Moving' /\ Selected'
  BY <1>0 DEF BusInv, BusTypes, Moving, Selected, SP!Select, SP!Goto, SP!At
<1>4. SetUp'
  BY <1>0 DEF BusInv, BusTypes, SetUp, SP!Select, SP!Goto, SP!At
<1> QED
  BY <1>1, <1>2, <1>3, <1>4 DEF BusInv

LEMMA StartDmaKeeps ==
  ASSUME SP!SpiAssumption, BusInv, NEW u \in Task, SP!StartDma(u)
  PROVE  BusInv'
<1>0. locker = u /\ u # Nil /\ job[u] \in Transferring /\ job[u].dev = owner /\ selected = {owner}
  BY DEF BusInv, JobOK, HasBus, SP!StartDma, SP!At, Selected, SP!SpiAssumption
<1>a. DEFINE j == [job[u] EXCEPT !.chunk = @ + 1]
<1>b. /\ j \in Transferring /\ j.dev = owner
      /\ job' = [job EXCEPT ![u] = j]
  BY <1>0 DEF SP!StartDma, Transferring
<1> HIDE DEF j
<1>c. rx_active' \in BOOLEAN
  <2>1. Head(job[u].messages) \in SP!SpiMessage
    BY <1>0 DEF Transferring
  <2> QED
    BY <2>1, <1>0 DEF SP!SpiMessage, SP!StartDma, Transferring
<1>1. BusTypes'
  BY <1>0, <1>b, <1>c DEF BusInv, BusTypes, SP!StartDma, SP!Goto
<1>2. ASSUME NEW v \in Task PROVE JobOK(v)'
  BY <1>0, <1>b DEF BusInv, BusTypes, JobOK, SP!StartDma, SP!Goto, SP!At, HasBus
<1>3. Moving' /\ Selected'
  BY <1>0, <1>b DEF BusInv, BusTypes, Moving, Selected, SP!StartDma, SP!Goto, SP!At
<1>4. SetUp'
  BY <1>0, <1>b DEF BusInv, BusTypes, SetUp, SP!StartDma, SP!Goto, SP!At
<1> QED
  BY <1>1, <1>2, <1>3, <1>4 DEF BusInv

LEMMA EndDmaKeeps ==
  ASSUME SP!SpiAssumption, BusInv, NEW u \in Task, SP!EndDma(u)
  PROVE  BusInv'
<1>0. locker = u /\ u # Nil /\ job[u] \in Transferring /\ job[u].dev = owner /\ selected = {owner}
  BY DEF BusInv, JobOK, HasBus, SP!EndDma, SP!At, Selected, SP!SpiAssumption
<1>a. PICK j \in Transferring :
        /\ j.dev = owner
        /\ job' = [job EXCEPT ![u] = j]
  <2> DEFINE left == job[u].messages
             next == [job[u] EXCEPT !.messages = Tail(left), !.chunk = 0]
  <2>1. CASE job' = job
    <3>1. job = [job EXCEPT ![u] = job[u]]
      BY DEF BusInv, BusTypes
    <3> QED
      BY <1>0, <2>1, <3>1
  <2>2. CASE job' # job
    <3>1. job' = [job EXCEPT ![u].messages = Tail(left), ![u].chunk = 0]
      BY <2>2, Zenon DEF SP!EndDma
    <3>0. Len(left) > 1
      BY <2>2 DEF SP!EndDma
    <3>2. left \in Seq(SP!SpiMessage) /\ left # << >>
      BY <1>0 DEF Transferring
    <3>3. Tail(left) \in Seq(SP!SpiMessage) /\ Len(Tail(left)) = Len(left) - 1
      BY <3>2
    <3>4. Tail(left) # << >>
      <4> HIDE DEF left
      <4>1. Len(Tail(left)) # 0
        BY <3>0, <3>2, <3>3
      <4>2. Len(<< >>) = 0
        OBVIOUS
      <4> QED
        BY <4>1, <4>2, Zenon
    <3>5. next \in Transferring /\ next.dev = owner
      BY <1>0, <3>3, <3>4, Zenon DEF Transferring
    <3>6. job' = [job EXCEPT ![u] = next]
      BY <3>1, Zenon DEF BusInv, BusTypes
    <3> QED
      BY <3>5, <3>6, Zenon
  <2> QED
    BY <2>1, <2>2
<1>b. /\ ~ tx_active' /\ ~ rx_active'
      /\ \/ user_at' = [user_at EXCEPT ![u] = "start"] /\ selected' = selected
         \/ user_at' = [user_at EXCEPT ![u] = "release"] /\ selected' = selected \ {owner}
  BY <1>0 DEF SP!EndDma, SP!Goto
<1>c. UNCHANGED <<config, owner, usart, locker, tx_active, rx_active>>
  BY DEF SP!EndDma
<1>1. BusTypes'
  BY <1>0, <1>a, <1>b, <1>c DEF BusInv, BusTypes
<1>2. ASSUME NEW v \in Task PROVE JobOK(v)'
  BY <1>0, <1>a, <1>b, <1>c DEF BusInv, BusTypes, JobOK, SP!EndDma, SP!At, HasBus
<1>3. Moving' /\ Selected'
  BY <1>0, <1>a, <1>b, <1>c DEF BusInv, BusTypes, Moving, Selected, SP!At
<1>4. SetUp'
  BY <1>0, <1>a, <1>b, <1>c DEF BusInv, BusTypes, SetUp, SP!EndDma, SP!At
<1> QED
  BY <1>1, <1>2, <1>3, <1>4 DEF BusInv

LEMMA ReleaseBusKeeps ==
  ASSUME SP!SpiAssumption, BusInv, NEW u \in Task, SP!ReleaseBus(u)
  PROVE  BusInv'
<1>0. locker = u /\ u # Nil /\ selected = {} /\ ~ tx_active /\ ~ rx_active
  BY DEF BusInv, BusTypes, JobOK, HasBus, SP!ReleaseBus, SP!At, Selected, Moving, SP!SpiAssumption
<1>1. BusTypes'
  BY <1>0 DEF BusInv, BusTypes, SP!ReleaseBus, SP!Goto, SP!NoJob, NoTransfer
<1>2. ASSUME NEW v \in Task PROVE JobOK(v)'
  <2>1. CASE v = u
    BY <2>1, <1>0 DEF BusInv, BusTypes, JobOK, SP!ReleaseBus, SP!Goto, SP!At, HasBus, SP!NoJob, NoTransfer
  <2>2. CASE v # u
    BY <2>2, <1>0 DEF BusInv, BusTypes, JobOK, SP!ReleaseBus, SP!Goto, SP!At, HasBus, SP!SpiAssumption
  <2> QED
    BY <2>1, <2>2
<1>3. Moving' /\ Selected'
  BY <1>0 DEF BusInv, BusTypes, Moving, Selected, SP!ReleaseBus
<1>4. SetUp'
  BY <1>0 DEF BusInv, BusTypes, SetUp, SP!ReleaseBus, SP!Goto, SP!At
<1> QED
  BY <1>1, <1>2, <1>3, <1>4 DEF BusInv

-----------------------------------------------------------------------------
LEMMA BusNextKeeps ==
  ASSUME SP!SpiAssumption, BusInv, [SP!SpiNext]_SP!spiVars
  PROVE  BusInv'
<1>1. CASE SP!txFinished \/ SP!rxComplete
  BY <1>1, Zenon
     DEF BusInv, BusTypes, JobOK, SP!At, HasBus, Moving, Selected, SetUp, SP!txFinished, SP!rxComplete
<1>2. ASSUME NEW u \in Task, NEW d \in Dev, NEW s \in Setting, SP!SetConfig(u, d, s)
      PROVE  BusInv'
  BY <1>2, SetConfigKeeps
<1>3. ASSUME NEW u \in Task, NEW d \in Dev, NEW ms \in SP!Transfer, SP!TakeBus(u, d, ms)
      PROVE  BusInv'
  BY <1>3, TakeBusKeeps
<1>4. ASSUME NEW u \in Task,
             SP!Configure(u) \/ SP!Select(u) \/ SP!StartDma(u) \/ SP!EndDma(u) \/ SP!ReleaseBus(u)
      PROVE  BusInv'
  BY <1>4, ConfigureKeeps, SelectBusKeeps, StartDmaKeeps, EndDmaKeeps, ReleaseBusKeeps
<1>5. CASE UNCHANGED SP!spiVars
  BY <1>5 DEF SP!spiVars, BusInv, BusTypes, JobOK, SP!At, HasBus, Moving, Selected, SetUp
<1> QED
  BY <1>1, <1>2, <1>3, <1>4, <1>5 DEF SP!SpiNext

\* While a byte moves, the device that it is for is selected, it alone, and the
\* thread that sends it has the bus (rt_spi_transfer under bus->lock, with the
\* chip select of spiDmaXfer); the USART is set up for the device that had it
\* last, unless a rt_spi_configure is on its way.
THEOREM SpiBusConsistent == ASSUME SP!SpiAssumption PROVE SP!SpiSpec => []SP!BusConsistent
<1>1. SP!Init => BusInv
  BY BusInitInv
<1>2. BusInv /\ [SP!SpiNext]_SP!spiVars => BusInv'
  BY BusNextKeeps
<1>3. BusInv => SP!BusConsistent
  BY BusInvImplies
<1> QED
  BY <1>1, <1>2, <1>3, PTL DEF SP!SpiSpec

-----------------------------------------------------------------------------
(* The download, for any files, attempts and faults.  The sender and the     *)
(* receiver take turns, so that where the sender is says what the receiver   *)
(* does, what is on the line in either direction and what is on the disk.    *)

States == {"whole", "short", "corrupt"}

AnyPacket ==
    {YM!EOT} \cup [code : {"SOH"}, data : [file : 0 .. Len(Length), block : Nat], state : States]

\* Block n of file f, in whatever state.
PacketOf(f, n) == [code : {"SOH"}, data : {YM!Payload(f, n)}, state : States]

Got(f, n) == [i \in 1 .. n |-> YM!Payload(f, i)]

Whole(f) == YM!Received(f) = Got(f, Length[f])

\* Headers of file f, the last packet apart.
Packets(s, f, last) ==
    \A i \in 1 .. Len(s) : s[i] \in IF i = Len(s) THEN last ELSE PacketOf(f, 0)

Headers(s, f) == Packets(s, f, PacketOf(f, 0))

\* What the receiver has said: its invitations; then, that it accepts a header;
\* or, that the session is over.
OnlyCalls(s) == \A i \in 1 .. Len(s) : s[i] = "C"

Accepts(s) == \A i \in 1 .. Len(s) : s[i] = IF i = Len(s) - 1 THEN "ACK" ELSE "C"

Ends(s) == \A i \in 1 .. Len(s) : s[i] = IF i = Len(s) THEN "ACK" ELSE "C"

Failed == rym_at = "end" /\ result = "ERROR"

SenderAt ==
    {"start", "header", "go", "block", "end", "second end", "next", "stopped", "done"}

YmTypes ==
    /\ rym_at \in {"invite", "header", "ready", "data", "second", "last", "end"}
    /\ rym_at # "end" => result = "none"
    /\ stage \in {"ESTABLISHING", "ESTABLISHED", "TRANSMITTING", "FINISHING", "FINISHED"}
    /\ to \in Seq(AnyPacket)
    /\ from \in Seq({"C", "ACK", "NAK", "CAN"})
    /\ sender \in [at : SenderAt, file : 0 .. Len(Length), block : Nat]
    /\ DOMAIN disk = YM!File
    /\ \A f \in YM!File : \E n \in 0 .. Length[f] : YM!Received(f) = Got(f, n)

\* The sender has not begun.
Starting ==
    /\ sender.file = 1 /\ sender.block = 0
    /\ to = << >> /\ OnlyCalls(from)
    /\ rym_at \in {"invite", "header"} \/ Failed

Greeting(f) == IF f = 1 THEN {"invite", "header"} ELSE {"last"}

\* The receiver waits for the first block of file f.
Opened(f) == rym_at = "data" /\ stage = "ESTABLISHED" /\ cur_f = f /\ disk[f] = << >>

\* A header of file f was sent.
Heading(f) ==
    /\ f # 0 /\ sender.block = 0
    /\ Headers(to, f) \/ Failed
    /\ \/ rym_at \in Greeting(f) /\ OnlyCalls(from)
       \/ rym_at = "ready" /\ OnlyCalls(from) /\ cur_f = f /\ disk[f] = << >>
       \/ Opened(f) /\ Accepts(from)
       \/ Failed /\ (OnlyCalls(from) \/ Accepts(from))

\* The header that ends the session was sent.
Closing ==
    /\ sender.file = 0 /\ sender.block = 0
    /\ Headers(to, 0) \/ Failed
    /\ \/ rym_at = "last" /\ OnlyCalls(from)
       \/ rym_at = "end" /\ result = "EOK" /\ Ends(from)
       \/ Failed /\ OnlyCalls(from)

Going(f) ==
    /\ f # 0 /\ sender.block = 0
    /\ Headers(to, f) \/ Failed
    /\ from \in {<< >>, <<"C">>}
    /\ Opened(f) \/ Failed

\* The last packet on the line follows headers only if no block was received.
Following(f, last) == Packets(to, f, last) /\ (stage = "ESTABLISHED" \/ Len(to) <= 1)

Blocking(f, n) ==
    /\ f # 0 /\ n \in 1 .. Length[f]
    /\ \/ rym_at = "data" /\ cur_f = f /\ from = << >>
          /\ Following(f, PacketOf(f, n)) /\ disk[f] = Got(f, n - 1)
       \/ rym_at = "data" /\ cur_f = f /\ from \in {<< >>, <<"ACK">>}
          /\ to = << >> /\ disk[f] = Got(f, n)
       \/ Failed /\ from \in {<< >>, <<"ACK">>, <<"CAN">>}

Ending(f) ==
    /\ f # 0 /\ sender.block = Length[f]
    /\ \/ rym_at = "data" /\ cur_f = f /\ from = << >>
          /\ Following(f, {YM!EOT}) /\ disk[f] = Got(f, Length[f])
       \/ rym_at = "second" /\ from \in {<< >>, <<"NAK">>} /\ to = << >> /\ Whole(f)
       \/ Failed /\ from \in {<< >>, <<"NAK">>}

EndingAgain(f) ==
    /\ f # 0 /\ sender.block = Length[f]
    /\ \/ rym_at = "second" /\ from = << >> /\ to \in {<< >>, <<YM!EOT>>} /\ Whole(f)
       \/ /\ rym_at = "last" /\ from \in {<<"ACK", "C">>, <<"C">>, << >>}
          /\ to = << >> /\ Whole(f)
       \/ Failed /\ from \in {<<"ACK", "C">>, <<"C">>, << >>}

Passing(f) ==
    /\ f # 0 /\ sender.block = Length[f]
    /\ from \in {<<"C">>, << >>}
    /\ \/ rym_at = "last" /\ to = << >> /\ Whole(f)
       \/ Failed

\* The files before the one that is being sent are whole, those behind it are
\* empty; in the end all are whole.
Ordered ==
    /\ \A f \in YM!File : sender.file = 0 \/ f < sender.file => Whole(f)
    /\ \A f \in YM!File : sender.file # 0 /\ sender.file < f => disk[f] = << >>

\* Where the two are.
Turn ==
    \/ sender.at = "start" /\ Starting
    \/ sender.at = "header" /\ (Heading(sender.file) \/ Closing)
    \/ sender.at = "go" /\ Going(sender.file)
    \/ sender.at = "block" /\ Blocking(sender.file, sender.block)
    \/ sender.at = "end" /\ Ending(sender.file)
    \/ sender.at = "second end" /\ EndingAgain(sender.file)
    \/ sender.at = "next" /\ Passing(sender.file)
    \/ sender.at = "stopped" /\ Failed /\ from = << >>
    \/ sender.at = "done" /\ sender.file = 0 /\ rym_at = "end" /\ result = "EOK" /\ from = << >>

\* The inductive invariant.
YmInv == YmTypes /\ Turn /\ (Failed \/ Ordered)

-----------------------------------------------------------------------------
(* What is on the line and on the disk *)

LEMMA YmFile ==
    ASSUME YM!YmodemAssumption
    PROVE  /\ YM!File = 1 .. Len(Length) /\ Len(Length) \in Nat
           /\ \A f \in YM!File : Length[f] \in Nat
           /\ 1 \in YM!File
  <1>1. Length \in Seq(Nat) /\ Length # << >>
    BY DEF YM!YmodemAssumption
  <1>2. Len(Length) \in Nat /\ Len(Length) # 0 /\ DOMAIN Length = 1 .. Len(Length)
    BY <1>1, EmptySeq
  <1>3. \A f \in 1 .. Len(Length) : Length[f] \in Nat
    BY <1>1
  <1> QED  BY <1>2, <1>3 DEF YM!File

LEMMA DropFirst ==
    ASSUME NEW S, NEW s \in Seq(S), s # << >>
    PROVE  /\ Head(s) = s[1] /\ Head(s) \in S /\ Len(s) \in Nat \ {0}
           /\ Tail(s) \in Seq(S) /\ Len(Tail(s)) = Len(s) - 1
           /\ \A i \in 1 .. Len(Tail(s)) : Tail(s)[i] = s[i + 1]
           /\ Len(s) = 1 => Tail(s) = << >>
  <1>1. Len(s) \in Nat /\ Len(s) # 0
    BY EmptySeq
  <1>2. /\ Head(s) = s[1] /\ Head(s) \in S
        /\ Tail(s) \in Seq(S) /\ Len(Tail(s)) = Len(s) - 1
        /\ \A i \in 1 .. Len(Tail(s)) : Tail(s)[i] = s[i + 1]
    BY HeadTailProperties
  <1>3. Len(s) = 1 => Tail(s) = << >>
    <2>1. PICK t : t = Tail(s)
      BY Zenon
    <2>2. t # << >> => Len(t) \in Nat \ {0}
      BY ONLY <1>2, <2>1, EmptySeq
    <2> QED  BY ONLY <1>2, <2>1, <2>2
  <1> QED  BY <1>1, <1>2, <1>3

LEMMA PacketsDrop ==
    ASSUME NEW s \in Seq(AnyPacket), s # << >>, NEW f, NEW last, Packets(s, f, last)
    PROVE  /\ Packets(Tail(s), f, last)
           /\ Head(s) \in IF Len(s) = 1 THEN last ELSE PacketOf(f, 0)
  <1>1. /\ Head(s) = s[1] /\ Len(s) \in Nat \ {0}
        /\ Len(Tail(s)) = Len(s) - 1
        /\ \A i \in 1 .. Len(Tail(s)) : Tail(s)[i] = s[i + 1]
    BY DropFirst
  <1>2. ASSUME NEW i \in 1 .. Len(Tail(s))
        PROVE  Tail(s)[i] \in IF i = Len(Tail(s)) THEN last ELSE PacketOf(f, 0)
    <2>1. i + 1 \in 1 .. Len(s) /\ (i + 1 = Len(s) <=> i = Len(Tail(s))) /\ Tail(s)[i] = s[i + 1]
      BY <1>1
    <2>2. s[i + 1] \in IF i + 1 = Len(s) THEN last ELSE PacketOf(f, 0)
      BY <2>1 DEF Packets
    <2> QED  BY <2>1, <2>2
  <1>3. s[1] \in IF Len(s) = 1 THEN last ELSE PacketOf(f, 0)
    <2>1. 1 \in 1 .. Len(s) /\ (1 = Len(s) <=> Len(s) = 1)
      BY ONLY <1>1
    <2>2. \A i \in 1 .. Len(s) : s[i] \in IF i = Len(s) THEN last ELSE PacketOf(f, 0)
      BY DEF Packets
    <2>3. s[1] \in IF 1 = Len(s) THEN last ELSE PacketOf(f, 0)
      BY ONLY <2>1, <2>2, Zenon
    <2> QED  BY ONLY <2>1, <2>3
  <1> QED  BY <1>1, <1>2, <1>3, Zenon DEF Packets

LEMMA PacketsAppend ==
    ASSUME NEW s \in Seq(AnyPacket), NEW f, Headers(s, f),
           NEW p \in AnyPacket, NEW last, p \in last
    PROVE  /\ Append(s, p) \in Seq(AnyPacket) /\ Packets(Append(s, p), f, last)
           /\ Len(Append(s, p)) = Len(s) + 1
  <1>1. /\ Append(s, p) \in Seq(AnyPacket) /\ Len(Append(s, p)) = Len(s) + 1
        /\ Len(s) \in Nat
        /\ \A i \in 1 .. Len(s) : Append(s, p)[i] = s[i]
        /\ Append(s, p)[Len(s) + 1] = p
    BY AppendProperties
  <1>2. \A i \in 1 .. Len(s) : s[i] \in PacketOf(f, 0)
    BY DEF Headers, Packets
  <1> QED  BY <1>1, <1>2 DEF Packets

LEMMA OnePacket ==
    ASSUME NEW p \in AnyPacket, NEW f, NEW last, p \in last
    PROVE  /\ Append(<< >>, p) \in Seq(AnyPacket) /\ Packets(Append(<< >>, p), f, last)
           /\ Len(Append(<< >>, p)) = 1 /\ Append(<< >>, p) = <<p>>
  <1>1. << >> \in Seq(AnyPacket) /\ Headers(<< >>, f) /\ Len(<< >>) = 0
    BY DEF Headers, Packets
  <1>2. Append(<< >>, p) = <<p>>
    OBVIOUS
  <1> QED  BY <1>1, <1>2, PacketsAppend, Zenon

\* A packet of a block is none of the others, and says which block it is.
LEMMA PacketIs ==
    ASSUME NEW f, NEW n, NEW p \in PacketOf(f, n)
    PROVE  /\ p # YM!EOT /\ p.data = YM!Payload(f, n) /\ p.data.file = f /\ p.data.block = n
           /\ p.state \in States
           /\ \A s \in States : [p EXCEPT !.state = s] \in PacketOf(f, n)
  <1>1. p.code = "SOH" /\ p.data = YM!Payload(f, n) /\ p.state \in States
    BY DEF PacketOf
  <1>2. YM!EOT.code = "EOT"
    BY DEF YM!EOT
  <1>3. \A s \in States : [p EXCEPT !.state = s] \in PacketOf(f, n)
    BY DEF PacketOf
  <1> QED  BY <1>1, <1>2, <1>3 DEF YM!Payload

LEMMA PacketSent ==
    ASSUME NEW f \in 0 .. Len(Length), NEW n \in Nat
    PROVE  /\ YM!Packet(f, n) \in PacketOf(f, n) /\ PacketOf(f, n) \subseteq AnyPacket
           /\ YM!EOT \in AnyPacket
  BY DEF YM!Packet, PacketOf, AnyPacket, YM!Payload, States

LEMMA GotIs ==
    ASSUME NEW f, NEW n \in Nat
    PROVE  /\ Got(f, n) \in Seq({YM!Payload(f, i) : i \in 1 .. n}) /\ Len(Got(f, n)) = n
           /\ \A i \in 1 .. n : Got(f, n)[i] = YM!Payload(f, i)
           /\ n = 0 => Got(f, n) = << >>
  <1>1. /\ Got(f, n) \in [1 .. n -> {YM!Payload(f, i) : i \in 1 .. n}]
        /\ DOMAIN Got(f, n) = 1 .. n
        /\ \A i \in 1 .. n : Got(f, n)[i] = YM!Payload(f, i)
    BY DEF Got
  <1>2. Got(f, n) \in Seq({YM!Payload(f, i) : i \in 1 .. n})
    BY <1>1, IsASeq
  <1>3. Len(Got(f, n)) = n
    BY <1>1, <1>2, LenProperties
  <1>4. n = 0 => Got(f, n) = << >>
    BY <1>2, <1>3, EmptySeq
  <1> QED  BY <1>1, <1>2, <1>3, <1>4

\* The next block.
LEMMA GotNext ==
    ASSUME NEW f, NEW n \in Nat \ {0}
    PROVE  Append(Got(f, n - 1), YM!Payload(f, n)) = Got(f, n)
  <1> DEFINE S == {YM!Payload(f, i) : i \in 1 .. n}
             a == Append(Got(f, n - 1), YM!Payload(f, n))
  <1>1. /\ Got(f, n - 1) \in Seq({YM!Payload(f, i) : i \in 1 .. n - 1}) /\ Len(Got(f, n - 1)) = n - 1
        /\ \A i \in 1 .. n - 1 : Got(f, n - 1)[i] = YM!Payload(f, i)
    BY n - 1 \in Nat, GotIs, Zenon
  <1>2. {YM!Payload(f, i) : i \in 1 .. n - 1} \subseteq S /\ YM!Payload(f, n) \in S
    OBVIOUS
  <1>3. Got(f, n - 1) \in Seq(S)
    BY <1>1, <1>2, SeqMonotonic
  <1> HIDE DEF S
  <1>4. /\ a \in Seq(S) /\ Len(a) = n
        /\ \A i \in 1 .. n - 1 : a[i] = Got(f, n - 1)[i]
        /\ a[n] = YM!Payload(f, n)
    BY <1>1, <1>2, <1>3, AppendProperties
  <1>5. Got(f, n) \in Seq(S) /\ Len(Got(f, n)) = n /\ \A i \in 1 .. n : Got(f, n)[i] = YM!Payload(f, i)
    BY GotIs, Zenon DEF S
  <1>6. \A i \in 1 .. n : a[i] = Got(f, n)[i]
    BY <1>1, <1>4, <1>5
  <1> HIDE DEF a
  <1>7. a = Got(f, n)
    BY <1>4, <1>5, <1>6, SeqEqual
  <1> QED  BY <1>7 DEF a

\* What is on the disk of a file, without what follows the last block.
Stripped(d) == IF d # << >> /\ "tail" \in DOMAIN Last(d) THEN Front(d) ELSE d

LEMMA StrippedIs ==
    ASSUME NEW f, NEW n \in Nat
    PROVE  /\ Stripped(Got(f, n)) = Got(f, n)
           /\ \A b : Stripped(Append(Got(f, n), [tail |-> b])) = Got(f, n)
  <1> DEFINE g == Got(f, n)
             S == {YM!Payload(f, i) : i \in 1 .. n}
  <1>1. g \in Seq(S) /\ Len(g) = n /\ (\A i \in 1 .. n : g[i] = YM!Payload(f, i))
    BY GotIs, Zenon
  <1>2. \A i : "tail" \notin DOMAIN YM!Payload(f, i)
    BY DEF YM!Payload
  <1> HIDE DEF S, g
  <1>3. g # << >> => "tail" \notin DOMAIN Last(g)
    BY <1>1, <1>2, EmptySeq DEF Last
  <1>4. ASSUME NEW b PROVE Stripped(Append(g, [tail |-> b])) = g
    <2> DEFINE x == [tail |-> b]
               T == S \cup {x}
               a == Append(g, x)
    <2>1. "tail" \in DOMAIN x
      OBVIOUS
    <2> HIDE DEF x
    <2>2. g \in Seq(T) /\ x \in T
      BY <1>1, SeqMonotonic
    <2> HIDE DEF T
    <2>3. /\ a \in Seq(T) /\ a # << >> /\ Len(a) = n + 1
          /\ \A i \in 1 .. n : a[i] = g[i]
          /\ a[n + 1] = x
      BY <1>1, <2>2, AppendProperties
    <2> HIDE DEF a
    <2>4. Last(a) = x
      BY <2>3 DEF Last
    <2>5. Front(a) = g
      <3>1. Front(a) = SubSeq(a, 1, n)
        BY <2>3 DEF Front
      <3>2. /\ SubSeq(a, 1, n) \in Seq(T) /\ Len(SubSeq(a, 1, n)) = n
            /\ \A i \in 1 .. n : SubSeq(a, 1, n)[i] = a[i]
        BY <2>3, SubSeqProperties
      <3> QED  BY <1>1, <2>2, <2>3, <3>1, <3>2, SeqEqual
    <2>6. Stripped(a) = g
      BY <2>1, <2>3, <2>4, <2>5 DEF Stripped
    <2> QED  BY <2>6 DEF a, x
  <1>5. Stripped(g) = g
    BY <1>3 DEF Stripped
  <1> QED  BY <1>4, <1>5 DEF g

LEMMA ReceivedIs ==
    ASSUME NEW f, NEW n \in Nat
    PROVE  /\ disk[f] = Got(f, n) => YM!Received(f) = Got(f, n)
           /\ \A b : disk[f] = Append(Got(f, n), [tail |-> b]) => YM!Received(f) = Got(f, n)
  <1>1. YM!Received(f) = Stripped(disk[f])
    BY DEF YM!Received, Stripped, YM!Last, Last, YM!Front, Front
  <1> QED  BY <1>1, StrippedIs, Zenon

\* The same after a step.
LEMMA ReceivedAfter ==
    ASSUME NEW f, NEW n \in Nat,
           disk'[f] = Got(f, n) \/ \E b : disk'[f] = Append(Got(f, n), [tail |-> b])
    PROVE  YM!Received(f)' = Got(f, n)
  <1>1. YM!Received(f)' = Stripped(disk'[f])
    BY DEF YM!Received, Stripped, YM!Last, Last, YM!Front, Front
  <1> QED  BY <1>1, StrippedIs, Zenon

LEMMA ReceivedSame ==
    ASSUME NEW f, disk'[f] = disk[f]
    PROVE  YM!Received(f)' = YM!Received(f) /\ Whole(f)' = Whole(f)
  <1>1. YM!Received(f)' = YM!Received(f)
    BY DEF YM!Received
  <1> QED  BY <1>1 DEF Whole

LEMMA PrefixOfBlocks ==
    ASSUME NEW f, NEW l \in Nat, NEW n \in 0 .. l
    PROVE  IsPrefix(Got(f, n), Got(f, l))
  <1> DEFINE S == {YM!Payload(f, i) : i \in 1 .. l}
             g == Got(f, n)
             h == Got(f, l)
  <1>1. n \in Nat /\ n <= l
    OBVIOUS
  <1>2. h \in Seq(S) /\ Len(h) = l /\ \A i \in 1 .. l : h[i] = YM!Payload(f, i)
    BY GotIs, Zenon
  <1>3. /\ g \in Seq({YM!Payload(f, i) : i \in 1 .. n}) /\ Len(g) = n
        /\ \A i \in 1 .. n : g[i] = YM!Payload(f, i)
    BY <1>1, GotIs
  <1>4. {YM!Payload(f, i) : i \in 1 .. n} \subseteq S
    BY <1>1
  <1>5. g \in Seq(S)
    BY <1>3, <1>4, SeqMonotonic
  <1> HIDE DEF S, g, h
  <1>6. /\ SubSeq(g, 1, n) \in Seq(S) /\ Len(SubSeq(g, 1, n)) = n
        /\ \A i \in 1 .. n : SubSeq(g, 1, n)[i] = g[i]
    BY <1>1, <1>3, <1>5, SubSeqProperties
  <1>7. /\ SubSeq(h, 1, n) \in Seq(S) /\ Len(SubSeq(h, 1, n)) = n
        /\ \A i \in 1 .. n : SubSeq(h, 1, n)[i] = h[i]
    BY <1>1, <1>2, SubSeqProperties
  <1>8. \A i \in 1 .. n : SubSeq(g, 1, n)[i] = SubSeq(h, 1, n)[i]
    BY <1>1, <1>2, <1>3, <1>6, <1>7
  <1>9. SubSeq(g, 1, n) = SubSeq(h, 1, n)
    BY <1>6, <1>7, <1>8, SeqEqual
  <1> QED  BY <1>1, <1>2, <1>3, <1>9 DEF IsPrefix, g, h

LEMMA YmInvImplies ==
    ASSUME YmInv, YM!YmodemAssumption
    PROVE  YM!FilesTrue
  <1>1. \A f \in YM!File : YM!Blocks(f) = Got(f, Length[f])
    BY DEF YM!Blocks, Got
  <1>2. \A f \in YM!File : IsPrefix(YM!Received(f), YM!Blocks(f))
    BY <1>1, YmFile, PrefixOfBlocks DEF YmInv, YmTypes
  <1>3. ASSUME result = "EOK" PROVE \A f \in YM!File : YM!Received(f) = YM!Blocks(f)
    <2>1. rym_at = "end" /\ ~ Failed
      BY <1>3 DEF YmInv, YmTypes, Failed
    <2>2. sender.file = 0
      BY <2>1, Zenon
         DEF YmInv, Turn, Starting, Heading, Greeting, Opened, Closing, Going, Blocking,
         Ending, EndingAgain, Passing
    <2>3. \A f \in YM!File : Whole(f)
      BY <2>1, <2>2 DEF YmInv, Ordered
    <2> QED  BY <1>1, <2>3 DEF Whole
  <1>4. sender.at = "done" => result = "EOK"
    BY DEF YmInv, Turn
  <1>5. IsPrefix(<< >>, << >>) \in BOOLEAN
    BY DEF IsPrefix
  <1> QED  BY <1>2, <1>3, <1>4 DEF YM!FilesTrue, YM!IsPrefix, IsPrefix

LEMMA YmInvInit ==
    ASSUME YM!Init, YM!YmodemAssumption
    PROVE  YmInv
  <1> USE YmFile
  <1>1. /\ rym_at = "invite" /\ stage = "ESTABLISHING" /\ result = "none"
        /\ disk = [f \in YM!File |-> << >>] /\ to = << >> /\ from = << >>
        /\ sender = [at |-> "start", file |-> 1, block |-> 0]
    BY DEF YM!Init
  <1>2. \A f \in YM!File : disk[f] = << >> /\ YM!Received(f) = Got(f, 0)
    BY <1>1, GotIs, ReceivedIs, 0 \in Nat, Zenon
  <1>3. YmTypes
    <2>1. /\ sender \in [at : SenderAt, file : 0 .. Len(Length), block : Nat]
          /\ to \in Seq(AnyPacket) /\ from \in Seq({"C", "ACK", "NAK", "CAN"})
      BY <1>1 DEF SenderAt
    <2>2. \A f \in YM!File : 0 \in 0 .. Length[f]
      OBVIOUS
    <2> QED  BY <1>1, <1>2, <2>1, <2>2 DEF YmTypes
  <1>4. Turn /\ Ordered
    BY <1>1, <1>2 DEF Turn, Starting, OnlyCalls, Ordered
  <1> QED  BY <1>3, <1>4 DEF YmInv

-----------------------------------------------------------------------------
(* The receiver's steps *)

\* The types, after a step that leaves the sender and the disk alone.
LEMMA YmTypesSame ==
    ASSUME YmTypes,
           rym_at' \in {"invite", "header", "ready", "data", "second", "last", "end"},
           rym_at' # "end" => result' = "none",
           stage' \in {"ESTABLISHING", "ESTABLISHED", "TRANSMITTING", "FINISHING", "FINISHED"},
           to' \in Seq(AnyPacket), from' \in Seq({"C", "ACK", "NAK", "CAN"}),
           sender' = sender, disk' = disk
    PROVE  YmTypes'
  <1>1. \A f \in YM!File : YM!Received(f)' = YM!Received(f)
    BY ReceivedSame
  <1> QED  BY <1>1 DEF YmTypes

LEMMA OrderedSame ==
    ASSUME Ordered, disk' = disk, sender'.file = sender.file
    PROVE  Ordered'
  <1>1. \A f \in YM!File : Whole(f)' = Whole(f)
    BY ReceivedSame
  <1> QED  BY <1>1 DEF Ordered

\* The session ends in an error: no word to the sender is left that could tell
\* it otherwise.
LEMMA FailKeeps ==
    ASSUME YmInv, rym_at # "end", rym_at' = "end", result' = "ERROR",
           stage' \in {"ESTABLISHING", "ESTABLISHED", "TRANSMITTING", "FINISHING", "FINISHED"},
           to' = to \/ (to # << >> /\ to' = Tail(to)),
           from' = from, sender' = sender, disk' = disk
    PROVE  YmInv'
  <1>1. to' \in Seq(AnyPacket)
    <2>1. to \in Seq(AnyPacket)
      BY DEF YmInv, YmTypes
    <2>2. to # << >> => Tail(to) \in Seq(AnyPacket)
      BY ONLY <2>1, DropFirst
    <2> QED  BY <2>1, <2>2
  <1>2. YmTypes'
    BY <1>1, YmTypesSame DEF YmInv, YmTypes
  <1>3. Failed' /\ ~ Failed
    BY DEF Failed
  <1>4. Turn'
    <2>1. CASE sender.at = "start" /\ Starting
      <3>1. to' = << >> /\ from' = from /\ sender' = sender
        BY <2>1 DEF Starting
      <3> QED  BY <1>3, <2>1, <3>1 DEF Starting, Turn, OnlyCalls
    <2>2. CASE sender.at = "header" /\ Heading(sender.file)
      <3>1. OnlyCalls(from)' = OnlyCalls(from) /\ Accepts(from)' = Accepts(from)
        BY DEF OnlyCalls, Accepts
      <3>3. OnlyCalls(from) \/ Accepts(from)
        BY <1>3, <2>2 DEF Heading
      <3> QED  BY <1>3, <2>2, <3>1, <3>3 DEF Heading, Turn
    <2>3. CASE sender.at = "header" /\ Closing
      <3>1. OnlyCalls(from)' = OnlyCalls(from) /\ OnlyCalls(from)
        BY <1>3, <2>3 DEF OnlyCalls, Closing
      <3> QED  BY <1>3, <2>3, <3>1 DEF Closing, Turn
    <2>4. CASE sender.at = "go" /\ Going(sender.file)
      BY <1>3, <2>4 DEF Going, Turn
    <2>5. CASE sender.at = "block" /\ Blocking(sender.file, sender.block)
      BY <1>3, <2>5 DEF Blocking, Turn
    <2>6. CASE sender.at = "end" /\ Ending(sender.file)
      BY <1>3, <2>6 DEF Ending, Turn
    <2>7. CASE sender.at = "second end" /\ EndingAgain(sender.file)
      BY <1>3, <2>7, Zenon DEF EndingAgain, Turn
    <2>8. CASE sender.at = "next" /\ Passing(sender.file)
      BY <1>3, <2>8 DEF Passing, Turn
    <2>9. CASE sender.at = "stopped" /\ Failed
      BY <1>3, <2>9
    <2> QED
      BY <2>1, <2>2, <2>3, <2>4, <2>5, <2>6, <2>7, <2>8, <2>9, Zenon DEF YmInv, Turn
  <1> QED  BY <1>2, <1>3, <1>4 DEF YmInv

\* Which of the turns it may be, given where the receiver is.
LEMMA TurnOf ==
    ASSUME YmInv
    PROVE  /\ rym_at # "end" => ~ Failed
           /\ rym_at \in {"invite", "header"} =>
                \/ sender.at = "start" /\ Starting
                \/ sender.at = "header" /\ sender.file = 1 /\ Heading(1) /\ OnlyCalls(from)
           /\ rym_at = "ready" =>
                sender.at = "header" /\ Heading(sender.file) /\ OnlyCalls(from)
           /\ rym_at = "data" =>
                \/ sender.at = "header" /\ Heading(sender.file) /\ Opened(sender.file)
                \/ sender.at = "go" /\ Going(sender.file)
                \/ sender.at = "block" /\ Blocking(sender.file, sender.block)
                \/ sender.at = "end" /\ Ending(sender.file)
           /\ rym_at = "second" =>
                \/ sender.at = "end" /\ Ending(sender.file) /\ to = << >>
                \/ sender.at = "second end" /\ EndingAgain(sender.file)
           /\ rym_at = "last" =>
                \/ sender.at = "header" /\ Heading(sender.file) /\ OnlyCalls(from)
                \/ sender.at = "header" /\ Closing /\ OnlyCalls(from)
                \/ to = << >>
  <1>1. rym_at # "end" => ~ Failed
    BY DEF Failed
  <1>2. Turn
    BY DEF YmInv
  <1>3. rym_at \in {"invite", "header"} =>
                \/ sender.at = "start" /\ Starting
                \/ sender.at = "header" /\ sender.file = 1 /\ Heading(1) /\ OnlyCalls(from)
    BY <1>2, Zenon
       DEF Turn, Heading, Greeting, Opened, Closing, Going, Blocking, Ending, EndingAgain,
                Passing, Failed
  <1>4. rym_at = "ready" => sender.at = "header" /\ Heading(sender.file) /\ OnlyCalls(from)
    BY <1>2 DEF Turn, Starting, Heading, Greeting, Opened, Closing, Going, Blocking, Ending,
                EndingAgain, Passing, Failed
  <1>5. rym_at = "data" =>
                \/ sender.at = "header" /\ Heading(sender.file) /\ Opened(sender.file)
                \/ sender.at = "go" /\ Going(sender.file)
                \/ sender.at = "block" /\ Blocking(sender.file, sender.block)
                \/ sender.at = "end" /\ Ending(sender.file)
    BY <1>2 DEF Turn, Starting, Heading, Greeting, Closing, EndingAgain, Passing, Failed
  <1>6. rym_at = "second" =>
                \/ sender.at = "end" /\ Ending(sender.file) /\ to = << >>
                \/ sender.at = "second end" /\ EndingAgain(sender.file)
    BY <1>2, Zenon
       DEF Turn, Starting, Heading, Greeting, Opened, Closing, Going, Blocking, Ending,
                Passing, Failed
  <1>7. rym_at = "last" =>
                \/ sender.at = "header" /\ Heading(sender.file) /\ OnlyCalls(from)
                \/ sender.at = "header" /\ Closing /\ OnlyCalls(from)
                \/ to = << >>
    BY <1>2, Zenon
       DEF Turn, Starting, Heading, Greeting, Opened, Closing, Going, Blocking, Ending,
                EndingAgain, Passing, Failed
  <1> QED  BY <1>1, <1>3, <1>4, <1>5, <1>6, <1>7, Zenon

LEMMA InviteKeeps ==
    ASSUME YmInv, YM!YmodemAssumption, YM!Invite
    PROVE  YmInv'
  <1>1. CASE tries < Tries
    <2>1. /\ rym_at = "invite" /\ rym_at' = "header" /\ from' = from \o <<"C">>
          /\ UNCHANGED <<stage, disk, result, to, sender>>
      BY <1>1 DEF YM!Invite, YM!Put
    <2>2. from \in Seq({"C", "ACK", "NAK", "CAN"}) /\ result = "none" /\ YmTypes
      BY <2>1 DEF YmInv, YmTypes
    <2>3. OnlyCalls(from)
      BY <2>1, TurnOf DEF Starting
    <2>4. /\ from' \in Seq({"C", "ACK", "NAK", "CAN"})
          /\ \A i \in 1 .. Len(from') : from'[i] = "C"
      BY <2>1, <2>2, <2>3 DEF OnlyCalls
    <2>5. YmTypes' /\ ~ Failed
      BY <2>1, <2>2, <2>4, YmTypesSame DEF YmTypes, Failed
    <2>6. OnlyCalls(from)'
      BY <2>4 DEF OnlyCalls
    <2>7. Ordered'
      BY <2>1, <2>5, OrderedSame DEF YmInv
    <2>8. Turn'
      <3>1. CASE sender.at = "start" /\ Starting
        BY <2>1, <2>6, <3>1 DEF Turn, Starting
      <3>2. CASE sender.at = "header" /\ sender.file = 1 /\ Heading(1)
        <4>1. Headers(to, 1)' /\ sender'.at = "header" /\ sender'.file = 1 /\ sender'.block = 0
          BY <2>1, <2>5, <3>2 DEF Heading, Headers, Packets, PacketOf
        <4>2. Heading(1)'
          BY <2>1, <2>6, <4>1 DEF Heading, Greeting
        <4> QED  BY <4>1, <4>2 DEF Turn
      <3> QED  BY <2>1, <3>1, <3>2, TurnOf
    <2> QED  BY <2>5, <2>7, <2>8 DEF YmInv
  <1>2. CASE ~ (tries < Tries)
    <2>1. /\ rym_at = "invite" /\ rym_at' = "end" /\ result' = "ERROR"
          /\ UNCHANGED <<stage, disk, from, to, sender>>
      BY <1>2 DEF YM!Invite, YM!Fail, YM!End
    <2> QED  BY <2>1, FailKeeps DEF YmInv, YmTypes
  <1> QED  BY <1>1, <1>2

LEMMA InviteAgainKeeps ==
    ASSUME YmInv, YM!YmodemAssumption, YM!InviteAgain
    PROVE  YmInv'
  <1>1. /\ rym_at = "header" /\ rym_at' = "invite"
        /\ UNCHANGED <<stage, disk, result, to, from, sender>>
    BY DEF YM!InviteAgain
  <1>2. YmTypes' /\ ~ Failed
    BY <1>1, YmTypesSame DEF YmInv, YmTypes, Failed
  <1>3. Ordered'
    BY <1>1, <1>2, OrderedSame DEF YmInv
  <1>4. OnlyCalls(from)' = OnlyCalls(from)
    BY <1>1 DEF OnlyCalls
  <1>5. Turn'
    <2>1. CASE sender.at = "start" /\ Starting
      BY <1>1, <1>4, <2>1 DEF Turn, Starting
    <2>2. CASE sender.at = "header" /\ sender.file = 1 /\ Heading(1) /\ OnlyCalls(from)
      <3>1. Headers(to, 1)' /\ sender'.at = "header" /\ sender'.file = 1 /\ sender'.block = 0
        BY <1>1, <1>2, <2>2 DEF Heading, Headers, Packets, PacketOf
      <3>2. Heading(1)'
        BY <1>1, <1>4, <2>2, <3>1 DEF Heading, Greeting
      <3> QED  BY <3>1, <3>2 DEF Turn
    <2> QED  BY <1>1, <2>1, <2>2, TurnOf
  <1> QED  BY <1>2, <1>3, <1>5 DEF YmInv

\* A file is opened for a header.
LEMMA OnBeginKeeps ==
    ASSUME YmInv, YM!YmodemAssumption, NEW f, f = sender.file, f # 0,
           rym_at \in {"header", "last"}, sender.at = "header", Heading(f), OnlyCalls(from),
           YM!OnBegin(f), to # << >>, to' = Tail(to), sender' = sender
    PROVE  YmInv'
  <1> USE YmFile
  <1>1. YmTypes /\ Ordered /\ f \in YM!File /\ result = "none" /\ ~ Failed
    BY TurnOf DEF YmInv, YmTypes
  <1>2. CASE /\ cur_f' = f /\ disk' = [disk EXCEPT ![f] = << >>] /\ rym_at' = "ready"
             /\ UNCHANGED <<stage, result, from>>
    <2>1. disk'[f] = << >> /\ \A g \in YM!File : g # f => disk'[g] = disk[g]
      BY <1>1, <1>2 DEF YmTypes
    <2>2. \A g \in YM!File : g # f => YM!Received(g)' = YM!Received(g) /\ Whole(g)' = Whole(g)
      BY <2>1, ReceivedSame
    <2>3. to' \in Seq(AnyPacket) /\ Headers(to', f)
      BY <1>1, DropFirst, PacketsDrop DEF YmTypes, Heading, Headers
    <2>4. YmTypes'
      <3>1. YM!Received(f)' = << >> /\ Got(f, 0) = << >> /\ 0 \in 0 .. Length[f]
        <4>1. Got(f, 0) = << >> /\ 0 \in Nat
          BY GotIs, Zenon
        <4>2. disk'[f] = Got(f, 0)
          BY ONLY <2>1, <4>1
        <4>3. YM!Received(f)' = Got(f, 0)
          BY ONLY <4>1, <4>2, ReceivedAfter
        <4>4. Length[f] \in Nat
          BY <1>1
        <4> QED  BY ONLY <4>1, <4>3, <4>4
      <3>2. \A g \in YM!File : \E n \in 0 .. Length[g] : YM!Received(g)' = Got(g, n)
        BY <2>2, <3>1, <1>1 DEF YmTypes
      <3> QED  BY <1>1, <1>2, <2>3, <3>2 DEF YmTypes
    <2>5. Ordered'
      <3>1. sender'.file = f
        OBVIOUS
      <3>2. ASSUME NEW g \in YM!File, g < f PROVE Whole(g)'
        BY <1>1, <2>2, <3>2 DEF Ordered
      <3>3. ASSUME NEW g \in YM!File, f < g PROVE disk'[g] = << >>
        BY <1>1, <2>1, <3>3 DEF Ordered
      <3> QED  BY <3>1, <3>2, <3>3 DEF Ordered
    <2>6. Turn'
      <3>1. OnlyCalls(from)'
        BY <1>2 DEF OnlyCalls
      <3>2. Headers(to, f)'
        BY <2>3 DEF Headers, Packets, PacketOf
      <3>3. sender'.at = "header" /\ sender'.file = f /\ sender'.block = 0
        BY DEF Heading
      <3>4. Heading(f)'
        BY <1>2, <2>1, <3>1, <3>2, <3>3 DEF Heading
      <3> QED  BY <3>3, <3>4, Zenon DEF Turn
    <2> QED  BY <2>4, <2>5, <2>6 DEF YmInv
  <1>3. CASE rym_at' = "end" /\ result' = "ERROR" /\ UNCHANGED <<stage, disk, from>>
    BY <1>1, <1>3, FailKeeps DEF YmTypes
  <1> QED  BY <1>2, <1>3 DEF YM!OnBegin

LEMMA GetHeaderKeeps ==
    ASSUME YmInv, YM!YmodemAssumption, to # << >>, YM!GetHeader(Head(to))
    PROVE  YmInv'
  <1> DEFINE p == Head(to)
  <1>1. rym_at = "header" /\ to' = Tail(to) /\ sender' = sender
    BY DEF YM!GetHeader, YM!Get
  <1>2. sender.at = "header" /\ sender.file = 1 /\ Heading(1) /\ OnlyCalls(from) /\ ~ Failed
    BY <1>1, TurnOf DEF Starting
  <1>3. p \in PacketOf(1, 0)
    BY <1>2, PacketsDrop DEF YmInv, YmTypes, Heading, Headers
  <1>4. p # YM!EOT /\ p.data.block = 0 /\ p.data.file = 1
    BY <1>3, PacketIs
  <1> HIDE DEF p
  <1>5. YM!OnBegin(1) \/ YM!Fail
    <2>1. \/ p.state = "whole" /\ p.data.block = 0 /\ p.data.file # YM!None /\ YM!OnBegin(p.data.file)
          \/ YM!Fail
      BY <1>4 DEF YM!GetHeader, p
    <2> QED  BY <1>4, <2>1
  <1>6. CASE YM!OnBegin(1)
    BY <1>1, <1>2, <1>6, OnBeginKeeps
  <1>7. CASE YM!Fail
    <2>1. /\ rym_at' = "end" /\ result' = "ERROR" /\ disk' = disk /\ stage' = stage /\ from' = from
      BY <1>7 DEF YM!Fail, YM!End
    <2> QED  BY <1>1, <2>1, FailKeeps DEF YmInv, YmTypes
  <1> QED  BY <1>5, <1>6, <1>7

LEMMA ReadyKeeps ==
    ASSUME YmInv, YM!YmodemAssumption, YM!Ready
    PROVE  YmInv'
  <1>1. /\ rym_at = "ready" /\ rym_at' = "data" /\ stage' = "ESTABLISHED"
        /\ from' = from \o <<"ACK", "C">>
        /\ UNCHANGED <<disk, cur_f, result, to, sender>>
    BY DEF YM!Ready, YM!Put
  <1>2. /\ sender.at = "header" /\ Heading(sender.file) /\ OnlyCalls(from)
        /\ YmTypes /\ result = "none" /\ ~ Failed
    BY <1>1, TurnOf DEF YmInv, YmTypes
  <1>3. from' \in Seq({"C", "ACK", "NAK", "CAN"}) /\ Accepts(from')
    <2>1. from \in Seq({"C", "ACK", "NAK", "CAN"}) /\ Len(from) \in Nat
      BY <1>2 DEF YmTypes
    <2>2. /\ from' \in Seq({"C", "ACK", "NAK", "CAN"}) /\ Len(from') = Len(from) + 2
          /\ \A i \in 1 .. Len(from) : from'[i] = from[i]
          /\ from'[Len(from) + 1] = "ACK" /\ from'[Len(from) + 2] = "C"
      BY <1>1, <2>1
    <2> QED  BY <1>2, <2>1, <2>2 DEF Accepts, OnlyCalls
  <1>4. YmTypes'
    BY <1>1, <1>2, <1>3, YmTypesSame DEF YmTypes
  <1>5. Ordered'
    BY <1>1, <1>2, OrderedSame DEF YmInv
  <1>6. Turn'
    <2> DEFINE f == sender.file
    <2>1. f # 0 /\ sender.block = 0 /\ cur_f = f /\ disk[f] = << >> /\ Headers(to, f)
      BY <1>1, <1>2 DEF Heading, Greeting, Opened, Failed
    <2>2. Headers(to', f) /\ sender'.file = f
      BY <1>1, <2>1
    <2>3. Opened(f)'
      BY <1>1, <2>1 DEF Opened
    <2>4. Heading(f)'
      <3>1. Headers(to, f)' /\ Accepts(from)'
        BY <1>3, <2>2 DEF Headers, Packets, PacketOf, Accepts
      <3> QED  BY <1>1, <2>1, <2>3, <3>1 DEF Heading
    <2> QED  BY <1>1, <1>2, <2>2, <2>4 DEF Turn
  <1> QED  BY <1>4, <1>5, <1>6 DEF YmInv

\* A header that is read again is ignored, unless bytes of it are missing.
LEMMA HeaderAgain ==
    ASSUME YmInv, YM!YmodemAssumption, to # << >>,
           rym_at = "data", stage = "ESTABLISHED", Head(to) \in PacketOf(sender.file, 0),
           YM!GetData(Head(to)) \/ YM!GetEnd(Head(to))
    PROVE  YmInv'
  <1> DEFINE p == Head(to)
             f == sender.file
  <1>1. p # YM!EOT /\ p.data.block = 0
    BY PacketIs
  <1> HIDE DEF p
  <1>2. to' = Tail(to) /\ sender' = sender /\ YM!GetData(p)
    BY <1>1 DEF YM!GetData, YM!GetEnd, YM!Get, p
  <1>3. CASE p.state = "short"
    <2>1. /\ rym_at' = "end" /\ result' = "ERROR" /\ disk' = disk /\ stage' = stage /\ from' = from
      BY <1>2, <1>3 DEF YM!GetData, YM!Fail, YM!End
    <2> QED  BY <1>2, <2>1, FailKeeps DEF YmInv, YmTypes
  <1>4. CASE p.state # "short"
    <2>1. UNCHANGED <<rym_at, stage, disk, cur_f, result, from>>
      BY <1>1, <1>2, <1>4 DEF YM!GetData, YM!Repeated
    <2>2. YmTypes /\ result = "none" /\ ~ Failed /\ to \in Seq(AnyPacket)
      BY DEF YmInv, YmTypes, Failed
    <2>3. /\ to' \in Seq(AnyPacket) /\ \A g, last : Packets(to, g, last) => Packets(to', g, last)
      BY <1>2, <2>2, DropFirst, PacketsDrop
    <2>4. YmTypes'
      BY <1>2, <2>1, <2>2, <2>3, YmTypesSame DEF YmTypes
    <2>5. Ordered'
      BY <1>2, <2>1, <2>2, OrderedSame DEF YmInv
    <2>6. /\ Opened(f)' = Opened(f) /\ Accepts(from)' = Accepts(from)
          /\ Headers(to, f) => Headers(to, f)'
          /\ \A last : Packets(to, f, last) => Packets(to', f, last)
      <3>1. Opened(f)' = Opened(f) /\ Accepts(from)' = Accepts(from)
        BY <1>2, <2>1 DEF Opened, Accepts
      <3>2. \A last : Packets(to, f, last) => Packets(to', f, last)
        BY ONLY <2>3
      <3>3. Headers(to, f) => Headers(to', f)
        BY ONLY <3>2 DEF Headers
      <3>4. Headers(to', f) => Headers(to, f)'
        BY <1>2 DEF Headers, Packets, PacketOf
      <3> QED  BY ONLY <3>1, <3>2, <3>3, <3>4
    <2>7. Turn'
      <3>1. CASE sender.at = "header" /\ Heading(f) /\ Opened(f)
        <4>1. Headers(to, f) /\ f # 0 /\ sender.block = 0 /\ Accepts(from)
          BY <2>2, <3>1 DEF Heading, Greeting, Opened
        <4>2. Heading(f)'
          BY <1>2, <2>6, <3>1, <4>1 DEF Heading
        <4> QED  BY <1>2, <3>1, <4>2 DEF Turn
      <3>2. CASE sender.at = "go" /\ Going(f)
        <4>1. Headers(to, f) /\ f # 0 /\ sender.block = 0 /\ Opened(f) /\ from \in {<< >>, <<"C">>}
          BY <2>2, <3>2 DEF Going
        <4>2. Going(f)'
          BY <1>2, <2>1, <2>6, <4>1 DEF Going
        <4> QED  BY <1>2, <3>2, <4>2 DEF Turn
      <3>3. CASE sender.at = "block" /\ Blocking(f, sender.block)
        <4> DEFINE n == sender.block
        <4>1. /\ f # 0 /\ n \in 1 .. Length[f] /\ cur_f = f /\ from = << >>
              /\ Packets(to, f, PacketOf(f, n)) /\ disk[f] = Got(f, n - 1)
          BY <2>2, <3>3 DEF Blocking, Following
        <4>2. Packets(to', f, PacketOf(f, n))
          BY <2>6, <4>1
        <4>3. Following(f, PacketOf(f, n))'
          <5>1. Packets(to', f, PacketOf(f, n)) => Packets(to, f, PacketOf(f, n))'
            BY <1>2, Zenon DEF Packets, PacketOf
          <5>2. stage' = "ESTABLISHED"
            BY <2>1
          <5> QED  BY ONLY <4>2, <5>1, <5>2 DEF Following
        <4>4. Blocking(f, n)'
          BY <1>2, <2>1, <4>1, <4>3 DEF Blocking
        <4> QED  BY <1>2, <3>3, <4>4 DEF Turn
      <3>4. CASE sender.at = "end" /\ Ending(f)
        <4>1. /\ f # 0 /\ sender.block = Length[f] /\ cur_f = f /\ from = << >>
              /\ Packets(to, f, {YM!EOT}) /\ disk[f] = Got(f, Length[f])
          BY <2>2, <3>4 DEF Ending, Following
        <4>2. Packets(to', f, {YM!EOT})
          BY <2>6, <4>1
        <4>3. Following(f, {YM!EOT})'
          <5>1. Packets(to', f, {YM!EOT}) => Packets(to, f, {YM!EOT})'
            BY <1>2, Zenon DEF Packets, PacketOf
          <5>2. stage' = "ESTABLISHED"
            BY <2>1
          <5> QED  BY ONLY <4>2, <5>1, <5>2 DEF Following
        <4>4. Ending(f)'
          BY <1>2, <2>1, <4>1, <4>3 DEF Ending
        <4> QED  BY <1>2, <3>4, <4>4 DEF Turn
      <3> QED  BY <3>1, <3>2, <3>3, <3>4, TurnOf
    <2> QED  BY <2>4, <2>5, <2>7 DEF YmInv
  <1> QED  BY <1>3, <1>4

\* Only the file that is being sent grows.
LEMMA DiskGrows ==
    ASSUME YmTypes, Ordered, YM!YmodemAssumption, NEW f \in YM!File, NEW d,
           disk' = [disk EXCEPT ![f] = d], sender' = sender, sender.file = f,
           NEW n \in 0 .. Length[f], d = Got(f, n) \/ \E b : d = Append(Got(f, n), [tail |-> b])
    PROVE  /\ DOMAIN disk' = YM!File /\ disk'[f] = d /\ YM!Received(f)' = Got(f, n)
           /\ \A g \in YM!File : \E m \in 0 .. Length[g] : YM!Received(g)' = Got(g, m)
           /\ Ordered'
  <1> USE YmFile
  <1>1. DOMAIN disk' = YM!File /\ disk'[f] = d /\ \A g \in YM!File : g # f => disk'[g] = disk[g]
    BY DEF YmTypes
  <1>2. \A g \in YM!File : g # f => YM!Received(g)' = YM!Received(g) /\ Whole(g)' = Whole(g)
    BY <1>1, ReceivedSame
  <1>3. YM!Received(f)' = Got(f, n)
    <2>1. n \in Nat
      OBVIOUS
    <2>2. CASE d = Got(f, n)
      <3>1. disk'[f] = Got(f, n)
        BY <1>1, <2>2
      <3> QED  BY <2>1, <3>1, ReceivedAfter
    <2>3. CASE \E b : d = Append(Got(f, n), [tail |-> b])
      <3>1. PICK b : disk'[f] = Append(Got(f, n), [tail |-> b])
        BY <1>1, <2>3, Zenon
      <3> QED  BY <2>1, <3>1, ReceivedAfter, Zenon
    <2> QED  BY <2>2, <2>3, Zenon
  <1>4. \A g \in YM!File : \E m \in 0 .. Length[g] : YM!Received(g)' = Got(g, m)
    BY <1>2, <1>3 DEF YmTypes
  <1>5. Ordered'
    <2>1. f \in Nat /\ f # 0 /\ sender'.file = f
      <3>1. f \in 1 .. Len(Length) /\ Len(Length) \in Nat
        BY YmFile
      <3>2. sender'.file = f
        OBVIOUS
      <3> QED  BY ONLY <3>1, <3>2
    <2>2. ASSUME NEW g \in YM!File, g < f PROVE Whole(g)'
      BY <1>2, <2>1, <2>2 DEF Ordered
    <2>3. ASSUME NEW g \in YM!File, f < g PROVE disk'[g] = << >>
      BY <1>1, <2>1, <2>3 DEF Ordered
    <2> QED  BY <2>1, <2>2, <2>3 DEF Ordered
  <1> QED  BY <1>1, <1>3, <1>4, <1>5

LEMMA GetDataKeeps ==
    ASSUME YmInv, YM!YmodemAssumption, to # << >>, YM!GetData(Head(to))
    PROVE  YmInv'
  <1> USE YmFile
  <1> DEFINE p == Head(to)
             f == sender.file
             n == sender.block
  <1>1. rym_at = "data" /\ to' = Tail(to) /\ sender' = sender /\ p # YM!EOT
    BY DEF YM!GetData, YM!Get
  <1>2. YmTypes /\ result = "none" /\ ~ Failed /\ to \in Seq(AnyPacket) /\ Ordered
    BY <1>1 DEF YmInv, YmTypes, Failed
  <1>3. \A last : Packets(to, f, last) => p \in IF Len(to) = 1 THEN last ELSE PacketOf(f, 0)
    BY <1>2, PacketsDrop
  <1>4. Len(to) \in Nat \ {0} /\ (Len(to) = 1 => Tail(to) = << >>)
    BY <1>2, DropFirst
  <1> HIDE DEF p
  <1>5. \/ stage = "ESTABLISHED" /\ p \in PacketOf(f, 0)
        \/ sender.at = "block" /\ Blocking(f, n) /\ Len(to) = 1 /\ p \in PacketOf(f, n)
    <2>1. CASE sender.at = "header" /\ Heading(f) /\ Opened(f)
      BY <1>2, <1>3, <2>1 DEF Heading, Headers, Opened
    <2>2. CASE sender.at = "go" /\ Going(f)
      BY <1>2, <1>3, <2>2 DEF Going, Headers, Opened
    <2> HIDE DEF f, n
    <2>e. to # << >> /\ p # YM!EOT /\ rym_at = "data"
      BY <1>1
    <2>3. CASE sender.at = "block" /\ Blocking(f, n)
      <3>1. Packets(to, f, PacketOf(f, n)) /\ (stage = "ESTABLISHED" \/ Len(to) <= 1)
        BY ONLY <1>2, <2>e, <2>3 DEF Blocking, Following
      <3>2. p \in IF Len(to) = 1 THEN PacketOf(f, n) ELSE PacketOf(f, 0)
        BY ONLY <1>3, <3>1
      <3>3. Len(to) = 1 \/ (Len(to) # 1 /\ stage = "ESTABLISHED")
        <4>1. Len(to) \in Nat \ {0}
          BY ONLY <1>4
        <4>2. Len(to) <= 1 => Len(to) = 1
          BY ONLY SMTT(40), <4>1
        <4> QED  BY ONLY <3>1, <4>2
      <3> QED  BY ONLY <2>3, <3>2, <3>3
    <2>4. CASE sender.at = "end" /\ Ending(f)
      <3>1. Packets(to, f, {YM!EOT}) /\ (stage = "ESTABLISHED" \/ Len(to) <= 1)
        BY ONLY <1>2, <2>e, <2>4 DEF Ending, Following
      <3>2. p \in IF Len(to) = 1 THEN {YM!EOT} ELSE PacketOf(f, 0)
        BY ONLY <1>3, <3>1
      <3>3. Len(to) = 1 \/ (Len(to) # 1 /\ stage = "ESTABLISHED")
        <4>1. Len(to) \in Nat \ {0}
          BY ONLY <1>4
        <4>2. Len(to) <= 1 => Len(to) = 1
          BY ONLY SMTT(40), <4>1
        <4> QED  BY ONLY <3>1, <4>2
      <3> QED  BY ONLY <2>e, <3>2, <3>3
    <2> QED  BY <1>1, <2>1, <2>2, <2>3, <2>4, TurnOf DEF f, n
  <1>6. CASE stage = "ESTABLISHED" /\ p \in PacketOf(f, 0)
    BY <1>1, <1>6, HeaderAgain DEF p
  <1>7. CASE sender.at = "block" /\ Blocking(f, n) /\ Len(to) = 1 /\ p \in PacketOf(f, n)
    <2>1. /\ f \in YM!File /\ f # 0 /\ n \in 1 .. Length[f] /\ cur_f = f /\ from = << >>
          /\ disk[f] = Got(f, n - 1) /\ to' = << >> /\ n \in Nat \ {0}
      BY <1>1, <1>2, <1>4, <1>7 DEF Blocking, YmTypes
    <2>2. p.data = YM!Payload(f, n) /\ ~ YM!Repeated(p)
      BY <1>7, <2>1, PacketIs DEF YM!Repeated
    <2>3. \/ YM!Fail
          \/ YM!End("ERROR") /\ stage' = "TRANSMITTING" /\ UNCHANGED from
          \/ /\ disk' = [disk EXCEPT ![cur_f] = Append(@, p.data)]
             /\ stage' = "TRANSMITTING" /\ YM!Put(<<"ACK">>)
             /\ UNCHANGED <<rym_at, tries, cur_f, result>>
          \/ YM!End("ERROR") /\ stage' = "TRANSMITTING" /\ YM!Put(<<"CAN">>)
      BY <2>2 DEF YM!GetData, p
    <2>4. CASE YM!Fail \/ (YM!End("ERROR") /\ stage' = "TRANSMITTING" /\ UNCHANGED from)
      <3>1. /\ rym_at' = "end" /\ result' = "ERROR" /\ disk' = disk /\ from' = from
            /\ stage' \in {stage, "TRANSMITTING"}
        BY <2>4 DEF YM!Fail, YM!End
      <3> QED  BY <1>1, <1>2, <3>1, FailKeeps DEF YmTypes
    <2>5. CASE /\ disk' = [disk EXCEPT ![cur_f] = Append(@, p.data)]
               /\ stage' = "TRANSMITTING" /\ YM!Put(<<"ACK">>)
               /\ UNCHANGED <<rym_at, tries, cur_f, result>>
      <3>1. from' = <<"ACK">> /\ disk' = [disk EXCEPT ![f] = Got(f, n)]
        <4>1. Append(disk[f], p.data) = Got(f, n)
          BY <2>1, <2>2, GotNext
        <4>2. cur_f = f /\ from = << >>
          BY ONLY <2>1
        <4>3. disk' = [disk EXCEPT ![f] = Append(disk[f], p.data)]
          BY ONLY <2>5, <4>2
        <4>4. from' = << >> \o <<"ACK">>
          BY ONLY <2>5, <4>2 DEF YM!Put
        <4>5. from' = <<"ACK">>
          BY ONLY <4>4
        <4> QED  BY ONLY <4>1, <4>3, <4>5
      <3>2. n \in 0 .. Length[f]
        BY <2>1
      <3>3. /\ DOMAIN disk' = YM!File /\ disk'[f] = Got(f, n)
            /\ \A g \in YM!File : \E m \in 0 .. Length[g] : YM!Received(g)' = Got(g, m)
            /\ Ordered'
        BY <1>1, <1>2, <2>1, <3>1, <3>2, DiskGrows, Zenon
      <3>4. YmTypes'
        <4>1. from' \in Seq({"C", "ACK", "NAK", "CAN"}) /\ to' \in Seq(AnyPacket)
          BY <2>1, <3>1
        <4> QED  BY <1>1, <1>2, <2>5, <3>3, <4>1 DEF YmTypes
      <3>5. Blocking(f, n)'
        BY <1>1, <2>1, <2>5, <3>1, <3>3 DEF Blocking
      <3> QED  BY <1>1, <1>7, <3>3, <3>4, <3>5 DEF YmInv, Turn
    <2>6. CASE YM!End("ERROR") /\ stage' = "TRANSMITTING" /\ YM!Put(<<"CAN">>)
      <3>1. rym_at' = "end" /\ result' = "ERROR" /\ disk' = disk /\ from' = <<"CAN">>
        BY <2>1, <2>6 DEF YM!End, YM!Put
      <3>2. from' \in Seq({"C", "ACK", "NAK", "CAN"}) /\ to' \in Seq(AnyPacket)
        BY <2>1, <3>1
      <3>3. YmTypes'
        BY <1>1, <1>2, <2>6, <3>1, <3>2, YmTypesSame DEF YmTypes
      <3>4. Failed'
        BY <3>1 DEF Failed
      <3>5. Blocking(f, n)'
        BY <1>1, <2>1, <3>1, <3>4 DEF Blocking
      <3> QED  BY <1>1, <1>7, <3>3, <3>4, <3>5 DEF YmInv, Turn
    <2> QED  BY <2>3, <2>4, <2>5, <2>6
  <1> QED  BY <1>5, <1>6, <1>7

LEMMA GetEndKeeps ==
    ASSUME YmInv, YM!YmodemAssumption, to # << >>, YM!GetEnd(Head(to))
    PROVE  YmInv'
  <1> USE YmFile
  <1> DEFINE p == Head(to)
             f == sender.file
  <1>1. /\ rym_at = "data" /\ to' = Tail(to) /\ sender' = sender /\ p = YM!EOT
        /\ \/ disk' = [disk EXCEPT ![cur_f] = Append(@, [tail |-> buf])]
           \/ disk' = disk
        /\ stage' = "FINISHING" /\ rym_at' = "second" /\ from' = from \o <<"NAK">>
        /\ result' = result
    BY DEF YM!GetEnd, YM!Get, YM!Put
  <1>2. YmTypes /\ result = "none" /\ ~ Failed /\ to \in Seq(AnyPacket) /\ Ordered
    BY <1>1 DEF YmInv, YmTypes, Failed
  <1>3. \A last : Packets(to, f, last) => p \in IF Len(to) = 1 THEN last ELSE PacketOf(f, 0)
    BY <1>2, PacketsDrop
  <1>4. Len(to) \in Nat \ {0} /\ (Len(to) = 1 => Tail(to) = << >>)
    BY <1>2, DropFirst
  <1> HIDE DEF p
  <1>5. \A b : p \notin PacketOf(f, b)
    BY <1>1, PacketIs
  <1>6. sender.at = "end" /\ Ending(f) /\ Len(to) = 1
    <2>1. ~ (sender.at = "header" /\ Heading(f) /\ Opened(f))
      BY <1>2, <1>3, <1>5 DEF Heading, Headers
    <2>2. ~ (sender.at = "go" /\ Going(f))
      BY <1>2, <1>3, <1>5 DEF Going, Headers
    <2>3. ~ (sender.at = "block" /\ Blocking(f, sender.block))
      BY <1>2, <1>3, <1>4, <1>5 DEF Blocking, Following
    <2>4. sender.at = "end" /\ Ending(f)
      BY <1>1, <2>1, <2>2, <2>3, TurnOf
    <2> QED  BY <1>1, <1>2, <1>3, <1>5, <2>4 DEF Ending, Following
  <1>7. /\ f \in YM!File /\ f # 0 /\ sender.block = Length[f] /\ cur_f = f /\ from = << >>
        /\ disk[f] = Got(f, Length[f]) /\ to' = << >> /\ Length[f] \in 0 .. Length[f]
    BY <1>1, <1>2, <1>4, <1>6 DEF Ending, YmTypes
  <1>8. /\ DOMAIN disk' = YM!File /\ Whole(f)'
        /\ \A g \in YM!File : \E m \in 0 .. Length[g] : YM!Received(g)' = Got(g, m)
        /\ Ordered'
    <2>1. CASE disk' = [disk EXCEPT ![cur_f] = Append(@, [tail |-> buf])]
      <3>1. disk' = [disk EXCEPT ![f] = Append(Got(f, Length[f]), [tail |-> buf])]
        BY <1>7, <2>1, Zenon
      <3>2. /\ DOMAIN disk' = YM!File /\ YM!Received(f)' = Got(f, Length[f])
            /\ \A g \in YM!File : \E m \in 0 .. Length[g] : YM!Received(g)' = Got(g, m)
            /\ Ordered'
        BY <1>1, <1>2, <1>7, <3>1, DiskGrows, Zenon
      <3>3. Whole(f)' <=> YM!Received(f)' = Got(f, Length[f])
        BY <1>1 DEF Whole, Got, YM!Payload
      <3> QED  BY ONLY <3>2, <3>3
    <2>2. CASE disk' = disk
      <3>1. \A g \in YM!File : YM!Received(g)' = YM!Received(g)
        BY <2>2, ReceivedSame
      <3>2. YM!Received(f) = Got(f, Length[f])
        BY <1>7, ReceivedIs
      <3>3. Ordered'
        BY <1>1, <1>2, <2>2, OrderedSame
      <3>4. DOMAIN disk' = YM!File
        BY <1>2, <2>2 DEF YmTypes
      <3>5. \A g \in YM!File : \E m \in 0 .. Length[g] : YM!Received(g) = Got(g, m)
        BY <1>2 DEF YmTypes
      <3>6. Whole(f)' <=> YM!Received(f)' = Got(f, Length[f])
        BY <1>1 DEF Whole, Got, YM!Payload
      <3>7. YM!Received(f)' = YM!Received(f)
        BY <1>1, <2>2 DEF YM!Received
      <3> QED  BY ONLY <3>1, <3>2, <3>3, <3>4, <3>5, <3>6, <3>7
    <2> QED  BY <1>1, <2>1, <2>2
  <1>9. from' = <<"NAK">>
    BY <1>1, <1>7
  <1>10. YmTypes'
    <2>1. from' \in Seq({"C", "ACK", "NAK", "CAN"}) /\ to' \in Seq(AnyPacket)
      BY <1>7, <1>9
    <2> QED  BY <1>1, <1>2, <1>8, <2>1 DEF YmTypes
  <1>11. Ending(f)'
    BY <1>1, <1>7, <1>8, <1>9 DEF Ending
  <1> QED  BY <1>1, <1>6, <1>8, <1>10, <1>11 DEF YmInv, Turn

LEMMA GetSecondEndKeeps ==
    ASSUME YmInv, YM!YmodemAssumption, to # << >>, YM!GetSecondEnd(Head(to))
    PROVE  YmInv'
  <1> USE YmFile
  <1> DEFINE p == Head(to)
             f == sender.file
  <1>1. rym_at = "second" /\ to' = Tail(to) /\ sender' = sender
    BY DEF YM!GetSecondEnd, YM!Get
  <1>2. YmTypes /\ result = "none" /\ ~ Failed /\ to \in Seq(AnyPacket) /\ Ordered
    BY <1>1 DEF YmInv, YmTypes, Failed
  <1>3. sender.at = "second end" /\ EndingAgain(f) /\ to = <<YM!EOT>>
    BY <1>1, <1>2, TurnOf, Zenon DEF EndingAgain
  <1>4. p = YM!EOT /\ to' = << >> /\ from = << >> /\ f # 0 /\ sender.block = Length[f] /\ Whole(f)
    <2>1. PICK eot : eot = YM!EOT
      OBVIOUS
    <2>2. to = <<eot>>
      BY ONLY <1>3, <2>1, Zenon
    <2>3. p = eot /\ to' = << >>
      BY <1>1, <2>2
    <2>4. from = << >> /\ f # 0 /\ sender.block = Length[f] /\ Whole(f)
      BY <1>1, <1>2, <1>3, Zenon DEF EndingAgain
    <2> QED  BY ONLY <2>1, <2>3, <2>4
  <1>5. /\ from' = <<"ACK", "C">> /\ rym_at' = "last"
        /\ UNCHANGED <<stage, tries, disk, cur_f, result>>
    BY <1>4 DEF YM!GetSecondEnd, YM!Put
  <1>6. YmTypes'
    <2>1. from' \in Seq({"C", "ACK", "NAK", "CAN"}) /\ to' \in Seq(AnyPacket)
      BY <1>4, <1>5
    <2> QED  BY <1>1, <1>2, <1>5, <2>1, YmTypesSame DEF YmTypes
  <1>7. Ordered'
    BY <1>1, <1>2, <1>5, OrderedSame
  <1>8. EndingAgain(f)'
    <2>1. Whole(f)'
      <3>1. PICK g : g = f
        OBVIOUS
      <3>2. disk'[g] = disk[g]
        BY ONLY <1>5
      <3>3. Whole(g)' <=> Whole(g)
        BY ONLY <3>2, ReceivedSame
      <3>4. Whole(g)' <=> Whole(f)'
        BY <1>1, <3>1 DEF Whole, YM!Received
      <3> QED  BY ONLY <1>4, <3>1, <3>3, <3>4
    <2> QED  BY <1>1, <1>4, <1>5, <2>1 DEF EndingAgain
  <1> QED  BY <1>1, <1>3, <1>6, <1>7, <1>8, Zenon DEF YmInv, Turn

LEMMA GetLastKeeps ==
    ASSUME YmInv, YM!YmodemAssumption, to # << >>, YM!GetLast(Head(to))
    PROVE  YmInv'
  <1> USE YmFile
  <1> DEFINE p == Head(to)
             f == sender.file
  <1>1. rym_at = "last" /\ to' = Tail(to) /\ sender' = sender
    BY DEF YM!GetLast, YM!Get
  <1>2. YmTypes /\ result = "none" /\ ~ Failed /\ to \in Seq(AnyPacket) /\ Ordered
    BY <1>1 DEF YmInv, YmTypes, Failed
  <1>3. sender.at = "header" /\ (Heading(f) \/ Closing) /\ OnlyCalls(from)
    BY <1>1, TurnOf
  <1>4. Headers(to, f) /\ sender.block = 0
    BY <1>2, <1>3 DEF Heading, Closing
  <1>5. p \in PacketOf(f, 0)
    BY <1>2, <1>4, PacketsDrop DEF Headers
  <1>6. p # YM!EOT /\ p.data.block = 0 /\ p.data.file = f
    BY <1>5, PacketIs
  <1> HIDE DEF p
  <1>7. \/ YM!Fail
        \/ f # 0 /\ YM!OnBegin(f)
        \/ f = 0 /\ YM!End("EOK") /\ stage' = "FINISHED" /\ YM!Put(<<"ACK">>)
    <2>1. \/ YM!Fail
          \/ p.data.file # 0 /\ YM!OnBegin(p.data.file)
          \/ p.data.file = 0 /\ YM!End("EOK") /\ stage' = "FINISHED" /\ YM!Put(<<"ACK">>)
      BY <1>6 DEF YM!GetLast, YM!None, p
    <2> QED  BY <1>6, <2>1
  <1>8. CASE YM!Fail
    <2>1. /\ rym_at' = "end" /\ result' = "ERROR" /\ disk' = disk /\ stage' = stage /\ from' = from
      BY <1>8 DEF YM!Fail, YM!End
    <2> QED  BY <1>1, <1>2, <2>1, FailKeeps DEF YmTypes
  <1>9. CASE f # 0 /\ YM!OnBegin(f)
    <2>1. Heading(f)
      BY <1>3, <1>9 DEF Closing
    <2> QED  BY <1>1, <1>3, <1>9, <2>1, OnBeginKeeps
  <1>10. CASE f = 0 /\ YM!End("EOK") /\ stage' = "FINISHED" /\ YM!Put(<<"ACK">>)
    <2>1. /\ rym_at' = "end" /\ result' = "EOK" /\ stage' = "FINISHED" /\ disk' = disk
          /\ from' = from \o <<"ACK">>
      BY <1>10 DEF YM!End, YM!Put
    <2>2. from' \in Seq({"C", "ACK", "NAK", "CAN"}) /\ Ends(from')
      <3>1. from \in Seq({"C", "ACK", "NAK", "CAN"}) /\ Len(from) \in Nat
        BY <1>2 DEF YmTypes
      <3>2. /\ from' \in Seq({"C", "ACK", "NAK", "CAN"}) /\ Len(from') = Len(from) + 1
            /\ \A i \in 1 .. Len(from) : from'[i] = from[i]
            /\ from'[Len(from) + 1] = "ACK"
        BY <2>1, <3>1
      <3> QED  BY <1>3, <3>1, <3>2 DEF Ends, OnlyCalls
    <2>3. to' \in Seq(AnyPacket) /\ Headers(to', 0)
      BY <1>1, <1>2, <1>4, <1>10, DropFirst, PacketsDrop DEF Headers
    <2>4. YmTypes'
      BY <1>1, <1>2, <2>1, <2>2, <2>3, YmTypesSame DEF YmTypes
    <2>5. Ordered'
      BY <1>1, <1>2, <2>1, OrderedSame
    <2>6. Closing'
      <3>1. Headers(to, 0)' /\ Ends(from)'
        BY <2>2, <2>3 DEF Headers, Packets, PacketOf, Ends
      <3> QED  BY <1>1, <1>4, <1>10, <2>1, <3>1 DEF Closing
    <2> QED  BY <1>1, <1>3, <2>4, <2>5, <2>6 DEF YmInv, Turn
  <1> QED  BY <1>7, <1>8, <1>9, <1>10

LEMMA WaitExpiresKeeps ==
    ASSUME YmInv, YM!WaitExpires
    PROVE  YmInv'
  <1>1. /\ rym_at # "end" /\ rym_at' = "end" /\ result' = "ERROR"
        /\ UNCHANGED <<disk, stage, from, to, sender>>
    BY DEF YM!WaitExpires, YM!Fail, YM!End
  <1> QED  BY <1>1, FailKeeps DEF YmInv, YmTypes

-----------------------------------------------------------------------------
(* The sender and the line *)

LEMMA CodesDrop ==
    ASSUME YmTypes, from # << >>
    PROVE  /\ Head(from) \in {"C", "ACK", "NAK", "CAN"}
           /\ Tail(from) \in Seq({"C", "ACK", "NAK", "CAN"})
           /\ OnlyCalls(from) => Head(from) = "C" /\ OnlyCalls(Tail(from))
           /\ Accepts(from) => /\ Accepts(Tail(from)) /\ Head(from) \in {"C", "ACK"}
                               /\ Head(from) = "ACK" => Tail(from) = <<"C">>
           /\ Ends(from) => /\ Ends(Tail(from)) /\ Head(from) \in {"C", "ACK"}
                            /\ Head(from) = "ACK" => Tail(from) = << >>
  <1> DEFINE S == {"C", "ACK", "NAK", "CAN"}
             t == Tail(from)
  <1>1. from \in Seq(S)
    BY DEF YmTypes
  <1> HIDE DEF S
  <1>2. /\ Head(from) = from[1] /\ Head(from) \in S /\ Len(from) \in Nat \ {0}
        /\ t \in Seq(S) /\ Len(t) = Len(from) - 1
        /\ \A i \in 1 .. Len(t) : t[i] = from[i + 1]
        /\ Len(from) = 1 => t = << >>
    BY <1>1, DropFirst
  <1>3. \A i \in 1 .. Len(t) : i + 1 \in 1 .. Len(from) /\ t[i] = from[i + 1]
    BY <1>2
  <1>4. 1 \in 1 .. Len(from)
    BY <1>2
  <1> HIDE DEF t
  <1>5. OnlyCalls(from) => Head(from) = "C" /\ OnlyCalls(t)
    BY <1>2, <1>3, <1>4 DEF OnlyCalls
  <1>6. ASSUME Accepts(from)
        PROVE  Accepts(t) /\ Head(from) \in {"C", "ACK"} /\ (Head(from) = "ACK" => t = <<"C">>)
    <2>1. Accepts(t)
      BY <1>2, <1>3, <1>6 DEF Accepts
    <2>2. from[1] = IF 1 = Len(from) - 1 THEN "ACK" ELSE "C"
      BY <1>4, <1>6, Zenon DEF Accepts
    <2>3. Head(from) = "ACK" => Len(t) = 1 /\ t[1] = "C"
      BY <1>2, <2>1, <2>2 DEF Accepts
    <2>4. Len(t) = 1 /\ t[1] = "C" => t = <<"C">>
      BY <1>2
    <2> QED  BY <1>2, <2>1, <2>2, <2>3, <2>4
  <1>7. ASSUME Ends(from)
        PROVE  Ends(t) /\ Head(from) \in {"C", "ACK"} /\ (Head(from) = "ACK" => t = << >>)
    <2>1. Ends(t)
      BY <1>2, <1>3, <1>7 DEF Ends
    <2>2. from[1] = IF 1 = Len(from) THEN "ACK" ELSE "C"
      BY <1>4, <1>7, Zenon DEF Ends
    <2> QED  BY <1>2, <2>1, <2>2
  <1> QED  BY <1>2, <1>5, <1>6, <1>7 DEF S, t

LEMMA OneCode ==
    ASSUME NEW x, NEW s, s = <<x>>
    PROVE  Head(s) = x /\ Tail(s) = << >>
  OBVIOUS

LEMMA TwoCodes ==
    ASSUME NEW x, NEW y, NEW s, s = <<x, y>>
    PROVE  Head(s) = x /\ Tail(s) = <<y>>
  OBVIOUS

\* Packets that are sent or read are the same before and after.
LEMMA PacketsThen ==
    /\ \A f, n : Packets(to', f, PacketOf(f, n)) <=> Packets(to, f, PacketOf(f, n))'
    /\ \A f : Packets(to', f, {YM!EOT}) <=> Packets(to, f, {YM!EOT})'
    /\ \A f : Headers(to', f) <=> Headers(to, f)'
  BY DEF Packets, PacketOf, Headers

\* What a code that is read, or lost, leaves on the line suits the turn.
LEMMA LoseCodeKeeps ==
    ASSUME YmInv, from # << >>, from' = Tail(from),
           UNCHANGED <<rym_at, stage, disk, cur_f, result, to, sender>>
    PROVE  YmInv'
  <1> DEFINE f == sender.file
  <1>1. YmTypes
    BY DEF YmInv
  <1>2. /\ from' \in Seq({"C", "ACK", "NAK", "CAN"})
        /\ OnlyCalls(from) => OnlyCalls(from)'
        /\ Accepts(from) => Accepts(from)'
        /\ Ends(from) => Ends(from)'
    BY <1>1, CodesDrop DEF OnlyCalls, Accepts, Ends
  <1>3. YmTypes'
    BY <1>1, <1>2, YmTypesSame DEF YmTypes
  <1>4. (Failed \/ Ordered)'
    BY <1>1, OrderedSame DEF YmInv, Failed
  <1>5. /\ \A g : Headers(to, g)' = Headers(to, g)
        /\ \A g, last : Packets(to, g, last) = Packets(to', g, last)
        /\ \A g : Whole(g)' = Whole(g)
    BY ReceivedSame DEF Headers, Packets, PacketOf
  <1>6. from = <<"C">> \/ from = <<"ACK">> \/ from = <<"NAK">> \/ from = <<"CAN">> => from' = << >>
    <2>1. \A x : Tail(<<x>>) = << >>
      OBVIOUS
    <2>2. from' = Tail(from)
      OBVIOUS
    <2> QED  BY ONLY <2>1, <2>2, Zenon
  <1>7. from = <<"ACK", "C">> => from' = <<"C">>
    OBVIOUS
  <1>8. Turn'
    <2>1. CASE sender.at = "start" /\ Starting
      BY <1>2, <2>1 DEF Turn, Starting, Failed
    <2>2. CASE sender.at = "header" /\ Heading(f)
      <3>1. Heading(f)'
        BY <1>2, <1>5, <2>2 DEF Heading, Opened, Failed
      <3> QED  BY <2>2, <3>1 DEF Turn
    <2>3. CASE sender.at = "header" /\ Closing
      <3>1. Closing'
        BY <1>2, <1>5, <2>3 DEF Closing, Failed
      <3> QED  BY <2>3, <3>1 DEF Turn
    <2>4. CASE sender.at = "go" /\ Going(f)
      <3>1. Going(f)'
        BY <1>5, <1>6, <2>4 DEF Going, Opened, Failed
      <3> QED  BY <2>4, <3>1 DEF Turn
    <2>5. CASE sender.at = "block" /\ Blocking(f, sender.block)
      <3>1. Blocking(f, sender.block)'
        BY <1>6, <2>5 DEF Blocking, Failed
      <3> QED  BY <2>5, <3>1 DEF Turn
    <2>6. CASE sender.at = "end" /\ Ending(f)
      <3>1. Ending(f)'
        BY <1>5, <1>6, <2>6 DEF Ending, Failed
      <3> QED  BY <2>6, <3>1 DEF Turn
    <2>7. CASE sender.at = "second end" /\ EndingAgain(f)
      <3>1. EndingAgain(f)'
        BY <1>5, <1>6, <1>7, <2>7, Zenon DEF EndingAgain, Failed
      <3> QED  BY <2>7, <3>1, Zenon DEF Turn
    <2>8. CASE sender.at = "next" /\ Passing(f)
      <3>1. Passing(f)'
        BY <1>5, <1>6, <2>8 DEF Passing, Failed
      <3> QED  BY <2>8, <3>1 DEF Turn
    <2> QED
      BY <2>1, <2>2, <2>3, <2>4, <2>5, <2>6, <2>7, <2>8, Zenon DEF YmInv, Turn
  <1> QED  BY <1>3, <1>4, <1>8 DEF YmInv

\* The types, after the sender has read a code.
LEMMA SenderTypes ==
    ASSUME YmTypes, from # << >>, from' = Tail(from), UNCHANGED YM!recvVars,
           to' \in Seq(AnyPacket),
           sender' \in [at : SenderAt, file : 0 .. Len(Length), block : Nat]
    PROVE  YmTypes'
  <1>1. UNCHANGED <<rym_at, stage, disk, result>>
    BY DEF YM!recvVars
  <1>2. from' \in Seq({"C", "ACK", "NAK", "CAN"})
    BY CodesDrop
  <1>3. \A f \in YM!File : YM!Received(f)' = YM!Received(f)
    BY <1>1, ReceivedSame
  <1> QED  BY <1>1, <1>2, <1>3 DEF YmTypes

LEMMA AwaitIs ==
    ASSUME YmTypes, NEW at \in SenderAt, YM!Await(at)
    PROVE  /\ to' = to /\ sender'.at = at /\ sender'.file = sender.file
           /\ sender'.block = sender.block
           /\ sender' \in [at : SenderAt, file : 0 .. Len(Length), block : Nat]
           /\ to' \in Seq(AnyPacket)
  BY DEF YM!Await, YmTypes

LEMMA SendBlockIs ==
    ASSUME YmTypes, NEW at \in SenderAt, NEW f \in 0 .. Len(Length), NEW n \in Nat,
           YM!SendBlock(at, f, n)
    PROVE  /\ sender'.at = at /\ sender'.file = f /\ sender'.block = n
           /\ sender' \in [at : SenderAt, file : 0 .. Len(Length), block : Nat]
           /\ to' \in Seq(AnyPacket)
           /\ Headers(to, f) => Packets(to', f, PacketOf(f, n))
           /\ to = << >> => Packets(to', f, PacketOf(f, n)) /\ Len(to') = 1
  <1> DEFINE p == YM!Packet(f, n)
  <1>1. to' = Append(to, p) /\ sender' = [at |-> at, file |-> f, block |-> n]
    BY DEF YM!SendBlock
  <1>2. p \in PacketOf(f, n) /\ p \in AnyPacket
    BY PacketSent
  <1> HIDE DEF p
  <1>3. to \in Seq(AnyPacket)
    BY DEF YmTypes
  <1>4. to' \in Seq(AnyPacket)
    BY <1>1, <1>2, <1>3
  <1>5. Headers(to, f) => Packets(to', f, PacketOf(f, n))
    BY <1>1, <1>2, <1>3, PacketsAppend
  <1>6. to = << >> => Packets(to', f, PacketOf(f, n)) /\ Len(to') = 1
    BY <1>1, <1>2, OnePacket
  <1> QED  BY <1>1, <1>4, <1>5, <1>6

LEMMA SendEndIs ==
    ASSUME YmTypes, NEW at \in SenderAt, YM!SendEnd(at)
    PROVE  /\ sender'.at = at /\ sender'.file = sender.file /\ sender'.block = sender.block
           /\ sender' \in [at : SenderAt, file : 0 .. Len(Length), block : Nat]
           /\ to' \in Seq(AnyPacket)
           /\ \A f : Headers(to, f) => Packets(to', f, {YM!EOT})
           /\ to = << >> => /\ to' = <<YM!EOT>> /\ Len(to') = 1
                            /\ \A f : Packets(to', f, {YM!EOT})
  <1> DEFINE p == YM!EOT
  <1>1. /\ to' = Append(to, p) /\ sender' = [sender EXCEPT !.at = at]
        /\ sender \in [at : SenderAt, file : 0 .. Len(Length), block : Nat]
        /\ to \in Seq(AnyPacket)
    BY DEF YM!SendEnd, YmTypes
  <1>2. p \in {p} /\ p \in AnyPacket
    BY DEF AnyPacket
  <1> HIDE DEF p
  <1>4. to' \in Seq(AnyPacket)
    BY <1>1, <1>2
  <1>5. \A f : Headers(to, f) => Packets(to', f, {p})
    BY <1>1, <1>2, PacketsAppend
  <1>6. to = << >> => to' = <<p>> /\ Len(to') = 1 /\ \A f : Packets(to', f, {p})
    BY <1>1, <1>2, OnePacket
  <1>7. /\ sender'.at = at /\ sender'.file = sender.file /\ sender'.block = sender.block
        /\ sender' \in [at : SenderAt, file : 0 .. Len(Length), block : Nat]
    BY <1>1
  <1> QED  BY <1>4, <1>5, <1>6, <1>7, Zenon DEF p

\* What the sender does with code c.
LEMMA AnswerIs ==
    ASSUME YM!Answer
    PROVE  LET c  == Head(from)
               at == sender.at
           IN  /\ from # << >> /\ from' = Tail(from) /\ UNCHANGED YM!recvVars
               /\ at = "start" /\ c = "C" => YM!SendBlock("header", 1, 0)
               /\ at = "header" /\ c = "C" => YM!SendAgain
               /\ at = "header" /\ c = "ACK" =>
                    YM!Await(IF sender.file = 0 THEN "done" ELSE "go")
               /\ at = "go" /\ c = "C" => YM!SendNext
               /\ at = "block" /\ c = "ACK" => YM!SendNext
               /\ at = "block" /\ c = "CAN" => YM!Await("stopped")
               /\ at = "end" /\ c = "NAK" => YM!SendEnd("second end")
               /\ at = "second end" /\ c = "ACK" => YM!Await("next")
               /\ at = "second end" /\ c = "C" => YM!Await("second end")
               /\ at = "next" /\ c = "C" => YM!NextHeader
  BY Zenon DEF YM!Answer, YM!None

LEMMA AnswerHeader ==
    ASSUME YmInv, YM!YmodemAssumption, YM!Answer,
           \/ sender.at = "start" /\ Starting
           \/ sender.at = "header" /\ Heading(sender.file)
    PROVE  YmTypes' /\ Turn' /\ sender'.file = sender.file
  <1> USE YmFile
  <1> DEFINE c == Head(from)
             f == sender.file
  <1>1. YmTypes /\ f \in 0 .. Len(Length)
    BY DEF YmInv, YmTypes
  <1>2. from # << >> /\ from' = Tail(from) /\ UNCHANGED YM!recvVars
    BY AnswerIs, Zenon
  <1>3. UNCHANGED <<rym_at, stage, disk, cur_f, result>>
    BY <1>2 DEF YM!recvVars
  <1>4. /\ c \in {"C", "ACK", "NAK", "CAN"}
        /\ OnlyCalls(from) => c = "C" /\ OnlyCalls(from)'
        /\ Accepts(from) => Accepts(from)' /\ c \in {"C", "ACK"} /\ (c = "ACK" => from' = <<"C">>)
    BY <1>1, <1>2, CodesDrop DEF OnlyCalls, Accepts
  <1>5. CASE sender.at = "start" /\ Starting
    <2>1. c = "C" /\ f = 1 /\ to = << >>
      BY <1>4, <1>5 DEF Starting
    <2>2. YM!SendBlock("header", 1, 0)
      BY <1>5, <2>1, AnswerIs
    <2>3. "header" \in SenderAt /\ 1 \in 0 .. Len(Length) /\ 0 \in Nat
      BY DEF SenderAt
    <2>4. /\ sender'.at = "header" /\ sender'.file = 1 /\ sender'.block = 0
          /\ sender' \in [at : SenderAt, file : 0 .. Len(Length), block : Nat]
          /\ to' \in Seq(AnyPacket) /\ Packets(to', 1, PacketOf(1, 0))
      BY <1>1, <2>1, <2>2, <2>3, SendBlockIs
    <2>5. YmTypes'
      BY <1>1, <1>2, <2>4, SenderTypes
    <2>6. Headers(to, 1)'
      BY <2>4 DEF Headers, Packets, PacketOf
    <2>7. Heading(1)'
      BY <1>3, <1>4, <1>5, <2>4, <2>6 DEF Heading, Starting, Greeting, Failed
    <2> QED  BY <2>1, <2>4, <2>5, <2>7 DEF Turn
  <1>6. CASE sender.at = "header" /\ Heading(f)
    <2>1. /\ f # 0 /\ sender.block = 0
          /\ Headers(to, f) \/ Failed
          /\ OnlyCalls(from) \/ Accepts(from)
      BY <1>6 DEF Heading
    <2>2. CASE c = "C"
      <3>1. YM!SendBlock("header", f, 0)
        BY <1>6, <2>1, <2>2, AnswerIs DEF YM!SendAgain
      <3>2. "header" \in SenderAt /\ 0 \in Nat
        BY DEF SenderAt
      <3>3. /\ sender'.at = "header" /\ sender'.file = f /\ sender'.block = 0
            /\ sender' \in [at : SenderAt, file : 0 .. Len(Length), block : Nat]
            /\ to' \in Seq(AnyPacket)
            /\ Packets(to', f, PacketOf(f, 0)) \/ Failed
        BY <1>1, <2>1, <3>1, <3>2, SendBlockIs
      <3>4. YmTypes'
        BY <1>1, <1>2, <3>3, SenderTypes
      <3>5. (Headers(to, f) \/ Failed)'
        BY <1>3, <3>3 DEF Failed, Headers, Packets, PacketOf
      <3>6. Heading(f)'
        BY <1>3, <1>4, <1>6, <3>3, <3>5 DEF Heading, Opened, Failed
      <3> QED  BY <3>3, <3>4, <3>6 DEF Turn
    <2>3. CASE c # "C"
      <3>1. c = "ACK" /\ Accepts(from) /\ ~ OnlyCalls(from) /\ from' = <<"C">>
        BY <1>4, <2>1, <2>3
      <3>2. YM!Await("go")
        BY <1>6, <2>1, <3>1, AnswerIs
      <3>3. /\ to' = to /\ sender'.at = "go" /\ sender'.file = f /\ sender'.block = sender.block
            /\ sender' \in [at : SenderAt, file : 0 .. Len(Length), block : Nat]
            /\ to' \in Seq(AnyPacket)
        BY <1>1, <3>2, AwaitIs, Zenon DEF SenderAt
      <3>4. YmTypes'
        BY <1>1, <1>2, <3>3, SenderTypes
      <3>5. (Headers(to, f) \/ Failed)'
        BY <1>3, <2>1, <3>3 DEF Failed, Headers, Packets, PacketOf
      <3>6. Going(f)'
        BY <1>3, <1>6, <2>1, <3>1, <3>3, <3>5 DEF Heading, Going, Opened, Failed
      <3> QED  BY <3>3, <3>4, <3>6 DEF Turn
    <2> QED  BY <2>2, <2>3
  <1> QED  BY <1>5, <1>6

LEMMA AnswerClosing ==
    ASSUME YmInv, YM!YmodemAssumption, YM!Answer, sender.at = "header", Closing
    PROVE  YmTypes' /\ Turn' /\ sender'.file = sender.file
  <1> USE YmFile
  <1> DEFINE c == Head(from)
  <1>1. /\ YmTypes /\ sender.file = 0 /\ sender.block = 0
        /\ Headers(to, 0) \/ Failed
    BY DEF YmInv, Closing
  <1>2. from # << >> /\ from' = Tail(from) /\ UNCHANGED YM!recvVars
    BY AnswerIs
  <1>3. UNCHANGED <<rym_at, stage, disk, cur_f, result>>
    BY <1>2 DEF YM!recvVars
  <1>4. /\ c \in {"C", "ACK", "NAK", "CAN"}
        /\ OnlyCalls(from) => c = "C" /\ OnlyCalls(from)'
        /\ Ends(from) => Ends(from)' /\ c \in {"C", "ACK"} /\ (c = "ACK" => from' = << >>)
    BY <1>1, <1>2, CodesDrop DEF OnlyCalls, Ends
  <1>5. CASE c = "C"
    <2>1. YM!SendBlock("header", 0, 0)
      BY <1>1, <1>5, AnswerIs DEF YM!SendAgain
    <2>2. "header" \in SenderAt /\ 0 \in Nat /\ 0 \in 0 .. Len(Length)
      BY DEF SenderAt
    <2>3. /\ sender'.at = "header" /\ sender'.file = 0 /\ sender'.block = 0
          /\ sender' \in [at : SenderAt, file : 0 .. Len(Length), block : Nat]
          /\ to' \in Seq(AnyPacket)
          /\ Packets(to', 0, PacketOf(0, 0)) \/ Failed
      BY <1>1, <2>1, <2>2, SendBlockIs
    <2>4. YmTypes'
      BY <1>1, <1>2, <2>3, SenderTypes
    <2>5. (Headers(to, 0) \/ Failed)'
      BY <1>3, <2>3 DEF Failed, Headers, Packets, PacketOf
    <2>6. Closing'
      BY <1>3, <1>4, <2>3, <2>5 DEF Closing, Failed
    <2> QED  BY <1>1, <2>3, <2>4, <2>6 DEF Turn
  <1>6. CASE c # "C"
    <2>1. c = "ACK" /\ Ends(from) /\ ~ OnlyCalls(from) /\ from' = << >>
      BY <1>4, <1>6 DEF Closing
    <2>2. YM!Await("done")
      BY <1>1, <2>1, AnswerIs
    <2>3. /\ sender'.at = "done" /\ sender'.file = 0
          /\ sender' \in [at : SenderAt, file : 0 .. Len(Length), block : Nat]
          /\ to' \in Seq(AnyPacket)
      BY <1>1, <2>2, AwaitIs, Zenon DEF SenderAt
    <2>4. YmTypes'
      BY <1>1, <1>2, <2>3, SenderTypes
    <2>5. rym_at' = "end" /\ result' = "EOK"
      BY <1>3, <2>1 DEF Closing
    <2> QED  BY <1>1, <2>1, <2>3, <2>4, <2>5 DEF Turn
  <1> QED  BY <1>5, <1>6

\* The next block of the file, or its end.
LEMMA AnswerNext ==
    ASSUME YmInv, YM!YmodemAssumption, YM!Answer,
           \/ sender.at = "go" /\ Going(sender.file)
           \/ sender.at = "block" /\ Blocking(sender.file, sender.block)
    PROVE  YmTypes' /\ Turn' /\ sender'.file = sender.file
  <1> USE YmFile
  <1> DEFINE c == Head(from)
  <1> PICK f, n : f = sender.file /\ n = sender.block
    OBVIOUS
  <1>f. f = sender.file /\ n = sender.block
    OBVIOUS
  <1>1. YmTypes /\ f \in 0 .. Len(Length) /\ n \in Nat
    BY <1>f DEF YmInv, YmTypes
  <1>2. from # << >> /\ from' = Tail(from) /\ UNCHANGED YM!recvVars
    BY AnswerIs, Zenon
  <1>3. UNCHANGED <<rym_at, stage, disk, cur_f, result>>
    BY <1>2 DEF YM!recvVars
  <1>4. /\ f \in YM!File /\ f # 0 /\ Length[f] \in Nat /\ n <= Length[f]
        /\ from \in {<<"C">>, <<"ACK">>, <<"CAN">>}
        /\ sender.at = "go" => from = <<"C">> /\ n = 0
        /\ sender.at = "block" => from # <<"C">>
        /\ \/ /\ rym_at = "data" /\ cur_f = f /\ from # <<"CAN">> /\ disk[f] = Got(f, n)
              /\ (Headers(to, f) /\ stage = "ESTABLISHED") \/ to = << >>
           \/ Failed
    <2>1. CASE sender.at = "go" /\ Going(f)
      <3>1. Got(f, 0) = << >>
        BY GotIs, Zenon
      <3> QED  BY <1>1, <1>2, <1>f, <2>1, <3>1 DEF Going, Opened
    <2>2. CASE sender.at = "block" /\ Blocking(f, n)
      BY <1>1, <1>2, <2>2 DEF Blocking
    <2> QED  BY <1>f, <2>1, <2>2
  <1>5. from' = << >> /\ (from = <<"C">> => c = "C") /\ (from = <<"ACK">> => c = "ACK")
        /\ (from = <<"CAN">> => c = "CAN")
    <2>1. from' = Tail(from) /\ from \in {<<"C">>, <<"ACK">>, <<"CAN">>}
      BY ONLY <1>2, <1>4
    <2>2. CASE from = <<"C">>
      <3>1. c = "C" /\ from' = << >>
        BY ONLY <2>1, <2>2, OneCode
      <3> QED  BY ONLY <2>2, <3>1
    <2>3. CASE from = <<"ACK">>
      <3>1. c = "ACK" /\ from' = << >>
        BY ONLY <2>1, <2>3, OneCode
      <3> QED  BY ONLY <2>3, <3>1
    <2>4. CASE from = <<"CAN">>
      <3>1. c = "CAN" /\ from' = << >>
        BY ONLY <2>1, <2>4, OneCode
      <3> QED  BY ONLY <2>4, <3>1
    <2> QED  BY ONLY <2>1, <2>2, <2>3, <2>4
  <1>6. CASE from = <<"CAN">>
    <2>1. sender.at = "block" /\ c = "CAN" /\ Failed
      BY <1>4, <1>5, <1>6
    <2>2. YM!Await("stopped")
      BY <2>1, AnswerIs
    <2>3. /\ sender'.at = "stopped" /\ sender'.file = f
          /\ sender' \in [at : SenderAt, file : 0 .. Len(Length), block : Nat]
          /\ to' \in Seq(AnyPacket)
      BY <1>1, <2>2, AwaitIs, Zenon DEF SenderAt
    <2>4. YmTypes'
      BY <1>1, <1>2, <2>3, SenderTypes
    <2>5. Failed'
      BY <1>3, <2>1 DEF Failed
    <2> QED  BY <1>5, <2>3, <2>4, <2>5 DEF Turn
  <1>7. CASE from # <<"CAN">> /\ n < Length[f]
    <2>m. PICK m : m = n + 1
      OBVIOUS
    <2>1. YM!SendNext
      <3>1. (sender.at = "go" /\ c = "C") \/ (sender.at = "block" /\ c = "ACK")
        BY <1>4, <1>5, <1>7
      <3> QED  BY <3>1, AnswerIs, Zenon
    <2>2. YM!SendBlock("block", f, m)
      BY <1>7, <1>f, <2>1, <2>m DEF YM!SendNext
    <2>3. "block" \in SenderAt /\ m \in Nat /\ m \in 1 .. Length[f] /\ m - 1 = n
      BY <1>1, <1>4, <1>7, <2>m DEF SenderAt
    <2>4. /\ sender'.at = "block" /\ sender'.file = f /\ sender'.block = m
          /\ sender' \in [at : SenderAt, file : 0 .. Len(Length), block : Nat]
          /\ to' \in Seq(AnyPacket)
          /\ Headers(to, f) => Packets(to', f, PacketOf(f, m))
          /\ to = << >> => Packets(to', f, PacketOf(f, m)) /\ Len(to') = 1
      BY <1>1, <2>2, <2>3, SendBlockIs
    <2>5. YmTypes'
      BY <1>1, <1>2, <2>4, SenderTypes
    <2>6. Blocking(f, m)'
      <3>1. CASE Failed
        <4>1. Failed'
          BY <1>3, <3>1 DEF Failed
        <4>2. f # 0 /\ m \in 1 .. Length[f] /\ from' = << >>
          BY ONLY <1>4, <1>5, <2>3
        <4> QED  BY ONLY <4>1, <4>2 DEF Blocking
      <3>2. CASE ~ Failed
        <4>1. /\ rym_at' = "data" /\ cur_f' = f /\ disk'[f] = Got(f, m - 1)
              /\ Packets(to', f, PacketOf(f, m)) /\ (stage' = "ESTABLISHED" \/ Len(to') <= 1)
          <5>1. /\ rym_at = "data" /\ cur_f = f /\ disk[f] = Got(f, n)
                /\ (Headers(to, f) /\ stage = "ESTABLISHED") \/ to = << >>
            BY ONLY <1>4, <3>2
          <5>2. rym_at' = "data" /\ cur_f' = f /\ disk'[f] = Got(f, m - 1)
            BY ONLY <1>3, <2>3, <5>1
          <5>3. Packets(to', f, PacketOf(f, m)) /\ (stage' = "ESTABLISHED" \/ Len(to') = 1)
            BY ONLY <1>3, <2>4, <5>1
          <5>4. Len(to') = 1 => Len(to') <= 1
            BY ONLY TRUE
          <5> QED  BY ONLY <5>2, <5>3, <5>4
        <4>2. Following(f, PacketOf(f, m))'
          <5>1. Packets(to, f, PacketOf(f, m))'
            BY ONLY <4>1, PacketsThen
          <5> QED  BY ONLY <4>1, <5>1 DEF Following
        <4>3. f # 0 /\ m \in 1 .. Length[f] /\ from' = << >>
          BY ONLY <1>4, <1>5, <2>3
        <4> QED  BY ONLY <4>1, <4>2, <4>3 DEF Blocking
      <3> QED  BY <3>1, <3>2
    <2>7. Turn'
      BY ONLY <2>4, <2>6 DEF Turn
    <2> QED  BY <1>f, <2>4, <2>5, <2>7
  <1>8. CASE from # <<"CAN">> /\ ~ (n < Length[f])
    <2>1. YM!SendNext
      <3>1. (sender.at = "go" /\ c = "C") \/ (sender.at = "block" /\ c = "ACK")
        BY <1>4, <1>5, <1>8
      <3> QED  BY <3>1, AnswerIs, Zenon
    <2>2. YM!SendEnd("end") /\ n = Length[f]
      BY <1>1, <1>4, <1>8, <1>f, <2>1 DEF YM!SendNext
    <2>3. /\ sender'.at = "end" /\ sender'.file = f /\ sender'.block = n
          /\ sender' \in [at : SenderAt, file : 0 .. Len(Length), block : Nat]
          /\ to' \in Seq(AnyPacket)
          /\ Headers(to, f) => Packets(to', f, {YM!EOT})
          /\ to = << >> => Packets(to', f, {YM!EOT}) /\ Len(to') = 1
      BY <1>1, <2>2, SendEndIs, Zenon DEF SenderAt
    <2>4. YmTypes'
      BY <1>1, <1>2, <2>3, SenderTypes
    <2>5. Ending(f)'
      <3>1. CASE Failed
        <4>1. Failed'
          BY <1>3, <3>1 DEF Failed
        <4> QED  BY <1>4, <1>5, <2>2, <2>3, <4>1 DEF Ending
      <3>2. CASE ~ Failed
        <4>1. /\ rym_at' = "data" /\ cur_f' = f /\ disk'[f] = Got(f, Length[f])
              /\ Packets(to', f, {YM!EOT}) /\ (stage' = "ESTABLISHED" \/ Len(to') <= 1)
          <5>1. /\ rym_at = "data" /\ cur_f = f /\ disk[f] = Got(f, n)
                /\ (Headers(to, f) /\ stage = "ESTABLISHED") \/ to = << >>
            BY ONLY <1>4, <3>2
          <5>2. rym_at' = "data" /\ cur_f' = f /\ disk'[f] = Got(f, Length[f])
            BY ONLY <1>3, <2>2, <5>1
          <5>3. Packets(to', f, {YM!EOT}) /\ (stage' = "ESTABLISHED" \/ Len(to') = 1)
            BY ONLY <1>3, <2>3, <5>1
          <5>4. Len(to') = 1 => Len(to') <= 1
            BY ONLY TRUE
          <5> QED  BY ONLY <5>2, <5>3, <5>4
        <4>2. Following(f, {YM!EOT})'
          <5>1. Packets(to, f, {YM!EOT})'
            BY ONLY <4>1, PacketsThen
          <5> QED  BY ONLY <4>1, <5>1 DEF Following
        <4> QED  BY <1>4, <1>5, <2>2, <2>3, <4>1, <4>2 DEF Ending
      <3> QED  BY <3>1, <3>2
    <2> QED  BY <2>3, <2>4, <2>5 DEF Turn
  <1> QED  BY <1>6, <1>7, <1>8

LEMMA AnswerEnd ==
    ASSUME YmInv, YM!YmodemAssumption, YM!Answer,
           \/ sender.at = "end" /\ Ending(sender.file)
           \/ sender.at = "second end" /\ EndingAgain(sender.file)
    PROVE  YmTypes' /\ Turn' /\ sender'.file = sender.file
  <1> USE YmFile
  <1> DEFINE c == Head(from)
  <1> PICK f : f = sender.file
    BY Zenon
  <1>1. YmTypes
    BY Zenon DEF YmInv
  <1>2. from # << >> /\ from' = Tail(from) /\ UNCHANGED YM!recvVars
    BY AnswerIs, Zenon
  <1>3. UNCHANGED <<rym_at, stage, disk, cur_f, result>>
    BY <1>2, Zenon DEF YM!recvVars
  <1>4. Whole(f)' = Whole(f) /\ Failed' = Failed
    <2>3. Whole(f)' = Whole(f)
      BY <1>3, ReceivedSame, Zenon
    <2>4. Failed' = Failed
      BY ONLY <1>3 DEF Failed
    <2> QED  BY ONLY <2>3, <2>4
  <1>5. CASE sender.at = "end" /\ Ending(f)
    <2>1. /\ c = "NAK" /\ from' = << >> /\ f # 0 /\ sender.block = Length[f]
          /\ (rym_at = "second" /\ to = << >> /\ Whole(f)) \/ Failed
      <3>1. /\ from = <<"NAK">> /\ f # 0 /\ sender.block = Length[f]
            /\ (rym_at = "second" /\ to = << >> /\ Whole(f)) \/ Failed
        BY ONLY <1>2, <1>5 DEF Ending
      <3>2. c = "NAK" /\ from' = << >>
        BY ONLY <1>2, <3>1, OneCode
      <3> QED  BY ONLY <3>1, <3>2
    <2>2. YM!SendEnd("second end")
      BY <1>5, <2>1, AnswerIs, Zenon
    <2>3. /\ sender'.at = "second end" /\ sender'.file = f /\ sender'.block = sender.block
          /\ sender' \in [at : SenderAt, file : 0 .. Len(Length), block : Nat]
          /\ to' \in Seq(AnyPacket) /\ (to = << >> => to' = <<YM!EOT>>)
      BY <1>1, <2>2, SendEndIs, Zenon DEF SenderAt
    <2>4. YmTypes'
      BY <1>1, <1>2, <2>3, SenderTypes, Zenon
    <2>5. EndingAgain(f)'
      <3>1. YM!EOT' = YM!EOT
        BY Zenon DEF YM!EOT
      <3> QED  BY <1>3, <1>4, <2>1, <2>3, <3>1, Zenon DEF EndingAgain
    <2> QED  BY <2>3, <2>4, <2>5, Zenon DEF Turn
  <1>6. CASE sender.at = "second end" /\ EndingAgain(f)
    <2>1. /\ f # 0 /\ sender.block = Length[f]
          /\ \/ c = "ACK" /\ from' = <<"C">>
             \/ c = "C" /\ from' = << >>
          /\ (rym_at = "last" /\ to = << >> /\ Whole(f)) \/ Failed
      <3>1. /\ f # 0 /\ sender.block = Length[f] /\ from \in {<<"ACK", "C">>, <<"C">>}
            /\ (rym_at = "last" /\ to = << >> /\ Whole(f)) \/ Failed
        BY ONLY <1>2, <1>6, Zenon DEF EndingAgain
      <3>2. from = <<"ACK", "C">> => c = "ACK" /\ from' = <<"C">>
        BY ONLY <1>2, TwoCodes
      <3>3. from = <<"C">> => c = "C" /\ from' = << >>
        BY ONLY <1>2, OneCode
      <3> QED  BY ONLY <3>1, <3>2, <3>3
    <2>2. CASE c = "ACK"
      <3>1. YM!Await("next") /\ from' = <<"C">>
        BY <1>6, <2>1, <2>2, AnswerIs, Zenon
      <3>2. /\ sender'.at = "next" /\ sender'.file = f /\ sender'.block = sender.block /\ to' = to
            /\ sender' \in [at : SenderAt, file : 0 .. Len(Length), block : Nat]
            /\ to' \in Seq(AnyPacket)
        BY <1>1, <3>1, AwaitIs, Zenon DEF SenderAt
      <3>3. YmTypes'
        BY <1>1, <1>2, <3>2, SenderTypes, Zenon
      <3>4. Passing(f)'
        BY <1>3, <1>4, <2>1, <3>1, <3>2, Zenon DEF Passing
      <3> QED  BY <3>2, <3>3, <3>4, Zenon DEF Turn
    <2>3. CASE c = "C"
      <3>1. YM!Await("second end") /\ from' = << >>
        BY <1>6, <2>1, <2>3, AnswerIs, Zenon
      <3>2. /\ sender'.at = "second end" /\ sender'.file = f /\ sender'.block = sender.block
            /\ to' = to
            /\ sender' \in [at : SenderAt, file : 0 .. Len(Length), block : Nat]
            /\ to' \in Seq(AnyPacket)
        BY <1>1, <3>1, AwaitIs, Zenon DEF SenderAt
      <3>3. YmTypes'
        BY <1>1, <1>2, <3>2, SenderTypes, Zenon
      <3>4. EndingAgain(f)'
        BY <1>3, <1>4, <2>1, <3>1, <3>2, Zenon DEF EndingAgain
      <3> QED  BY <3>2, <3>3, <3>4, Zenon DEF Turn
    <2> QED  BY <2>1, <2>2, <2>3, Zenon
  <1> QED  BY <1>5, <1>6, Zenon

LEMMA AnswerPassing ==
    ASSUME YmInv, YM!YmodemAssumption, YM!Answer, sender.at = "next", Passing(sender.file)
    PROVE  YmInv'
  <1> USE YmFile
  <1> PICK f : f = sender.file
    OBVIOUS
  <1>f. f = sender.file
    OBVIOUS
  <1>g. PICK g : g = IF f + 1 \in YM!File THEN f + 1 ELSE 0
    OBVIOUS
  <1>1. YmTypes /\ f \in YM!File /\ f # 0
    BY <1>f DEF YmInv, YmTypes, Passing
  <1>2. from # << >> /\ from' = Tail(from) /\ UNCHANGED YM!recvVars
    BY AnswerIs
  <1>3. UNCHANGED <<rym_at, stage, disk, cur_f, result>>
    BY <1>2 DEF YM!recvVars
  <1>4. /\ Head(from) = "C" /\ from' = << >>
        /\ (rym_at = "last" /\ to = << >> /\ Whole(f)) \/ Failed
    <2>1. /\ from = <<"C">>
          /\ (rym_at = "last" /\ to = << >> /\ Whole(f)) \/ Failed
      BY <1>2, <1>f DEF Passing
    <2>2. Head(from) = "C" /\ from' = << >>
      BY ONLY <1>2, <2>1, OneCode
    <2> QED  BY ONLY <2>1, <2>2
  <1>5. YM!NextHeader
    BY <1>4, AnswerIs
  <1>6. YM!SendBlock("header", g, 0)
    BY <1>5, <1>f, <1>g DEF YM!NextHeader, YM!None
  <1>7. g \in 0 .. Len(Length) /\ 0 \in Nat /\ "header" \in SenderAt
    BY <1>1, <1>g DEF SenderAt
  <1>8. g # f /\ g # 1 /\ (g = 0 => f = Len(Length)) /\ (g # 0 => g = f + 1)
    BY <1>1, <1>g
  <1>9. /\ sender'.at = "header" /\ sender'.file = g /\ sender'.block = 0
        /\ sender' \in [at : SenderAt, file : 0 .. Len(Length), block : Nat]
        /\ to' \in Seq(AnyPacket)
        /\ Headers(to, g) => Packets(to', g, PacketOf(g, 0))
        /\ to = << >> => Packets(to', g, PacketOf(g, 0))
    BY <1>1, <1>6, <1>7, SendBlockIs
  <1>10. YmTypes'
    BY <1>1, <1>2, <1>9, SenderTypes
  <1>11. OnlyCalls(from)'
    BY <1>4 DEF OnlyCalls
  <1>12. CASE Failed
    <2>1. Failed'
      BY <1>3, <1>12 DEF Failed
    <2>2. Turn'
      BY <1>9, <1>11, <2>1 DEF Turn, Heading, Closing
    <2> QED  BY <1>10, <2>1, <2>2 DEF YmInv
  <1>13. CASE ~ Failed
    <2>1. rym_at = "last" /\ to = << >> /\ Whole(f) /\ Ordered
      BY <1>4, <1>13 DEF YmInv
    <2>2. Headers(to, g)'
      <3>1. Headers(to', g)
        BY ONLY <1>9, <2>1 DEF Headers
      <3> QED  BY ONLY <3>1, PacketsThen
    <2>3. Turn'
      <3>1. CASE g = 0
        <4>1. Closing'
          <5>1. sender'.file = 0 /\ sender'.block = 0 /\ rym_at' = "last"
            BY ONLY <1>3, <1>9, <2>1, <3>1
          <5>2. Headers(to, 0)'
            <6>1. Headers(to', g)
              BY ONLY <2>2, PacketsThen
            <6>2. Headers(to', 0)
              BY ONLY <3>1, <6>1
            <6> QED  BY ONLY <6>2, PacketsThen
          <5> QED  BY ONLY <1>11, <5>1, <5>2 DEF Closing
        <4> QED  BY <1>9, <4>1 DEF Turn
      <3>2. CASE g # 0
        <4>1. rym_at' = "last" /\ sender'.block = 0 /\ "last" \in Greeting(g)
          BY ONLY <1>3, <1>8, <1>9, <2>1 DEF Greeting
        <4>2. Greeting(g)' = Greeting(g)
          BY ONLY TRUE DEF Greeting
        <4>3. Heading(g)'
          BY ONLY <1>11, <2>2, <3>2, <4>1, <4>2 DEF Heading
        <4> QED  BY ONLY <1>9, <4>3 DEF Turn
      <3> QED  BY <3>1, <3>2
    <2>4. Ordered'
      <3>1. \A h \in YM!File : Whole(h)' = Whole(h) /\ disk'[h] = disk[h]
        BY <1>3, ReceivedSame
      <3>2. ASSUME NEW h \in YM!File, g = 0 \/ h < g PROVE Whole(h)'
        <4>1. h < f \/ h = f
          BY <1>1, <1>8, <3>2
        <4> QED  BY <2>1, <3>1, <4>1 DEF Ordered
      <3>3. ASSUME NEW h \in YM!File, g # 0, g < h PROVE disk'[h] = << >>
        <4>1. f < h
          BY <1>1, <1>8, <3>3
        <4> QED  BY <1>1, <2>1, <3>1, <4>1 DEF Ordered
      <3> QED  BY <1>9, <3>2, <3>3 DEF Ordered
    <2> QED  BY <1>10, <2>3, <2>4 DEF YmInv
  <1> QED  BY <1>12, <1>13

LEMMA AnswerKeeps ==
    ASSUME YmInv, YM!YmodemAssumption, YM!Answer
    PROVE  YmInv'
  <1>1. from # << >> /\ UNCHANGED YM!recvVars
    BY AnswerIs, Zenon
  <1>2. UNCHANGED <<rym_at, disk, result>>
    BY <1>1 DEF YM!recvVars
  <1>3. CASE YmTypes' /\ Turn' /\ sender'.file = sender.file
    <2>1. (Failed \/ Ordered)'
      BY <1>2, <1>3, OrderedSame DEF YmInv, Failed
    <2> QED  BY <1>3, <2>1 DEF YmInv
  <1>4. \/ sender.at = "start" /\ Starting
        \/ sender.at = "header" /\ (Heading(sender.file) \/ Closing)
        \/ sender.at = "go" /\ Going(sender.file)
        \/ sender.at = "block" /\ Blocking(sender.file, sender.block)
        \/ sender.at = "end" /\ Ending(sender.file)
        \/ sender.at = "second end" /\ EndingAgain(sender.file)
        \/ sender.at = "next" /\ Passing(sender.file)
    BY <1>1, Zenon DEF YmInv, Turn
  <1> QED
    BY <1>3, <1>4, AnswerHeader, AnswerClosing, AnswerNext, AnswerEnd, AnswerPassing, Zenon

\* The first packet is lost or damaged.
LEMMA PacketFaultKeeps ==
    ASSUME YmInv, to # << >>,
           \/ to' = Tail(to)
           \/ Head(to) # YM!EOT /\ \E s \in {"short", "corrupt"} : to' = [to EXCEPT ![1].state = s],
           UNCHANGED <<rym_at, stage, disk, cur_f, result, from, sender>>
    PROVE  YmInv'
  <1> PICK f, m : f = sender.file /\ m = sender.block
    OBVIOUS
  <1>f. f = sender.file /\ m = sender.block
    OBVIOUS
  <1>g. /\ sender'.at = sender.at /\ sender'.file = f /\ sender'.block = m
        /\ sender.file = f /\ sender.block = m /\ stage' = stage
    BY <1>f
  <1>1. YmTypes /\ to \in Seq(AnyPacket)
    BY DEF YmInv, YmTypes
  <1>2. Len(to) \in Nat \ {0} /\ Head(to) = to[1] /\ 1 \in 1 .. Len(to)
    BY <1>1, DropFirst
  <1>3. /\ to' \in Seq(AnyPacket)
        /\ Len(to') <= Len(to)
        /\ \A g, n : Packets(to, g, PacketOf(g, n)) => Packets(to', g, PacketOf(g, n))
        /\ \A g : Packets(to, g, {YM!EOT}) => Packets(to', g, {YM!EOT})
        /\ to = <<YM!EOT>> => to' = << >>
    <2>1. CASE to' = Tail(to)
      BY <1>1, <1>2, <2>1, DropFirst, PacketsDrop
    <2>2. CASE Head(to) # YM!EOT /\ \E s \in {"short", "corrupt"} : to' = [to EXCEPT ![1].state = s]
      <3>1. PICK s \in {"short", "corrupt"} : to' = [to EXCEPT ![1].state = s]
        BY <2>2
      <3> DEFINE p == to[1]
                 q == [p EXCEPT !.state = s]
      <3>2. s \in States /\ p # YM!EOT /\ p \in AnyPacket
        BY <1>1, <1>2, <2>2 DEF States
      <3>3. p \in [code : {"SOH"}, data : [file : 0 .. Len(Length), block : Nat], state : States]
        BY <3>2 DEF AnyPacket
      <3>4. q \in AnyPacket
        BY <3>2, <3>3 DEF AnyPacket
      <3>5. \A g, n : p \in PacketOf(g, n) => q \in PacketOf(g, n)
        BY <3>2, PacketIs
      <3>6. to' = [to EXCEPT ![1] = q]
        BY <3>1
      <3> HIDE DEF q, p
      <3>7. /\ to' \in Seq(AnyPacket) /\ Len(to') = Len(to) /\ to'[1] = q
            /\ \A i \in 1 .. Len(to) : i # 1 => to'[i] = to[i]
        BY <1>1, <1>2, <3>4, <3>6, ExceptSeq
      <3>8. ASSUME NEW g, NEW n, Packets(to, g, PacketOf(g, n))
            PROVE  Packets(to', g, PacketOf(g, n))
        <4>1. p \in IF 1 = Len(to) THEN PacketOf(g, n) ELSE PacketOf(g, 0)
          BY <1>2, <3>8, Zenon DEF Packets, p
        <4>2. q \in IF 1 = Len(to) THEN PacketOf(g, n) ELSE PacketOf(g, 0)
          BY <3>5, <4>1
        <4> QED  BY <3>7, <3>8, <4>2 DEF Packets
      <3>9. ASSUME NEW g, Packets(to, g, {YM!EOT})
            PROVE  Packets(to', g, {YM!EOT})
        <4>1. p \in IF 1 = Len(to) THEN {YM!EOT} ELSE PacketOf(g, 0)
          BY <1>2, <3>9, Zenon DEF Packets, p
        <4>2. q \in IF 1 = Len(to) THEN {YM!EOT} ELSE PacketOf(g, 0)
          BY <3>2, <3>5, <4>1
        <4> QED  BY <3>7, <3>9, <4>2 DEF Packets
      <3>10. to # <<YM!EOT>>
        BY <2>2
      <3>11. Len(to') <= Len(to) /\ to' \in Seq(AnyPacket)
        BY ONLY <1>2, <3>7
      <3> QED  BY ONLY <3>8, <3>9, <3>10, <3>11, Zenon
    <2> QED  BY <2>1, <2>2, Zenon
  <1>4. YmTypes'
    BY <1>1, <1>3, YmTypesSame DEF YmTypes
  <1>5. (Failed \/ Ordered)'
    BY <1>1, OrderedSame DEF YmInv, Failed
  <1>6. /\ \A g : Headers(to, g) => Headers(to, g)'
        /\ \A g : Whole(g)' = Whole(g)
        /\ OnlyCalls(from)' = OnlyCalls(from) /\ Accepts(from)' = Accepts(from) /\ Ends(from)' = Ends(from)
        /\ \A g : Opened(g)' = Opened(g)
        /\ Failed' = Failed
    <2>1. \A g : Headers(to, g) => Headers(to, g)'
      BY <1>3, Zenon DEF Headers, Packets, PacketOf
    <2>2. \A g : Whole(g)' = Whole(g)
      BY ReceivedSame
    <2> QED  BY <2>1, <2>2 DEF OnlyCalls, Accepts, Ends, Opened, Failed
  <1>7. Len(to') \in Nat /\ Len(to) \in Nat
    BY <1>1, <1>3
  <1>8. Turn'
    <2>1. CASE sender.at = "header" /\ Heading(f)
      <3>1. Heading(f)'
        BY <1>6, <2>1 DEF Heading
      <3> QED  BY <2>1, <3>1 DEF Turn
    <2>2. CASE sender.at = "header" /\ Closing
      <3>1. Closing'
        BY <1>6, <2>2 DEF Closing
      <3> QED  BY <2>2, <3>1 DEF Turn
    <2>3. CASE sender.at = "go" /\ Going(f)
      <3>1. Going(f)'
        BY <1>6, <2>3 DEF Going
      <3> QED  BY <2>3, <3>1 DEF Turn
    <2>4. CASE sender.at = "block" /\ Blocking(f, m)
      <3>1. ASSUME NEW n, Following(f, PacketOf(f, n)) PROVE Following(f, PacketOf(f, n))'
        <4>1. Packets(to', f, PacketOf(f, n)) /\ (stage = "ESTABLISHED" \/ Len(to) <= 1)
          BY ONLY <1>3, <3>1 DEF Following
        <4>2. Packets(to, f, PacketOf(f, n))'
          BY ONLY <4>1, PacketsThen
        <4>3. (stage = "ESTABLISHED" \/ Len(to) <= 1)'
          BY ONLY <1>3, <1>7, <1>g, <4>1
        <4> QED  BY ONLY <4>2, <4>3 DEF Following
      <3>2. Blocking(f, m)'
        BY <1>6, <2>4, <3>1 DEF Blocking
      <3> QED  BY <1>g, <2>4, <3>2 DEF Turn
    <2>5. CASE sender.at = "end" /\ Ending(f)
      <3>1. ASSUME Following(f, {YM!EOT}) PROVE Following(f, {YM!EOT})'
        <4>1. Packets(to', f, {YM!EOT}) /\ (stage = "ESTABLISHED" \/ Len(to) <= 1)
          BY ONLY <1>3, <3>1, Zenon DEF Following
        <4>2. Packets(to, f, {YM!EOT})'
          BY ONLY <4>1, PacketsThen
        <4>3. (stage = "ESTABLISHED" \/ Len(to) <= 1)'
          BY ONLY <1>3, <1>7, <1>g, <4>1
        <4> QED  BY ONLY <4>2, <4>3 DEF Following
      <3>2. Ending(f)'
        BY <1>6, <1>g, <2>5, <3>1 DEF Ending
      <3> QED  BY <2>5, <3>2 DEF Turn
    <2>6. CASE sender.at = "second end" /\ EndingAgain(f)
      <3>1. EndingAgain(f)'
        BY <1>3, <1>6, <2>6, Zenon DEF EndingAgain
      <3> QED  BY <2>6, <3>1, Zenon DEF Turn
    <2>7. CASE sender.at = "next" /\ Passing(f)
      <3>1. Passing(f)'
        BY <1>6, <2>7 DEF Passing
      <3> QED  BY <2>7, <3>1 DEF Turn
    <2>8. CASE sender.at \in {"stopped", "done"}
      BY <1>6, <2>8, Zenon DEF YmInv, Turn
    <2>9. ~ (sender.at = "start" /\ Starting)
      BY DEF Starting
    <2> QED
      BY <2>1, <2>2, <2>3, <2>4, <2>5, <2>6, <2>7, <2>8, <2>9, Zenon DEF YmInv, Turn
  <1> QED  BY <1>4, <1>5, <1>8 DEF YmInv

\* Every step of the download keeps the invariant.
LEMMA YmNextKeeps ==
    ASSUME YmInv, YM!YmodemAssumption, YM!YmodemNext
    PROVE  YmInv'
  <1>1. CASE to # << >> /\ LET p == Head(to)
                          IN  \/ YM!GetHeader(p) \/ YM!GetData(p) \/ YM!GetEnd(p)
                              \/ YM!GetSecondEnd(p) \/ YM!GetLast(p)
    BY <1>1, GetHeaderKeeps, GetDataKeeps, GetEndKeeps, GetSecondEndKeeps, GetLastKeeps
  <1>2. CASE YM!LosePacket
    <2>1. /\ to # << >> /\ to' = Tail(to)
          /\ UNCHANGED <<rym_at, stage, disk, cur_f, result, from, sender>>
      BY <1>2 DEF YM!LosePacket, YM!Fault, YM!recvVars
    <2> QED  BY <2>1, PacketFaultKeeps
  <1>3. CASE YM!LoseCode
    <2>1. /\ from # << >> /\ from' = Tail(from)
          /\ UNCHANGED <<rym_at, stage, disk, cur_f, result, to, sender>>
      BY <1>3 DEF YM!LoseCode, YM!Fault, YM!recvVars
    <2> QED  BY <2>1, LoseCodeKeeps
  <1>4. ASSUME NEW s \in {"short", "corrupt"}, YM!Damage(s) PROVE YmInv'
    <2>1. /\ to # << >> /\ Head(to) # YM!EOT /\ to' = [to EXCEPT ![1].state = s]
          /\ UNCHANGED <<rym_at, stage, disk, cur_f, result, from, sender>>
      BY <1>4 DEF YM!Damage, YM!Fault, YM!recvVars
    <2> QED  BY <2>1, PacketFaultKeeps, Zenon
  <1> QED
    BY <1>1, <1>2, <1>3, <1>4, InviteKeeps, InviteAgainKeeps, ReadyKeeps, WaitExpiresKeeps,
       AnswerKeeps DEF YM!YmodemNext

\* A step that may also leave the download as it is.
LEMMA YmStepKeeps ==
    ASSUME YmInv, YM!YmodemAssumption, [YM!YmodemNext]_YM!ymodemVars
    PROVE  YmInv'
<1>1. CASE UNCHANGED YM!ymodemVars
  <2>1. UNCHANGED <<rym_at, stage, disk, cur_f, result, to, from, sender>>
    BY <1>1 DEF YM!ymodemVars, YM!recvVars
  <2>2. \A f : YM!Received(f)' = YM!Received(f)
    BY <2>1 DEF YM!Received
  <2>3. YmTypes'
    BY <2>1, <2>2 DEF YmInv, YmTypes
  <2>4. /\ \A g : Headers(to, g)' = Headers(to, g) /\ Whole(g)' = Whole(g)
        /\ \A g, s : Packets(to, g, s)' = Packets(to, g, s) /\ Following(g, s)' = Following(g, s)
        /\ OnlyCalls(from)' = OnlyCalls(from) /\ Accepts(from)' = Accepts(from)
        /\ Ends(from)' = Ends(from) /\ Failed' = Failed
        /\ \A g : Opened(g)' = Opened(g)
    BY <2>1, <2>2 DEF Headers, Packets, Following, Whole, OnlyCalls, Accepts, Ends, Failed, Opened
  <2>5. /\ Starting' = Starting /\ Closing' = Closing
        /\ \A f : Heading(f)' = Heading(f) /\ Going(f)' = Going(f)
    BY <2>1, <2>4 DEF Starting, Closing, Heading, Going, Greeting
  <2>6. \A f, n : Blocking(f, n)' = Blocking(f, n)
    BY <2>1, <2>4 DEF Blocking
  <2>7. \A f : Ending(f)' = Ending(f)
    BY <2>1, <2>4 DEF Ending
  <2>8. \A f : EndingAgain(f)' = EndingAgain(f) /\ Passing(f)' = Passing(f)
    BY <2>1, <2>4 DEF EndingAgain, Passing
  <2>9. Turn'
    BY <2>1, <2>4, <2>5, <2>6, <2>7, <2>8 DEF YmInv, Turn
  <2>10. (Failed \/ Ordered)'
    BY <2>1, <2>2 DEF YmInv, Failed, Ordered, Whole
  <2> QED  BY <2>3, <2>9, <2>10 DEF YmInv
<1> QED
  BY <1>1, YmNextKeeps

-----------------------------------------------------------------------------
(* The object that is used *)

\* What the objects assume of their constants.
LEMMA Assumed ==
    /\ MemPoolAssumption /\ DataQueueAssumption /\ CompletionAssumption
    /\ WorkQueueAssumption /\ LeuartAssumption
    /\ MH!MemHeapAssumption /\ YM!YmodemAssumption /\ PM!PmAssumption /\ SP!SpiAssumption
    /\ HT!TickAssumption /\ HT!HardTimerAssumption
  BY ServicesAssumption, DevicesAssumption DEF ServicesAssumption, DevicesAssumption


\* A step changes nothing but the object, by one of its steps.
LEMMA StepOfObject ==
    ASSUME [ServicesNext]_allVars
    PROVE  /\ object' = object
           /\ object = "event" => [EvNext]_evSpecVars
           /\ object = "pool" => [MpNext]_mpSpecVars
           /\ object = "data" => [DqNext]_dqSpecVars
           /\ object = "completion" => [CpNext]_cpSpecVars
           /\ object = "work" => [WqNext]_wqSpecVars
           /\ object = "line" => [LeNext]_leSpecVars
           /\ object = "heap" => [MH!HeapNext]_MH!heapVars
           /\ object = "update" => [YM!YmodemNext]_YM!ymodemVars
           /\ object = "power" => [PM!PmNext]_PM!pmVars
           /\ object = "bus" => [SP!SpiNext]_SP!spiVars
           /\ object = "timers" => [HT!HardTimerNext]_HT!timerVars
  <1>1. CASE UNCHANGED allVars
    <2>1. UNCHANGED <<object, kernelVars, plainVars>>
      BY <1>1 DEF allVars
    <2>2. UNCHANGED <<ipcVars, set, mpVars, dqVars, cpVars, wqVars, lineVars>>
      BY <2>1 DEF kernelVars
    <2>3. UNCHANGED <<heapVars, updateVars, powerVars, busVars, timerVars>>
      BY <2>1 DEF plainVars
    <2>4. UNCHANGED <<evSpecVars, mpSpecVars, dqSpecVars, cpSpecVars, wqSpecVars, leSpecVars>>
      BY <2>2 DEF evSpecVars, mpSpecVars, dqSpecVars, cpSpecVars, wqSpecVars, leSpecVars
    <2>5. UNCHANGED <<MH!heapVars, YM!ymodemVars, PM!pmVars, SP!spiVars, HT!timerVars>>
      BY <2>3 DEF heapVars, updateVars, powerVars, busVars, timerVars,
                  MH!heapVars, YM!ymodemVars, YM!recvVars, PM!pmVars, SP!spiVars, HT!timerVars
    <2> QED  BY <2>1, <2>4, <2>5
  <1>2. CASE EventNext
    <2>1. object = "event" /\ object' = object /\ EvNext
      BY <1>2 DEF EventNext
    <2> QED  BY <2>1
  <1>3. CASE PoolNext
    <2>1. object = "pool" /\ object' = object /\ MpNext
      BY <1>3 DEF PoolNext
    <2> QED  BY <2>1
  <1>4. CASE DataNext
    <2>1. object = "data" /\ object' = object /\ DqNext
      BY <1>4 DEF DataNext
    <2> QED  BY <2>1
  <1>5. CASE CompletionNext
    <2>1. object = "completion" /\ object' = object /\ CpNext
      BY <1>5 DEF CompletionNext
    <2> QED  BY <2>1
  <1>6. CASE WorkNext
    <2>1. object = "work" /\ object' = object /\ WqNext
      BY <1>6 DEF WorkNext
    <2> QED  BY <2>1
  <1>7. CASE LineNext
    <2>1. object = "line" /\ object' = object /\ LeNext
      BY <1>7 DEF LineNext
    <2> QED  BY <2>1
  <1>8. CASE PowerNext
    <2>1. object = "power" /\ object' = object /\ PM!PmNext
      BY <1>8 DEF PowerNext
    <2> QED  BY <2>1
  <1>9. CASE BusNext
    <2>1. object = "bus" /\ object' = object /\ SP!SpiNext
      BY <1>9 DEF BusNext
    <2> QED  BY <2>1
  <1>10. CASE HeapNext
    <2>1. object = "heap" /\ object' = object /\ MH!HeapNext
      BY <1>10 DEF HeapNext
    <2> QED  BY <2>1
  <1>13. CASE UpdateNext
    <2>1. object = "update" /\ object' = object /\ YM!YmodemNext
      BY <1>13 DEF UpdateNext
    <2> QED  BY <2>1
  <1>12. CASE TimersNext
    <2>1. object = "timers" /\ object' = object /\ HT!HardTimerNext
      BY <1>12 DEF TimersNext
    <2> QED  BY <2>1
  <1>11. CASE UpdateOver
    <2>1. object = "update" /\ UNCHANGED allVars
      BY <1>11 DEF UpdateOver
    <2> QED  BY <2>1, <1>1
  <1> QED  BY <1>1, <1>2, <1>3, <1>4, <1>5, <1>6, <1>7, <1>8, <1>9, <1>10, <1>11, <1>12,
     <1>13 DEF ServicesNext


\* Each object that is used keeps its invariant.
LEMMA EventAlways == ServicesSpec => [](object = "event" => EventInv)
<1>1. ServicesInit => (object = "event" => EventInv)
  BY EventInit DEF ServicesInit
<1>2. (object = "event" => EventInv) /\ [ServicesNext]_allVars
          => (object = "event" => EventInv)'
  BY StepOfObject, EventKeeps
<1> QED
  BY <1>1, <1>2, PTL DEF ServicesSpec

LEMMA PoolAlways == ServicesSpec => [](object = "pool" => PoolInv)
<1>1. ServicesInit => (object = "pool" => PoolInv)
  BY PoolInvInit, Assumed DEF ServicesInit
<1>2. (object = "pool" => PoolInv) /\ [ServicesNext]_allVars
          => (object = "pool" => PoolInv)'
  BY StepOfObject, PoolKeeps, Assumed
<1> QED
  BY <1>1, <1>2, PTL DEF ServicesSpec

LEMMA DataAlways ==
  ASSUME NoWrap
  PROVE  ServicesSpec => [](object = "data" => DataInv)
<1>1. ServicesInit => (object = "data" => DataInv)
  BY DataInvInit, Assumed DEF ServicesInit
<1>2. (object = "data" => DataInv) /\ [ServicesNext]_allVars
          => (object = "data" => DataInv)'
  BY StepOfObject, DataKeeps, Assumed
<1> QED
  BY <1>1, <1>2, PTL DEF ServicesSpec

LEMMA DoneAlways == ServicesSpec => [](object = "completion" => DoneInv)
<1>1. ServicesInit => (object = "completion" => DoneInv)
  BY DoneInvInit, Assumed DEF ServicesInit
<1>2. (object = "completion" => DoneInv) /\ [ServicesNext]_allVars
          => (object = "completion" => DoneInv)'
  BY StepOfObject, DoneKeeps, Assumed
<1> QED
  BY <1>1, <1>2, PTL DEF ServicesSpec

LEMMA WorkAlways ==
  ASSUME Serial, WorkerFirst
  PROVE  ServicesSpec => [](object = "work" => WorkInv)
<1>1. ServicesInit => (object = "work" => WorkInv)
  BY WorkInvInit, Assumed DEF ServicesInit
<1>2. (object = "work" => WorkInv) /\ [ServicesNext]_allVars
          => (object = "work" => WorkInv)'
  BY StepOfObject, WorkKeeps, Assumed
<1> QED
  BY <1>1, <1>2, PTL DEF ServicesSpec

LEMMA LineAlways == ServicesSpec => [](object = "line" => LineInv)
<1>1. ServicesInit => (object = "line" => LineInv)
  BY LineInvInit, Assumed DEF ServicesInit
<1>2. (object = "line" => LineInv) /\ [ServicesNext]_allVars
          => (object = "line" => LineInv)'
  BY StepOfObject, LineKeeps, Assumed
<1> QED
  BY <1>1, <1>2, PTL DEF ServicesSpec

\* No send of an event, by a thread or by a handler, wakes two receivers that
\* both take an event out of the set, for any receivers, events and calls.
THEOREM EventsTakenOnce == ServicesSpec => EventTakenOnce
<1>1. (object = "event" => EventInv) /\ [ServicesNext]_allVars
          => [object = "event" /\ wl' # wl => TakesOnce]_evSpecVars
  BY StepOfObject, EventKeeps
<1> QED
  BY <1>1, EventAlways, PTL DEF ServicesSpec, EventTakenOnce

\* The worker takes work only from a list that has some, pending work is on the
\* list or in hand, and a synchronous cancellation waits for the run that it
\* found (rt_workqueue_submit_work, rt_workqueue_cancel_work_sync), for any
\* threads and work, if the calls do not overlap and the worker comes first.
THEOREM WorkQueueAccounted ==
  ASSUME Serial, WorkerFirst
  PROVE  ServicesSpec => []WorkAccounted
<1>1. (object = "work" => WorkInv) => WorkAccounted
  BY WorkInvImplies, Assumed DEF WorkAccounted
<1> QED
  BY <1>1, WorkAlways, PTL

\* Nobody sleeps beside a set event, a free block, an item, a free place, a
\* completion, work or a received byte, unless those who were woken for it are
\* on their way, whatever handlers and time-outs meet between two sections.
THEOREM ServicesStrandNobody ==
  ASSUME NoWrap, Serial, WorkerFirst
  PROVE  ServicesSpec => []NoThreadStranded
<1>1. /\ object = "event" => EventInv
      /\ object = "pool" => PoolInv
      /\ object = "data" => DataInv
      /\ object = "completion" => DoneInv
      /\ object = "work" => WorkInv
      /\ object = "line" => LineInv
      => NoThreadStranded
  <2> USE Assumed
  <2> SUFFICES ASSUME object = "event" => EventInv, object = "pool" => PoolInv,
                      object = "data" => DataInv, object = "completion" => DoneInv,
                      object = "work" => WorkInv, object = "line" => LineInv
               PROVE  NoThreadStranded
    OBVIOUS
  <2>1. object = "event" => EvNoneStranded
    BY DEF EventInv
  <2>2. object = "pool" => MpNoneStranded
    BY PoolInvImplies
  <2>3. object = "data" => DqNoneStranded
    BY DataInvImplies
  <2>4. object = "completion" => CpNoneStranded
    BY DEF DoneInv
  <2>5. object = "work" => WqNoneStranded
    BY WorkInvImplies
  <2>6. object = "line" => LeNoneStranded
    BY DEF LineInv
  <2> QED  BY <2>1, <2>2, <2>3, <2>4, <2>5, <2>6 DEF NoThreadStranded
<1> QED
  BY <1>1, EventAlways, PoolAlways, DataAlways, DoneAlways, WorkAlways, LineAlways, PTL

LEMMA PowerAlways == ServicesSpec => [](object = "power" => PmInv)
<1>1. ServicesInit => (object = "power" => PmInv)
  BY PmInitInv, Assumed DEF ServicesInit
<1>2. (object = "power" => PmInv) /\ [ServicesNext]_allVars
          => (object = "power" => PmInv)'
  BY StepOfObject, PmNextKeeps, Assumed
<1> QED
  BY <1>1, <1>2, PTL DEF ServicesSpec

LEMMA BusAlways == ServicesSpec => [](object = "bus" => BusInv)
<1>1. ServicesInit => (object = "bus" => BusInv)
  BY BusInitInv, Assumed DEF ServicesInit
<1>2. (object = "bus" => BusInv) /\ [ServicesNext]_allVars
          => (object = "bus" => BusInv)'
  BY StepOfObject, BusNextKeeps, Assumed
<1> QED
  BY <1>1, <1>2, PTL DEF ServicesSpec

LEMMA TimersAlways == ServicesSpec => [](object = "timers" => TimersInv)
<1>1. ServicesInit => (object = "timers" => TimersInv)
  BY TimersInvInit DEF ServicesInit
<1>2. (object = "timers" => TimersInv) /\ [ServicesNext]_allVars
          => (object = "timers" => TimersInv)'
  BY StepOfObject, TimersKeeps
<1> QED
  BY <1>1, <1>2, PTL DEF ServicesSpec

\* Between two sections the lists, counts and states of the object agree: for
\* any threads, events, blocks, items, work, modes, devices and timers, and any
\* range of the tick.  The data queue does not count to the end of its indices
\* (MaxPut), and the work queue is used as it is meant to be.
THEOREM ServicesStayConsistent ==
  ASSUME NoWrap, Serial, WorkerFirst
  PROVE  ServicesSpec => []ServicesConsistent
<1>1. /\ object = "event" => EventInv
      /\ object = "pool" => PoolInv
      /\ object = "data" => DataInv
      /\ object = "completion" => DoneInv
      /\ object = "work" => WorkInv
      /\ object = "line" => LineInv
      /\ object = "power" => PmInv
      /\ object = "bus" => BusInv
      /\ object = "timers" => TimersInv
      => ServicesConsistent
  <2> USE Assumed
  <2> SUFFICES ASSUME object = "event" => EventInv, object = "pool" => PoolInv,
                      object = "data" => DataInv, object = "completion" => DoneInv,
                      object = "work" => WorkInv, object = "line" => LineInv,
                      object = "power" => PmInv, object = "bus" => BusInv,
                      object = "timers" => TimersInv
               PROVE  ServicesConsistent
    OBVIOUS
  <2>1. object = "event" => EvConsistent
    BY EventInvImplies
  <2>2. object = "pool" => MpConsistent
    BY PoolInvImplies
  <2>3. object = "data" => DqConsistent
    BY DataInvImplies
  <2>4. object = "completion" => CpConsistent
    BY DoneInvImplies
  <2>5. object = "work" => WqConsistent
    BY WorkInvImplies
  <2>6. object = "line" => LeConsistent
    BY LineInvImplies
  <2>7. object = "power" => PM!PowerConsistent
    BY PmInvImplies
  <2>8. object = "bus" => SP!BusConsistent
    BY BusInvImplies
  <2>9. object = "timers" => HT!TimersConsistent
    BY TimersInvImplies
  <2> QED  BY <2>1, <2>2, <2>3, <2>4, <2>5, <2>6, <2>7, <2>8, <2>9 DEF ServicesConsistent
<1> QED
  BY <1>1, EventAlways, PoolAlways, DataAlways, DoneAlways, WorkAlways, LineAlways,
     PowerAlways, BusAlways, TimersAlways, PTL

LEMMA HeapAlways == ServicesSpec => [](object = "heap" => HeapInv)
<1>1. ServicesInit => (object = "heap" => HeapInv)
  BY HeapInvInit, Assumed DEF ServicesInit
<1>2. (object = "heap" => HeapInv) /\ [ServicesNext]_allVars
          => (object = "heap" => HeapInv)'
  BY StepOfObject, HeapStepKeeps, Assumed
<1> QED
  BY <1>1, <1>2, PTL DEF ServicesSpec

LEMMA YmAlways == ServicesSpec => [](object = "update" => YmInv)
<1>1. ServicesInit => (object = "update" => YmInv)
  BY YmInvInit, Assumed DEF ServicesInit
<1>2. (object = "update" => YmInv) /\ [ServicesNext]_allVars
          => (object = "update" => YmInv)'
  BY StepOfObject, YmStepKeeps, Assumed
<1> QED
  BY <1>1, <1>2, PTL DEF ServicesSpec

\* rt_event_recv returns RT_EOK only with the events that were asked for,
\* rt_completion_wait only after a completion, and both ends of a firmware
\* download call it whole only if every file is on the disk, block by block,
\* whatever packets and answers are lost or damaged.
THEOREM ResultsTrue == ServicesSpec => []ResultTrue
<1>1. /\ object = "event" => EventInv
      /\ object = "completion" => DoneInv
      /\ object = "update" => YmInv
      => ResultTrue
  <2> SUFFICES ASSUME object = "event" => EventInv, object = "completion" => DoneInv,
                      object = "update" => YmInv
               PROVE  ResultTrue
    OBVIOUS
  <2>1. object = "event" => OutcomeTrue
    BY DEF EventInv
  <2>2. object = "completion" => CompletionTrue
    BY DEF DoneInv
  <2>3. object = "update" => YM!FilesTrue
    BY YmInvImplies, Assumed
  <2> QED  BY <2>1, <2>2, <2>3 DEF ResultTrue
<1> QED
  BY <1>1, EventAlways, DoneAlways, YmAlways, PTL

\* No block of a memory pool is both free and allocated or lost (rt_mp_alloc,
\* rt_mp_free), and the blocks of the heap tile it with no two free neighbours,
\* the free ones listed and counted (rt_malloc, rt_realloc, rt_free), for any
\* blocks, sizes and requests and any interleaving of their callers.
THEOREM AllBlocksAccounted == ServicesSpec => []BlocksAccounted
<1>1. /\ object = "pool" => PoolInv
      /\ object = "heap" => HeapInv
      => BlocksAccounted
  <2>1. ASSUME object = "pool", PoolInv PROVE MpBlocksAccounted
    BY <2>1, PoolInvImplies, Assumed
  <2>2. ASSUME object = "heap", HeapInv PROVE MH!HeapConsistent
    BY <2>2, HeapInvImplies, Assumed
  <2> QED  BY <2>1, <2>2 DEF BlocksAccounted
<1> QED
  BY <1>1, PoolAlways, HeapAlways, PTL

=============================================================================
