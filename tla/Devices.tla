------------------------------ MODULE Devices ------------------------------
(* The objects of module MCServices that use nothing of the kernel but its    *)
(* tick: the heap, the firmware update, the power management, the SPI bus and *)
(* the hard timers, side by side.                                             *)
CONSTANTS Task, PoolSize, Header, Mini, Request,
          Length, Tries, MaxFault,
          Mode, PmMax,
          Dev, Setting, Unset, Nil,
          TickMod, Timer, Periodic, Stops, Time, MaxLag

VARIABLES block, free_list, available, lent, step, arg, \* of MemHeap
          rym_at, stage, tries, buf, disk, cur_f,       \* of Ymodem
          result, to, from, sender, faults,
          modes, run_mode, freq_pending, speed,         \* of Pm
          sleep_mode, idle_at, busy, kept,
          config, owner, usart, selected, locker,       \* of Spi
          tx_active, rx_active, user_at, job,
          tick, rt_timer_list, timeout_tick, init_tick,  \* of HardTimer
          activated, timer_at, timer_arg, fresh

MH == INSTANCE MemHeap

YM == INSTANCE Ymodem

PM == INSTANCE Pm

SP == INSTANCE Spi WITH User <- Task, NoUser <- Nil, NoDev <- Nil

HT == INSTANCE HardTimer WITH User <- Task, NoTimer <- Nil

ASSUME DevicesAssumption ==
    /\ MH!MemHeapAssumption
    /\ YM!YmodemAssumption
    /\ PM!PmAssumption
    /\ SP!SpiAssumption
    /\ HT!TickAssumption /\ HT!HardTimerAssumption

heapVars == <<block, free_list, available, lent, step, arg>>

updateVars ==
    <<rym_at, stage, tries, buf, disk, cur_f, result, to, from, sender, faults>>

powerVars == <<modes, run_mode, freq_pending, speed, sleep_mode, idle_at, busy, kept>>

busVars == <<config, owner, usart, selected, locker, tx_active, rx_active, user_at, job>>

timerVars ==
    <<tick, rt_timer_list, timeout_tick, init_tick, activated, timer_at, timer_arg, fresh>>

\* The variables of the objects without the threads of the kernel.
plainVars == <<heapVars, updateVars, powerVars, busVars, timerVars>>
=============================================================================
