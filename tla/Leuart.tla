------------------------------- MODULE Leuart -------------------------------
(***************************************************************************)
(* The console line: the interrupt mode reception and the polled           *)
(* transmission of src/drivers/drv_leuart.c, below finsh_getchar of the    *)
(* shell and the rt_kprintf of every thread.  The interrupt handler fills  *)
(* a ring and releases the shell's semaphore; reads and writes exclude     *)
(* each other by the semaphore of the device.                              *)
(*                                                                         *)
(* The device is opened once.  A read asks for one byte, as finsh_getchar  *)
(* does.  A write from an interrupt handler, which gives up when the       *)
(* device is busy, leaves the state as it is.                              *)
(***************************************************************************)
EXTENDS Ipc

CONSTANTS Shell,    \* the thread that reads
          Byte,     \* what is received
          NoByte,  \* the content of an unused place of the ring
          RxSize,   \* LEUART_RX_BUFFER_SIZE
          MaxRx     \* bound: the unclaimed releases of the shell's semaphore

LeuartAssumption ==
    /\ Shell \in App /\ {"lock", "rx"} \subseteq WaitList
    /\ RxSize \in Nat \ {0, 1} /\ MaxRx \in Nat

VARIABLES data_ptr,    \* int_rx->data_ptr
          save_index,  \* int_rx->save_index
          read_index,  \* int_rx->read_index
          lock,        \* leuart->lock->value
          rx_sem,      \* shell->rx_sem.value
          missed,      \* the last read of the shell returned 0
          heard        \* the last byte that it returned

lineVars == <<data_ptr, save_index, read_index, lock, rx_sem, missed, heard>>

leSpecVars == <<ipcVars, lineVars>>

LeInit ==
    /\ IpcInit
    /\ data_ptr = [i \in 0 .. RxSize - 1 |-> NoByte]
    /\ save_index = 0 /\ read_index = 0
    /\ lock = 1 /\ rx_sem = 0
    /\ missed = FALSE /\ heard = NoByte

-----------------------------------------------------------------------------
ReadCall == [op |-> "lock", of |-> "read"]

WriteCall == [op |-> "lock", of |-> "write"]

RxCall == [op |-> "rx"]

After(i) == IF i + 1 >= RxSize THEN 0 ELSE i + 1

\* rt_sem_take of the device's semaphore, at the start of rt_leuart_read or
\* rt_leuart_write.  The shell reads again only after it has taken its own.
TakeLock(c) ==
    /\ Calling
    /\ Me = Shell => ~ missed
    /\ c = ReadCall => Me = Shell
    /\ IF lock > 0
       THEN /\ lock' = lock - 1
            /\ k' = [k EXCEPT !.err[Me] = "EOK"]
            /\ call' = [call EXCEPT ![Me] = c]
            /\ Goto("locked")
            /\ UNCHANGED wl
       ELSE /\ Block("lock", Append(wl["lock"], Me), c, "forever")
            /\ UNCHANGED lock
    /\ UNCHANGED <<data_ptr, save_index, read_index, rx_sem, missed, heard>>

\* The wait for it is over.
GotLock ==
    /\ Retrying("lock")
    /\ Goto("locked")
    /\ UNCHANGED <<k, wl, call, lineVars>>

\* The loop of rt_leuart_read with size 1.
Read ==
    /\ At("locked") /\ call[Me] = ReadCall
    /\ IF read_index # save_index
       THEN /\ heard' = data_ptr[read_index]
            /\ read_index' = After(read_index)
            /\ missed' = FALSE
       ELSE missed' = TRUE /\ UNCHANGED <<heard, read_index>>
    /\ Goto("unlock")
    /\ UNCHANGED <<k, wl, call, data_ptr, save_index, lock, rx_sem>>

\* rt_leuart_write has polled its bytes out.
Write ==
    /\ At("locked") /\ call[Me] = WriteCall
    /\ Goto("unlock")
    /\ UNCHANGED <<k, wl, call, lineVars>>

\* Mutant: the semaphore's value also grows when it goes to a waiter.
MutUnlock ==
    /\ At("unlock")
    /\ lock' = lock + 1
    /\ ThreadWakes("lock")
    /\ UNCHANGED <<data_ptr, save_index, read_index, rx_sem, missed, heard>>

\* rt_sem_release of the device's semaphore.
Unlock ==
    /\ At("unlock")
    /\ lock' = IF wl["lock"] = << >> THEN lock + 1 ELSE lock
    /\ ThreadWakes("lock")
    /\ UNCHANGED <<data_ptr, save_index, read_index, rx_sem, missed, heard>>

\* finsh_getchar has read nothing and takes shell->rx_sem ...
RxTake ==
    /\ Calling /\ Me = Shell /\ missed
    /\ IF rx_sem > 0
       THEN /\ rx_sem' = rx_sem - 1 /\ missed' = FALSE
            /\ k' = [k EXCEPT !.err[Me] = "EOK"]
            /\ UNCHANGED <<wl, pc, call>>
       ELSE /\ Block("rx", Append(wl["rx"], Me), RxCall, "forever")
            /\ UNCHANGED <<rx_sem, missed>>
    /\ UNCHANGED <<data_ptr, save_index, read_index, lock, heard>>

\* ... or has got it after a wait.
RxGot ==
    /\ Retrying("rx")
    /\ missed' = FALSE
    /\ EndCall("run")
    /\ UNCHANGED <<k, wl, data_ptr, save_index, read_index, lock, rx_sem, heard>>

\* Mutant: a full ring is taken for an empty one.
MutSaved(r, v) ==
    [r EXCEPT !.data[r.save] = v, !.save = After(@)]

\* One round of the loop of rt_hw_leuart_rx_isr, in the record r: the byte v is
\* saved, and pushes the oldest one out when it comes to its place.
Saved(r, v) ==
    LET next == After(r.save)
    IN  [data |-> [r.data EXCEPT ![r.save] = v],
         save |-> next,
         read |-> IF next = r.read THEN After(r.read) ELSE r.read]

\* rt_hw_leuart_rx_isr with the bytes that have come, and finsh_rx_ind.
RxIsr(bytes) ==
    /\ wl["rx"] = << >> => rx_sem < MaxRx
    /\ LET saved[n \in 0 .. Len(bytes)] ==
               IF n = 0 THEN [data |-> data_ptr, save |-> save_index, read |-> read_index]
               ELSE Saved(saved[n - 1], bytes[n])
           r == saved[Len(bytes)]
       IN  data_ptr' = r.data /\ save_index' = r.save /\ read_index' = r.read
    /\ rx_sem' = IF wl["rx"] = << >> THEN rx_sem + 1 ELSE rx_sem
    /\ IsrWakes("rx")
    /\ UNCHANGED <<lock, missed, heard>>

-----------------------------------------------------------------------------
LeNext ==
    \/ ((\E t \in Thread : Startup(t)) \/ CallSchedule \/ TickYield) /\ UNCHANGED lineVars
    \/ (\E c \in {ReadCall, WriteCall} : TakeLock(c)) \/ GotLock
    \/ Read \/ Write \/ Unlock \/ RxTake \/ RxGot
    \/ \E n \in 1 .. 2 : \E bytes \in [1 .. n -> Byte] : RxIsr(bytes)

-----------------------------------------------------------------------------
(* Properties *)

LeTypeOK ==
    /\ IpcTypeOK
    /\ pc \in [Thread -> {"run", "pend", "blocked", "wait", "locked", "unlock"}]
    /\ call \in [Thread -> {NoCall, ReadCall, WriteCall, RxCall}]
    /\ data_ptr \in [0 .. RxSize - 1 -> Byte \cup {NoByte}]
    /\ {save_index, read_index} \subseteq 0 .. RxSize - 1
    /\ lock \in {0, 1} /\ rx_sem \in 0 .. MaxRx
    /\ missed \in BOOLEAN /\ heard \in Byte \cup {NoByte}

Owns(t) ==
    \/ pc[t] \in {"locked", "unlock"}
    \/ t \in Woken /\ call[t] \in {ReadCall, WriteCall}

\* The device is free or belongs to one thread, be it one that was woken with
\* it and has not run yet; the kernel's state and the wait lists agree.
LeConsistent ==
    /\ LeTypeOK /\ KernelConsistent /\ WaitersParked /\ PreemptionPending
    /\ lock + Cardinality({t \in Thread : Owns(t)}) = 1

\* The shell does not sleep beside a received byte, whether it came before the
\* read, between the read that found nothing and the wait, or later; and nobody
\* waits for a device that is free.
LeNoneStranded ==
    /\ wl["rx"] # << >> => rx_sem = 0 /\ read_index = save_index
    /\ wl["lock"] # << >> => lock = 0

RxCount == (save_index - read_index) % RxSize

\* The ring, from the read index on.
RxRing == [i \in 1 .. RxCount |-> data_ptr[(read_index + i - 1) % RxSize]]

Line == INSTANCE Backlog WITH
            Capacity <- RxSize - 1, Nothing <- NoByte, queue <- RxRing

\* The bytes are read in order, and only the oldest ones are lost.
ImplementsBacklog == Line!BacklogSpec
=============================================================================
