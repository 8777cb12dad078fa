-------------------------------- MODULE Spi --------------------------------
(***************************************************************************)
(* One SPI bus: rt_spi_configure, rt_spi_transfer and                      *)
(* rt_spi_send_then_recv of src/rt-thread/components/drivers/spi/          *)
(* spi_core.c over the DMA transfers of src/drivers/drv_spi.c.             *)
(*                                                                         *)
(* The threads interleave freely between the steps below.  The mutex of    *)
(* the bus is one: module Mutex has its waiting.  The semaphore of the     *)
(* driver is taken under it and never contended.  A setting stands for     *)
(* mode, width and polarity of the chip select; a failed transfer and the  *)
(* chip select before the first configuration are left out.                *)
(***************************************************************************)
EXTENDS Naturals, Sequences

CONSTANTS User,     \* the threads
          Dev,      \* the devices on the bus
          Setting,  \* the configurations that the driver accepts
          Unset,    \* that of a device which was only attached; refused
          NoUser, NoDev

SpiAssumption ==
    /\ Unset \notin Setting /\ NoUser \notin User /\ NoDev \notin Dev

VARIABLES config,     \* device -> its config
          owner,      \* bus->owner
          usart,      \* the setting of the USART
          selected,   \* the devices whose chip select is driven
          locker,     \* the owner of bus->lock
          tx_active, rx_active,  \* of the DMA channels
          user_at,    \* thread -> where it is
          job         \* thread -> its call: the device, the messages and the chunks that are left

spiVars == <<config, owner, usart, selected, locker, tx_active, rx_active, user_at, job>>

\* What a message does, and in how many pieces of SWAP_SIZE.
SpiMessage == [recv : BOOLEAN, chunks : 1 .. 2]

\* One message, or one that sends and one that receives.
Transfer ==
    {<<m>> : m \in SpiMessage}
        \cup {ms \in SpiMessage \X SpiMessage : ~ ms[1].recv /\ ms[2].recv}

NoJob == [dev |-> NoDev]

Init ==
    /\ config = [d \in Dev |-> Unset]
    /\ owner = NoDev /\ usart = Unset /\ selected = {}
    /\ locker = NoUser
    /\ tx_active = FALSE /\ rx_active = FALSE
    /\ user_at = [u \in User |-> "run"] /\ job = [u \in User |-> NoJob]

At(u, a) == user_at[u] = a

Goto(u, a) == user_at' = [user_at EXCEPT ![u] = a]

-----------------------------------------------------------------------------
(* rt_spi_configure *)

\* The configuration is written before the lock is taken.
SetConfig(u, d, s) ==
    /\ At(u, "run")
    /\ config' = [config EXCEPT ![d] = s]
    /\ job' = [job EXCEPT ![u] = [dev |-> d]]
    /\ Goto(u, "configure")
    /\ UNCHANGED <<owner, usart, selected, locker, tx_active, rx_active>>

\* spi_configure, whose efm32_spi_init also releases the chip select.
Apply(d) ==
    /\ usart' = config[d]
    /\ selected' = selected \ {d}

\* Mutant: the USART is set up for a device that does not have the bus.
MutConfigure(u) ==
    /\ At(u, "configure") /\ locker = NoUser
    /\ Apply(job[u].dev)
    /\ job' = [job EXCEPT ![u] = NoJob]
    /\ Goto(u, "run")
    /\ UNCHANGED <<config, owner, locker, tx_active, rx_active>>

\* Under the lock the USART is set up, if the device had it last.
Configure(u) ==
    /\ At(u, "configure") /\ locker = NoUser
    /\ IF owner = job[u].dev THEN Apply(owner) ELSE UNCHANGED <<usart, selected>>
    /\ job' = [job EXCEPT ![u] = NoJob]
    /\ Goto(u, "run")
    /\ UNCHANGED <<config, owner, locker, tx_active, rx_active>>

-----------------------------------------------------------------------------
(* rt_spi_transfer with one message, rt_spi_send_then_recv with two *)

\* The bus is taken, and set up when another device had it.
TakeBus(u, d, messages) ==
    /\ At(u, "run") /\ locker = NoUser
    /\ IF owner = d THEN UNCHANGED <<owner, usart, selected>>
       ELSE config[d] # Unset /\ owner' = d /\ Apply(d)
    /\ locker' = u
    /\ job' = [job EXCEPT ![u] = [dev |-> d, messages |-> messages, chunk |-> 0]]
    /\ Goto(u, "select")
    /\ UNCHANGED <<config, tx_active, rx_active>>

\* spiDmaXfer with cs_take; the driver's semaphore is free.
Select(u) ==
    /\ At(u, "select")
    /\ selected' = selected \cup {job[u].dev}
    /\ Goto(u, "start")
    /\ UNCHANGED <<config, owner, usart, locker, tx_active, rx_active, job>>

\* _dmaxfer.  The address of a second chunk is an offset from recv_buf, which
\* is not NULL even if recv_buf is.
StartDma(u) ==
    /\ At(u, "start")
    /\ tx_active' = TRUE
    /\ rx_active' = (Head(job[u].messages).recv \/ job[u].chunk > 0)
    /\ job' = [job EXCEPT ![u].chunk = @ + 1]
    /\ Goto(u, "busy")
    /\ UNCHANGED <<config, owner, usart, selected, locker>>

txFinished ==
    /\ tx_active /\ tx_active' = FALSE
    /\ UNCHANGED <<config, owner, usart, selected, locker, rx_active, user_at, job>>

rxComplete ==
    /\ rx_active /\ rx_active' = FALSE
    /\ UNCHANGED <<config, owner, usart, selected, locker, tx_active, user_at, job>>

\* Both channels are done: the next chunk, the next message with the device
\* still selected, or the end.
EndDma(u) ==
    /\ At(u, "busy") /\ ~ tx_active /\ ~ rx_active
    /\ LET left == job[u].messages
       IN  IF job[u].chunk < Head(left).chunks
           THEN Goto(u, "start") /\ UNCHANGED <<job, selected>>
           ELSE IF Len(left) > 1
           THEN /\ job' = [job EXCEPT ![u].messages = Tail(left), ![u].chunk = 0]
                /\ Goto(u, "start") /\ UNCHANGED selected
           ELSE /\ selected' = selected \ {job[u].dev}
                /\ Goto(u, "release") /\ UNCHANGED job
    /\ UNCHANGED <<config, owner, usart, locker, tx_active, rx_active>>

ReleaseBus(u) ==
    /\ At(u, "release")
    /\ locker' = NoUser
    /\ job' = [job EXCEPT ![u] = NoJob]
    /\ Goto(u, "run")
    /\ UNCHANGED <<config, owner, usart, selected, tx_active, rx_active>>

SpiNext ==
    \/ txFinished \/ rxComplete
    \/ \E u \in User :
          \/ \E d \in Dev : \/ \E s \in Setting : SetConfig(u, d, s)
                          \/ \E ms \in Transfer : TakeBus(u, d, ms)
          \/ Configure(u) \/ Select(u) \/ StartDma(u) \/ EndDma(u) \/ ReleaseBus(u)

SpiSpec == Init /\ [][SpiNext]_spiVars

-----------------------------------------------------------------------------
(* Properties *)

TypeOK ==
    /\ config \in [Dev -> Setting \cup {Unset}] /\ usart \in Setting \cup {Unset}
    /\ owner \in Dev \cup {NoDev} /\ selected \subseteq Dev
    /\ locker \in User \cup {NoUser}
    /\ {tx_active, rx_active} \subseteq BOOLEAN
    /\ user_at \in [User -> {"run", "configure", "select", "start", "busy", "release"}]
    /\ \A u \in User : job[u].dev \in Dev \cup {NoDev}

\* While a byte moves, the device that it is for is selected, it alone, and the
\* thread that sends it has the bus; nothing stays selected or under way when
\* the bus is given up.  Except while a configuration is on its way, the USART
\* is set up as the device that had it last says.
BusConsistent ==
    /\ TypeOK
    /\ tx_active \/ rx_active => locker # NoUser /\ At(locker, "busy")
    /\ locker = NoUser => selected = {}
    /\ locker # NoUser =>
          /\ job[locker].dev = owner
          /\ selected = IF At(locker, "start") \/ At(locker, "busy") THEN {owner} ELSE {}
    /\ \/ owner = NoDev \/ usart = config[owner]
       \/ \E u \in User : At(u, "configure") /\ job[u].dev = owner
=============================================================================
