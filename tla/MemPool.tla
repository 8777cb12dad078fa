------------------------------ MODULE MemPool ------------------------------
(***************************************************************************)
(* rt_mp_alloc and rt_mp_free of src/rt-thread/src/mempool.c: a free list  *)
(* of blocks of one size, used by threads that may wait for a block and by *)
(* interrupt handlers.                                                     *)
(***************************************************************************)
EXTENDS Ipc

CONSTANTS MpBlock,   \* the blocks of the pool
          Null,     \* RT_NULL
          Pool,     \* the pool, whose address an allocated block carries
          MaxSuspended  \* bound: waits that are counted

MemPoolAssumption ==
    /\ IsFiniteSet(MpBlock) /\ MpBlock # {}
    /\ {Null, Pool} \cap MpBlock = {} /\ Null # Pool
    /\ "alloc" \in WaitList
    /\ MaxSuspended \in Nat

VARIABLES list,     \* mp->block_list
          link,     \* block -> the pointer in front of it
          count,    \* mp->block_free_count
          suspended \* mp->suspend_thread_count

mpVars == <<list, link, count, suspended>>

mpSpecVars == <<ipcVars, mpVars>>

\* rt_mp_init links the blocks in the order of their addresses.
MpInit ==
    /\ IpcInit
    /\ LET order == SetToSeq(MpBlock)
       IN  /\ list = order[1]
           /\ link = [b \in MpBlock |->
                         LET i == SelectInSeq(order, LAMBDA c : c = b)
                         IN  IF i = Len(order) THEN Null ELSE order[i + 1]]
    /\ count = Cardinality(MpBlock)
    /\ suspended = 0

-----------------------------------------------------------------------------
AllocCall(time) == [op |-> "alloc", time |-> time]

\* Mutant: the count is not taken down.
MutTake ==
    /\ count > 0
    /\ list' = link[list]
    /\ link' = [link EXCEPT ![list] = Pool]
    /\ UNCHANGED <<count, suspended>>

\* The first block leaves the list and points to its pool.
Take ==
    /\ count > 0
    /\ count' = count - 1
    /\ list' = link[list]
    /\ link' = [link EXCEPT ![list] = Pool]
    /\ UNCHANGED suspended

\* rt_mp_alloc finds a block, in its first round or in a later one.
Alloc(c) ==
    /\ Testing(c)
    /\ Take
    /\ EndCall("run")
    /\ UNCHANGED <<k, wl>>

\* It finds none and waits, ahead of those that wait already.
AllocBlock(c) ==
    /\ Testing(c)
    /\ count = 0
    /\ suspended < MaxSuspended
    /\ Block("alloc", <<Me>> \o wl["alloc"], c, c.time)
    /\ suspended' = suspended + 1
    /\ UNCHANGED <<list, link, count>>

AllocExpired == count = 0 /\ Expired("alloc", "ETIMEOUT") /\ UNCHANGED mpVars

IsrAlloc == IrqEnabled /\ Take /\ UNCHANGED ipcVars

\* Mutant: a waiter is woken only by the first block.
MutWakes == count = 0 /\ suspended > 0

\* A freed block goes to the waiter if one is counted.
Wakes == suspended > 0

\* The section of rt_mp_free.  When a waiter is counted and the list is empty the
\* code takes the list head for a thread: the step is not defined then, and
\* WaitersCounted says that it does not come to that.
Free(b) ==
    /\ link[b] = Pool
    /\ count' = count + 1
    /\ link' = [link EXCEPT ![b] = list]
    /\ list' = b
    /\ Wakes => wl["alloc"] # << >>
    /\ suspended' = IF Wakes THEN suspended - 1 ELSE suspended

\* The waiter, which the code takes from the head of its list, is resumed.
Served ==
    LET t == Head(wl["alloc"])
    IN  IF Wakes THEN Resume([k EXCEPT !.err[t] = "EOK"], t) ELSE k

ThreadFree(b) ==
    /\ Calling
    /\ Free(b)
    /\ k' = Served
    /\ wl' = IF Wakes THEN Popped("alloc") ELSE wl
    /\ Goto(IF Wakes THEN "pend" ELSE "run")
    /\ UNCHANGED call

\* Mutant: the handler leaves without rt_schedule.
MutIsrFree(b) ==
    /\ IrqEnabled
    /\ Free(b)
    /\ k' = Served
    /\ wl' = IF Wakes THEN Popped("alloc") ELSE wl
    /\ UNCHANGED <<pc, call>>

IsrFree(b) ==
    /\ IrqEnabled
    /\ Free(b)
    /\ k' = IF Wakes THEN Schedule(Served) ELSE k
    /\ wl' = IF Wakes THEN Popped("alloc") ELSE wl
    /\ UNCHANGED <<pc, call>>

-----------------------------------------------------------------------------
MpNext ==
    \/ IpcStep /\ UNCHANGED mpVars
    \/ \E time \in Wait : Alloc(AllocCall(time)) \/ AllocBlock(AllocCall(time))
    \/ AllocExpired \/ IsrAlloc
    \/ \E b \in MpBlock : ThreadFree(b) \/ IsrFree(b)

MpSpec == MpInit /\ [][MpNext]_mpSpecVars

-----------------------------------------------------------------------------
(* Properties *)

MpTypeOK ==
    /\ IpcTypeOK
    /\ pc \in [Thread -> IpcPc]
    /\ call \in [Thread -> {NoCall} \cup {AllocCall(time) : time \in Wait}]
    /\ list \in MpBlock \cup {Null}
    /\ link \in [MpBlock -> MpBlock \cup {Null, Pool}]
    /\ count \in 0 .. Cardinality(MpBlock)
    /\ suspended \in 0 .. MaxSuspended

\* The types hold, and the object's calls leave the kernel's state and the wait
\* lists consistent and no woken thread behind.
MpConsistent == MpTypeOK /\ KernelConsistent /\ WaitersParked /\ PreemptionPending

\* The blocks on the free list.
Chain ==
    LET from[n \in 0 .. Cardinality(MpBlock)] ==
            [b \in MpBlock \cup {Null, Pool} |->
                IF b \notin MpBlock THEN << >>
                ELSE IF n = 0 THEN <<b>>
                ELSE <<b>> \o from[n - 1][link[b]]]
    IN  from[Cardinality(MpBlock)][list]

\* A block is on the free list, once, or allocated, and the count of the free
\* blocks is that of the list: no block is handed out twice.
MpBlocksAccounted ==
    /\ Distinct(Chain)
    /\ ToSet(Chain) = {b \in MpBlock : link[b] # Pool}
    /\ count = Len(Chain)

\* No block is free beside a waiting thread unless as many threads are already
\* on their way to the free ones.
MpNoneStranded == wl["alloc"] # << >> => count <= Cardinality(Woken)

\* mp->suspend_thread_count is the number of waiting threads.
WaitersCounted == suspended = Len(wl["alloc"])
=============================================================================
