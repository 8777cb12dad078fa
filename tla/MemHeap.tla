------------------------------ MODULE MemHeap ------------------------------
(***************************************************************************)
(* rt_memheap_alloc, rt_memheap_realloc and rt_memheap_free of             *)
(* src/rt-thread/src/memheap.c: the heap of this build.  A block is known  *)
(* by the address of its header; the blocks form a ring in the order of    *)
(* their addresses, closed by a tailer of length 0 that is never free.     *)
(*                                                                         *)
(* Lengths are multiples of RT_MEMHEAP_MINIALLOC.  A part of a call that   *)
(* holds the semaphore heap->lock is one step; the statistic               *)
(* max_used_size is left out.                                              *)
(***************************************************************************)
EXTENDS Integers, Sequences, FiniteSets, SequencesExt

CONSTANTS Task,      \* the threads that use the heap
          PoolSize,  \* heap->pool_size
          Header,    \* RT_MEMHEAP_SIZE
          Mini,      \* RT_MEMHEAP_MINIALLOC
          Request    \* the sizes asked for, aligned and at least Mini

MemHeapAssumption ==
    /\ {Header, Mini} \subseteq Nat \ {0}
    /\ PoolSize \in Nat /\ PoolSize > 2 * Header
    /\ Request \subseteq {n \in Nat : n >= Mini}

VARIABLES block,      \* header -> its next, its prev and RT_MEMHEAP_USED
          free_list,  \* the free blocks in the order of next_free
          available,  \* heap->available_size
          lent,       \* ghost: block -> what its user asked for
          step,       \* task -> where it is in a call that takes several
          arg         \* task -> the size it asks for and the block to move

heapVars == <<block, free_list, available, lent, step, arg>>

\* No block to move.
None == -1

Tailer == PoolSize - Header

Init ==
    /\ block = [h \in {0, Tailer} |-> [next |-> Tailer - h, prev |-> Tailer - h,
                                       used |-> h = Tailer]]
    /\ free_list = <<0>>
    /\ available = PoolSize - 2 * Header
    /\ lent = [h \in {} |-> 0]
    /\ step = [t \in Task |-> "run"]
    /\ arg = [t \in Task |-> [size |-> 0, old |-> None]]

-----------------------------------------------------------------------------
Next(h) == block[h].next

\* MEMITEM_SIZE.
SizeOf(h) == Next(h) - h - Header

IsFree(h) == ~ block[h].used

Unlisted(h) == RemoveFirst(free_list, h)

\* The ring after the blocks of gone have left it and h lies, used or not,
\* between its old prev and the block at end.
Relink(h, end, used, gone) ==
    [b \in (DOMAIN block \cup {h}) \ gone |->
        CASE b = h   -> [next |-> end, used |-> used,
                         prev |-> IF h \in DOMAIN block THEN block[h].prev ELSE None]
          [] b = end -> [block[b] EXCEPT !.prev = h]
          [] OTHER   -> block[b]]

\* The block h of ring b ends at new, where a free block reaches to its old end.
Split(b, h, new) ==
    [x \in DOMAIN b \cup {new} |->
        CASE x = new       -> [next |-> b[h].next, prev |-> h, used |-> FALSE]
          [] x = h         -> [b[h] EXCEPT !.next = new, !.used = TRUE]
          [] x = b[h].next -> [b[x] EXCEPT !.prev = new]
          [] OTHER         -> b[x]]

\* Mutant: the header is counted as room.
MutFitting(n) == SelectInSeq(free_list, LAMBDA h : Next(h) - h >= n)

\* The first free block that holds n bytes, or none.
Fitting(n) == SelectInSeq(free_list, LAMBDA h : SizeOf(h) >= n)

\* The free block h is used for n bytes, and split if the rest is large enough.
Cut(h, n) ==
    IF SizeOf(h) >= n + Header + Mini
    THEN /\ block' = Split(block, h, h + Header + n)
         /\ free_list' = <<h + Header + n>> \o Unlisted(h)
         /\ available' = available - n - Header
    ELSE /\ block' = [block EXCEPT ![h].used = TRUE]
         /\ free_list' = Unlisted(h)
         /\ available' = available - SizeOf(h)

\* Mutant: the right neighbour stays on the free list when both are merged.
MutRelease(h) ==
    LET left  == IF IsFree(block[h].prev) THEN block[h].prev ELSE h
        right == Next(h)
        end   == IF IsFree(right) THEN Next(right) ELSE right
    IN  /\ block' = Relink(left, end, FALSE, {h, right} \ {left, end})
        /\ free_list' = IF left = h THEN <<h>> \o Unlisted(right) ELSE free_list
        /\ available' = available + SizeOf(h) + (IF left = h THEN 0 ELSE Header)
                            + (IF end = right THEN 0 ELSE Header)

\* rt_memheap_free: the block h is merged with its free neighbours.
Release(h) ==
    LET left  == IF IsFree(block[h].prev) THEN block[h].prev ELSE h
        right == Next(h)
        end   == IF IsFree(right) THEN Next(right) ELSE right
        rest  == Unlisted(right)
    IN  /\ block' = Relink(left, end, FALSE, {h, right} \ {left, end})
        /\ free_list' = IF left = h THEN <<h>> \o rest ELSE rest
        /\ available' = available + SizeOf(h) + (IF left = h THEN 0 ELSE Header)
                            + (IF end = right THEN 0 ELSE Header)

-----------------------------------------------------------------------------
Lend(h, n) == lent' = [b \in DOMAIN lent \cup {h} |-> IF b = h THEN n ELSE lent[b]]

Go(t, s, n, h) ==
    /\ step' = [step EXCEPT ![t] = s]
    /\ arg' = [arg EXCEPT ![t] = [size |-> n, old |-> h]]

Done(t) == Go(t, "run", 0, None)

\* A block whose user may pass it to the heap: nobody is moving it.
InHand(h) == \E t \in Task : arg[t].old = h

\* rt_memheap_alloc looks at available_size without the lock.  When it is not
\* more than the size, it returns RT_NULL.
AllocTest(t, n) ==
    /\ step[t] = "run"
    /\ n < available
    /\ Go(t, "search", n, None)
    /\ UNCHANGED <<block, free_list, available, lent>>

\* The same inside rt_memheap_realloc.
MoveTest(t) ==
    /\ step[t] = "move"
    /\ IF arg[t].size < available THEN Go(t, "search", arg[t].size, arg[t].old)
       ELSE Done(t)
    /\ UNCHANGED <<block, free_list, available, lent>>

\* The search, with the lock, finds a block ...
AllocFind(t) ==
    LET n == arg[t].size
        i == Fitting(n)
        h == free_list[i]
    IN  /\ step[t] = "search" /\ i > 0
        /\ Cut(h, n)
        /\ Lend(h, n)
        /\ IF arg[t].old = None THEN Done(t) ELSE Go(t, "copied", n, arg[t].old)

\* ... or none: RT_NULL, and a block that was to be moved stays where it is.
AllocFail(t) ==
    /\ step[t] = "search" /\ Fitting(arg[t].size) = 0
    /\ Done(t)
    /\ UNCHANGED <<block, free_list, available, lent>>

\* rt_memheap_realloc frees the block whose contents it has copied.
MoveFree(t) ==
    /\ step[t] = "copied"
    /\ Release(arg[t].old)
    /\ lent' = [h \in DOMAIN lent \ {arg[t].old} |-> lent[h]]
    /\ Done(t)

Free(t, h) ==
    /\ step[t] = "run" /\ ~ InHand(h)
    /\ Release(h)
    /\ lent' = [b \in DOMAIN lent \ {h} |-> lent[b]]
    /\ UNCHANGED <<step, arg>>

\* The free block behind h makes room for n bytes and a remainder.
Expandable(h, n) == IsFree(Next(h)) /\ SizeOf(Next(h)) + SizeOf(h) > n + Mini

\* rt_memheap_realloc to a larger size: the right neighbour begins later ...
Expand(t, h, n) ==
    LET right == Next(h)
        new   == h + Header + n
        ring  == Relink(h, Next(right), TRUE, {right})
    IN  /\ step[t] = "run" /\ ~ InHand(h)
        /\ n > SizeOf(h) /\ Expandable(h, n)
        /\ block' = Split(ring, h, new)
        /\ free_list' = <<new>> \o Unlisted(right)
        /\ available' = available - (n - SizeOf(h))
        /\ Lend(h, n)
        /\ UNCHANGED <<step, arg>>

\* ... or the contents move to a new block, after the lock is given up.
MoveBegin(t, h, n) ==
    /\ step[t] = "run" /\ ~ InHand(h)
    /\ n > SizeOf(h) /\ ~ Expandable(h, n)
    /\ Go(t, "move", n, h)
    /\ UNCHANGED <<block, free_list, available, lent>>

\* To a smaller size: the rest becomes a free block, merged with a free right
\* neighbour, unless it is too small.
Shrink(t, h, n) ==
    LET right == Next(h)
        new   == h + Header + n
        end   == IF IsFree(right) THEN Next(right) ELSE right
        ring  == Relink(h, end, TRUE, {right} \ {end})
    IN  /\ step[t] = "run" /\ ~ InHand(h)
        /\ n <= SizeOf(h)
        /\ Lend(h, n)
        /\ IF n + Header + Mini >= SizeOf(h)
           THEN UNCHANGED <<block, free_list, available>>
           ELSE /\ block' = Split(ring, h, new)
                /\ free_list' = <<new>> \o Unlisted(right)
                /\ available' = available - (IF end = right THEN 0 ELSE SizeOf(right))
                                    + end - new - Header
        /\ UNCHANGED <<step, arg>>

HeapNext ==
    \E t \in Task :
        \/ MoveTest(t) \/ AllocFind(t) \/ AllocFail(t) \/ MoveFree(t)
        \/ \E n \in Request : AllocTest(t, n)
        \/ \E h \in DOMAIN lent :
              \/ Free(t, h)
              \/ \E n \in Request : Expand(t, h, n) \/ MoveBegin(t, h, n) \/ Shrink(t, h, n)

HeapSpec == Init /\ [][HeapNext]_heapVars

-----------------------------------------------------------------------------
(* Properties *)

\* The blocks tile the pool, each is linked to its two neighbours, and no two
\* free ones are neighbours.
BlocksTile ==
    /\ {0, Tailer} \subseteq DOMAIN block /\ block[Tailer].used
    /\ \A h \in DOMAIN block :
          /\ Next(h) \in DOMAIN block /\ block[Next(h)].prev = h
          /\ h # Tailer => SizeOf(h) >= 0 /\ ~ \E b \in DOMAIN block : h < b /\ b < Next(h)
          /\ ~ (IsFree(h) /\ IsFree(Next(h)))

\* What v says of the addresses below n, in all.
Total(v, n) ==
    LET sum[i \in 0 .. n] == IF i = 0 THEN 0 ELSE sum[i - 1] + v[i - 1]
    IN  sum[n]

\* What the free block at an address holds.
Held == [a \in 0 .. Tailer |-> IF a \in DOMAIN block /\ IsFree(a) THEN SizeOf(a) ELSE 0]

\* The free list holds the free blocks, each once, and available_size is what
\* they hold together.
FreeListed ==
    LET unused == {h \in DOMAIN block : IsFree(h)}
    IN  /\ ToSet(free_list) = unused /\ Len(free_list) = Cardinality(unused)
        /\ available = Total(Held, Tailer)

\* The used blocks are those lent, and each is as large as its user asked for.
Satisfied ==
    /\ DOMAIN lent = {h \in DOMAIN block \ {Tailer} : ~ IsFree(h)}
    /\ \A h \in DOMAIN lent : SizeOf(h) >= lent[h]

HeapConsistent == BlocksTile /\ FreeListed /\ Satisfied

\* What was handed out: a header and what was asked for behind it.  The tailer
\* is never lent.
Regions == [h \in DOMAIN lent |-> Header + lent[h]]

Promise == INSTANCE Allocator WITH Room <- Tailer, lent <- Regions

\* Whatever is allocated, moved, resized and freed meanwhile, the regions lent
\* do not overlap.
ImplementsAllocator == Promise!AllocatorSpec
=============================================================================
