----------------------------- MODULE TimerList -----------------------------
(***************************************************************************)
(* The timer lists of src/rt-thread/src/timer.c and the arithmetic of the  *)
(* tick, which wraps around.  RT_TIMER_SKIP_LIST_LEVEL is 1, so that a     *)
(* list has one row, which a sequence of timers stands for.                *)
(***************************************************************************)
EXTENDS Integers, Sequences, SequencesExt

CONSTANTS TickMod  \* rt_tick is a 32-bit counter: TickMod = 2^32

ASSUME TickAssumption == TickMod \in Nat /\ TickMod > 4

TickMax == TickMod - 1              \* RT_TICK_MAX

Tick == 0 .. TickMax

\* The test "x - y < RT_TICK_MAX / 2" on unsigned ticks.
Within(x, y) == (x - y) % TickMod < TickMax \div 2

\* Mutant: a timer goes behind the first that is due later.
MutLinked(l, d, x) ==
    LET i == SelectInSeq(l, LAMBDA y : d[y] # d[x] /\ Within(d[y], d[x]))
    IN  IF i = 0 THEN Append(l, x) ELSE InsertAt(l, i + 1, x)

\* The insertion of rt_timer_start: x goes on the list l before the first timer
\* that is due later, by the timeouts d.
Linked(l, d, x) ==
    LET i == SelectInSeq(l, LAMBDA y : d[y] # d[x] /\ Within(d[y], d[x]))
    IN  IF i = 0 THEN Append(l, x) ELSE InsertAt(l, i, x)

\* The list l is in the order of the timeouts d, also across the wrap.
InOrder(l, d) ==
    \A i, j \in DOMAIN l : i < j => Within(d[l[j]], d[l[i]])
=============================================================================
