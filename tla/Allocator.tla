------------------------------ MODULE Allocator ------------------------------
(* What a heap promises: it lends regions of memory that do not overlap. *)
EXTENDS Naturals

CONSTANT Room  \* the addresses are 0 .. Room - 1

VARIABLE lent  \* address -> the length of the region that begins there

AllocatorInit == lent = [a \in {} |-> 0]

\* A region of length n at a meets none of those lent, but for the one at own.
Apart(a, n, own) ==
    /\ a + n <= Room
    /\ \A b \in DOMAIN lent \ {own} : b + lent[b] <= a \/ a + n <= b

Lend(a, n) ==
    /\ a \notin DOMAIN lent
    /\ Apart(a, n, a)
    /\ lent' = [b \in DOMAIN lent \cup {a} |-> IF b = a THEN n ELSE lent[b]]

TakeBack(a) ==
    /\ a \in DOMAIN lent
    /\ lent' = [b \in DOMAIN lent \ {a} |-> lent[b]]

\* A region grows or shrinks where it is.
Resize(a, n) ==
    /\ a \in DOMAIN lent
    /\ Apart(a, n, a)
    /\ lent' = [lent EXCEPT ![a] = n]

\* Every step changes what is lent.
AllocatorNext ==
    /\ lent' # lent
    /\ \E a \in 0 .. Room - 1 :
          \/ TakeBack(a)
          \/ \E n \in 1 .. Room : Lend(a, n) \/ Resize(a, n)

AllocatorSpec == AllocatorInit /\ [][AllocatorNext]_lent
=============================================================================
