----------------------------- MODULE MCMemPool -----------------------------
(* Module MemPool on three application threads of two priorities and the    *)
(* idle thread, with two blocks.                                            *)
EXTENDS MemPool, TLC

CONSTANTS idle, hi, lo1, lo2, b1, b2

MCThread == {idle, hi, lo1, lo2}

MCBasePrio == [t \in MCThread |-> IF t = idle THEN 2 ELSE IF t = hi THEN 0 ELSE 1]

MCSymmetry == Permutations({lo1, lo2}) \cup Permutations({b1, b2})
=============================================================================
