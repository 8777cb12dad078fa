----------------------------- MODULE TokenPool -----------------------------
(***************************************************************************)
(* What a counting semaphore promises its callers, with no kernel behind   *)
(* it: a caller waits until somebody gives it a token or tells it that it  *)
(* has failed, and it learns exactly one of the two.                       *)
(***************************************************************************)
EXTENDS Naturals

CONSTANTS Caller,   \* who takes
          First,    \* tokens at the start
          Limit     \* bound on the tokens in the pool

VARIABLES avail,    \* tokens anyone may take
          call      \* what each caller's take has come to

poolVars == <<avail, call>>

PoolInit ==
    /\ avail = First
    /\ call = [c \in Caller |-> "none"]

Take ==
    /\ avail > 0
    /\ avail' = avail - 1
    /\ UNCHANGED call

Wait(c) ==
    /\ avail = 0
    /\ call[c] = "none"
    /\ call' = [call EXCEPT ![c] = "waiting"]
    /\ UNCHANGED avail

\* A token goes to the pool only when nobody waits for one.
Give ==
    \/ \E c \in Caller :
          /\ call[c] = "waiting"
          /\ call' = [call EXCEPT ![c] = "granted"]
          /\ UNCHANGED avail
    \/ /\ \A c \in Caller : call[c] # "waiting"
       /\ avail < Limit
       /\ avail' = avail + 1
       /\ UNCHANGED call

\* The time is over, or the semaphore is reset.
Fail(c) ==
    /\ call[c] = "waiting"
    /\ call' = [call EXCEPT ![c] = "failed"]
    /\ UNCHANGED avail

Return(c) ==
    /\ call[c] \in {"granted", "failed"}
    /\ call' = [call EXCEPT ![c] = "none"]
    /\ UNCHANGED avail

Reset(n) ==
    /\ \A c \in Caller : call[c] # "waiting"
    /\ avail' = n
    /\ UNCHANGED call

PoolNext ==
    \/ Take \/ Give
    \/ \E c \in Caller : Wait(c) \/ Fail(c) \/ Return(c)
    \/ \E n \in 0 .. Limit : Reset(n)

PoolSpec == PoolInit /\ [][PoolNext]_poolVars
=============================================================================
