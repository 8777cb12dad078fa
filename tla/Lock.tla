-------------------------------- MODULE Lock --------------------------------
(***************************************************************************)
(* What a recursive mutex promises its callers, with no kernel behind it:  *)
(* one holder at a time, who alone gives the lock up, and to a waiter if   *)
(* there is one.                                                           *)
(***************************************************************************)
EXTENDS Naturals

CONSTANTS Caller,   \* who takes
          Nobody,   \* the holder of a free lock
          Deepest   \* bound on the depth of recursive takes

VARIABLES holder,   \* who has the lock
          depth,    \* how often the holder has taken it
          call      \* what each caller's take has come to

lockSpecVars == <<holder, depth, call>>

LockInit ==
    /\ holder = Nobody
    /\ depth = 0
    /\ call = [c \in Caller |-> "none"]

Acquire(c) ==
    /\ holder = Nobody /\ call[c] = "none"
    /\ holder' = c
    /\ depth' = 1
    /\ UNCHANGED call

Again(c) ==
    /\ holder = c /\ call[c] = "none"
    /\ depth < Deepest
    /\ depth' = depth + 1
    /\ UNCHANGED <<holder, call>>

WaitFor(c) ==
    /\ holder \notin {Nobody, c} /\ call[c] = "none"
    /\ call' = [call EXCEPT ![c] = "waiting"]
    /\ UNCHANGED <<holder, depth>>

GiveUp(c) ==
    /\ call[c] = "waiting"
    /\ call' = [call EXCEPT ![c] = "none"]
    /\ UNCHANGED <<holder, depth>>

Return(c) ==
    /\ call[c] = "granted"
    /\ call' = [call EXCEPT ![c] = "none"]
    /\ UNCHANGED <<holder, depth>>

Unlock(c) ==
    /\ holder = c /\ call[c] = "none"
    /\ \/ /\ depth > 1
          /\ depth' = depth - 1
          /\ UNCHANGED <<holder, call>>
       \/ /\ depth = 1
          /\ \A w \in Caller : call[w] # "waiting"
          /\ holder' = Nobody
          /\ depth' = 0
          /\ UNCHANGED call
       \/ /\ depth = 1
          /\ \E w \in Caller :
                /\ call[w] = "waiting"
                /\ holder' = w
                /\ call' = [call EXCEPT ![w] = "granted"]
          /\ UNCHANGED depth

LockNext ==
    \E c \in Caller :
        Acquire(c) \/ Again(c) \/ WaitFor(c) \/ GiveUp(c) \/ Return(c) \/ Unlock(c)

LockSpec == LockInit /\ [][LockNext]_lockSpecVars
=============================================================================
