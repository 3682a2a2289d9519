------------------------------ MODULE FileQueue -----------------------------
(***************************************************************************)
(* What the application promises about the files a user drops on it, with  *)
(* no lock, poller, channel or task in sight: as long as it is open, each  *)
(* is dealt with once, in the order of the drops, however many at a time.  *)
(* Once it closes it may forget files, but deals with none twice.          *)
(***************************************************************************)
EXTENDS Naturals

CONSTANT Files      \* numbered in the order of the drops

VARIABLES dropped,  \* files ever dropped
          waiting,  \* those nobody has dealt with
          dealt,    \* those somebody has
          open      \* the application may not forget files

queueVars == <<dropped, waiting, dealt, open>>

QueueInit ==
    /\ dropped = {} /\ waiting = {} /\ dealt = {}
    /\ open = TRUE

Earlier(S, T) == \A f \in S, g \in T : f < g

Drop(S) ==
    /\ Earlier(dropped, S)
    /\ dropped' = dropped \union S
    /\ waiting' = waiting \union S
    /\ UNCHANGED <<dealt, open>>

\* Some of the files that wait, no one of which is overtaken.
Deal(S) ==
    /\ Earlier(S, waiting \ S)
    /\ waiting' = waiting \ S
    /\ dealt' = dealt \union S
    /\ UNCHANGED <<dropped, open>>

Forget(S) ==
    /\ ~open
    /\ waiting' = waiting \ S
    /\ UNCHANGED <<dropped, dealt, open>>

Shut ==
    /\ open
    /\ open' = FALSE
    /\ UNCHANGED <<dropped, waiting, dealt>>

QueueNext ==
    \/ \E S \in SUBSET Files : Drop(S)
    \/ \E S \in SUBSET waiting : Deal(S) \/ Forget(S)
    \/ Shut

QueueSafety == QueueInit /\ [][QueueNext]_queueVars
=============================================================================
