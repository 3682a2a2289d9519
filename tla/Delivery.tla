------------------------------ MODULE Delivery ------------------------------
(***************************************************************************)
(* What TransferManager promises about a file, with no connection, pool,   *)
(* stream or retry in sight: a started transfer comes to one outcome, told *)
(* once and never revised, and an outcome of Completed means the peer has  *)
(* the file.  The converse is not promised: the peer may have, or still    *)
(* get, the file of a transfer that failed or was cancelled.               *)
(***************************************************************************)
EXTENDS Naturals

CONSTANT Files

VARIABLES outcome,    \* [f]: "none", "started", or what the handle was told
          delivered   \* files in the peer's download directory

deliveryVars == <<outcome, delivered>>

DeliveryInit ==
    /\ outcome = [f \in Files |-> "none"]
    /\ delivered = {}

Start(f) ==
    /\ outcome[f] = "none"
    /\ outcome' = [outcome EXCEPT ![f] = "started"]
    /\ UNCHANGED delivered

\* The peer stores a file it was told of: perhaps after the sender gave up,
\* perhaps again.
Deliver(f) ==
    /\ outcome[f] # "none"
    /\ delivered' = delivered \union {f}
    /\ UNCHANGED outcome

Conclude(f, o) ==
    /\ outcome[f] = "started"
    /\ o = "Completed" => f \in delivered
    /\ outcome' = [outcome EXCEPT ![f] = o]
    /\ UNCHANGED delivered

Conclusion(f) == \E o \in {"Completed", "Failed", "Cancelled"} : Conclude(f, o)

DeliveryNext == \E f \in Files : Start(f) \/ Deliver(f) \/ Conclusion(f)

DeliverySafety == DeliveryInit /\ [][DeliveryNext]_deliveryVars

DeliverySpec ==
    /\ DeliverySafety
    /\ \A f \in Files : WF_deliveryVars(Conclusion(f))
=============================================================================
