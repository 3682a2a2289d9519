----------------------------- MODULE MCTransfer -----------------------------
(* Small instances of Transfer; the .cfg files give the other constants.    *)
EXTENDS Transfer

MCDistinct == [t \in 1 .. NumTransfers |-> t]
MCOneName == [t \in 1 .. NumTransfers |-> 1]
=============================================================================
