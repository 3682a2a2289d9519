----------------------------- MODULE MCSession ------------------------------
(* Small instances of Session; the .cfg files give the constants.           *)
EXTENDS Session, TLC

PeerSymmetry == Permutations(Peers)
=============================================================================
