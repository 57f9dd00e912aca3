------------------------------ MODULE MCHciDev ------------------------------
(* HciDev for TLC: the clients are interchangeable, and so are the peers.  *)
EXTENDS HciDev, TLC

Symmetry == Permutations(Clients) \cup Permutations(Peers)
=============================================================================
