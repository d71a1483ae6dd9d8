-------------------------- MODULE MCTCPSingleClient --------------------------
(* Instances of TCPSingleClient for TLC. *)
EXTENDS TCPSingleClient, TLC

Symmetry == Permutations(Attempts) \cup Permutations(Sends)
=============================================================================
