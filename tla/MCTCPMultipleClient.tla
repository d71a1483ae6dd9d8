-------------------------- MODULE MCTCPMultipleClient --------------------------
(* Instances of TCPMultipleClient for TLC. *)
EXTENDS TCPMultipleClient, TLC

Symmetry == Permutations(Attempts)
=============================================================================
