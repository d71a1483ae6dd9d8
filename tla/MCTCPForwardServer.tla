-------------------------- MODULE MCTCPForwardServer --------------------------
(* Instances of TCPForwardServer for TLC. *)
EXTENDS TCPForwardServer, TLC

CONSTANTS p1, p2, p3

OneInjected == {<<p1, "server">>}
=============================================================================
