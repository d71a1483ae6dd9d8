------------------------------- MODULE MCDevices -------------------------------
(***************************************************************************)
(* The devices that share Device, one of them at a time, as the combo box   *)
(* of the main window chooses.                                              *)
(***************************************************************************)
EXTENDS WebSocketServer, UDPStream, SerialSwitch, TLC

vars == <<deviceVars, serverVars, webServerVars, udpVars, switchVars>>

Init ==
  DeviceInit /\ ServerInit /\ WebServerInit /\ UDPInit /\ SwitchInit

Next ==
  \/ /\ class = "TCPServer" /\ TCPServerNext
     /\ UNCHANGED <<webServerVars, udpVars, switchVars>>
  \/ /\ class = "WebSocketServer" /\ WebSocketServerNext
     /\ UNCHANGED <<udpVars, switchVars>>
  \/ /\ class \in {"UDPBasic", "UDPClient"} /\ UDPNext
     /\ UNCHANGED <<serverVars, webServerVars, switchVars>>
  \/ /\ class \in {"SerialPortSwitch", "SerialPortToTCPClient"} /\ SwitchNext
     /\ UNCHANGED <<serverVars, webServerVars, udpVars>>

Spec == Init /\ [][Next]_vars

TypeOK == DeviceTypeOK /\ ServerTypeOK /\ WebServerTypeOK /\ UDPTypeOK /\ SwitchTypeOK

Symmetry == Permutations(Channels)
===============================================================================
