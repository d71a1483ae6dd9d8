------------------------------ MODULE MCWindows -------------------------------
(* The dialog in two parts that share nothing: its windows, threads and device *)
(* status, and the settings of its devices.  part is the one a behaviour is    *)
(* about.                                                                      *)
EXTENDS MainWindow, DeviceProperties, TLC

VARIABLE part

Kinds == {"connecting", "closing", "error", "saving", "saved"}
AllLooks == [what : Kinds, device : Devices]
AllNumbers == {0, 1, 2, 3, 5, 7, 8, 9, 65535, 65536, 65543}

Init == /\ WindowInit /\ PropertyInit
        /\ part \in {"windows", "properties"}
        /\ part = "windows" => class = "TCPServer" /\ property = Flag("Keepalive")
Next == \/ part = "windows" /\ WindowNext /\ UNCHANGED <<propertyVars, part>>
        \/ part = "properties" /\ PropertyNext /\ UNCHANGED <<windowVars, part>>
Spec == Init /\ [][Next]_<<windowVars, propertyVars, part>>

\* What a thread has done with need not tell states apart.
Here(a) ==
  CASE pc[a] = "idle" -> <<>>
    [] pc[a] = "read" -> <<of[a], then[a]>>
    [] pc[a] = "pop" -> <<of[a], arg[a], then[a]>>
    [] pc[a] \in {"assign", "controls"} -> <<of[a], arg[a], made[a], then[a]>>
    [] OTHER -> <<of[a], then[a]>>
View ==
  CASE part = "properties" -> <<part, propertyVars>>
    [] part = "windows" ->
         <<part, popVars, deviceVars, pc, [a \in Actors |-> Here(a)], shownVars, closingVars, missed>>
Symmetry == Permutations(Threads) \cup Permutations(WindowIds)
===============================================================================
