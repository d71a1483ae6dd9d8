------------------------------- MODULE MCBytes --------------------------------
(* Three parts that work on bytes and share nothing: the buffer of received    *)
(* data, a WebSocket connection, and the MQTT client.  part is the one a       *)
(* behaviour is about.                                                         *)
EXTENDS DataBuffer, WebSocketSession, MQTTClient

VARIABLE part
vars == <<bufferVars, sessionVars, mqttVars, part>>

URLTails  == {<<>>, <<"/">>, <<"/", "test">>, <<"/", "test", "?", "id">>, <<"/", "other">>}
MountedAt == {<<>>, <<"test">>, <<"/", "test", "?", "id">>}
Sent == {Answer("PUBLISH", 1)}

Init == /\ BufferInit /\ SessionInit /\ MQTTInit
        /\ part \in {"buffer", "session", "mqtt"}
        /\ part # "session" => url = [port |-> NoPort, tail |-> <<>>] /\ serverURL = <<>>
Next == \/ part = "buffer" /\ BufferNext /\ UNCHANGED <<sessionVars, mqttVars, part>>
        \/ part = "session" /\ SessionNext /\ UNCHANGED <<bufferVars, mqttVars, part>>
        \/ part = "mqtt" /\ MQTTNext /\ UNCHANGED <<bufferVars, sessionVars, part>>

\* The variables of the other parts stay as they are, and no step of the buffer
\* depends on its last call: these need not tell states apart.
View == CASE part = "buffer"  -> <<part, blocks, total, torn>>
          [] part = "session" -> <<part, sessionVars>>
          [] part = "mqtt"    -> <<part, mqttVars>>
Symmetry == Permutations(Handlers)
Spec == Init /\ [][Next]_vars
===============================================================================
