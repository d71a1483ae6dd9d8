---------------------------- MODULE DevicesProofs ----------------------------
(***************************************************************************)
(* Proofs about the devices that share Device, as MCDevices composes them:  *)
(* the two servers, the two UDP devices and the two devices of two ends.    *)
(* Each kind has an invariant of its own; a step of one kind keeps those of *)
(* the others, because it changes neither their variables nor the class.    *)
(***************************************************************************)
EXTENDS MCDevices, TLAPS

-----------------------------------------------------------------------------
(* The servers: the invariant.                                              *)

Servers == {"TCPServer", "WebSocketServer"}
Serving == class \in Servers

\* Nothing has happened to a channel before its accept completes.
Idle(c) == \A o \in IoOps : io[c][o] = "idle"
Untouched(c) ==
  c \notin open /\ c \notin listed /\ Idle(c) /\ reported[c] = 0 /\ hs[c] = "none"

FreshUntouched ==
  \A c \in Channels : accept[c] \in {"new", "accepting", "canceling"} => Untouched(c)

\* Between its accept and its entry in the list a channel is open, and no one
\* reads, writes or closes it.
HandedOver ==
  \A c \in Channels :
    accept[c] = "accepted" \/ hs[c] \in {"request", "respond", "granted"} =>
      c \in open /\ c \notin listed /\ Idle(c) /\ reported[c] = 0

\* What a class has no part in.
NotServing    == ~Serving => \A c \in Channels : accept[c] = "new"
NoHandshake   == class = "TCPServer" => \A c \in Channels : hs[c] = "none" /\ reported[c] = 0
NoTestedClose ==
  class = "WebSocketServer" =>
    \A c \in Channels : accept[c] # "accepted" /\ \A o \in IoOps : io[c][o] # "closing"

\* A WebSocket channel is reported by whoever closed it, and by nobody else.
OneReporter ==
  class = "WebSocketServer" =>
    \A c \in Channels :
      /\ c \in open => reported[c] = 0
      /\ \A o \in IoOps : io[c][o] = "notify" =>
           /\ c \notin open /\ reported[c] = 0
           /\ \A q \in IoOps : io[c][q] = "notify" => q = o

\* Where the UI thread is decides the status, and both the acceptor.
ServerStatus ==
  Serving =>
    /\ ui \in {"idle", "start", "listening", "stop", "closed"}
    /\ ui = "idle" => status \in {"Disconnected", "Connected"}
    /\ ui \in {"start", "listening"} => status = "Connecting"
    /\ ui \in {"stop", "closed"} => status = "Disconnecting"
    /\ status = "Connected" \/ ui = "listening" => acceptor
    /\ status = "Disconnected" \/ ui \in {"start", "closed"} => ~acceptor

AcceptNeedsAcceptor == \A c \in Channels : accept[c] = "accepting" => acceptor

\* From the close of the acceptor on, what is open is listed or was taken over.
StopLeavesCut == ui = "closed" => open \ listed \subseteq cut

ChannelInv == FreshUntouched /\ HandedOver /\ NotServing /\ NoHandshake /\ NoTestedClose
AcceptorInv == ServerStatus /\ AcceptNeedsAcceptor /\ StopLeavesCut

ServerIInv ==
  /\ DeviceTypeOK /\ ServerTypeOK /\ WebServerTypeOK
  /\ ChannelInv /\ OneReporter /\ AcceptorInv
  /\ ClosedIsReported /\ NothingElseSurvivesStop /\ Listening /\ ReportedOnce

-----------------------------------------------------------------------------
(* Types.                                                                   *)

ServerTypes == DeviceTypeOK /\ ServerTypeOK /\ WebServerTypeOK

\* A channel is reported twice at most.
LEMMA ReportTypes ==
  ASSUME WebServerTypeOK, NEW C \in SUBSET Channels
  PROVE  Report(C) \in [Channels -> 0..2]
BY DEF WebServerTypeOK, Report

\* Every step of the TCP server keeps the types of the servers' state.
LEMMA TCPTypes == ServerTypes /\ TCPServerNext /\ UNCHANGED webServerVars => ServerTypes'
<1> SUFFICES ASSUME ServerTypes, TCPServerNext, UNCHANGED webServerVars PROVE ServerTypes'
  OBVIOUS
<1> USE DEF ServerTypes, DeviceTypeOK, ServerTypeOK, WebServerTypeOK, Statuses,
            AcceptPhases, IoPhases, IoOps, webServerVars, deviceVars, serverVars
<1>1. CASE ClickConnect /\ UNCHANGED serverVars
  BY <1>1 DEF ClickConnect, StatusChanged
<1>2. CASE Listen
  BY <1>2 DEF Listen
<1>3. CASE StartFails
  BY <1>3 DEF StartFails, CloseAcceptor, StatusChanged, Sweep
<1>4. CASE Started
  BY <1>4 DEF Started, StatusChanged, StartAcceptClient, AcceptAt
<1>5. CASE ClickStop
  BY <1>5 DEF ClickStop, StatusChanged
<1>6. CASE StopCloses
  BY <1>6 DEF StopCloses, CloseAcceptor
<1>7. CASE StopEnds
  BY <1>7 DEF StopEnds, StatusChanged, Sweep
<1>8. ASSUME NEW c \in Channels, ClickClose(c) \/ Send(c) PROVE ServerTypes'
  BY <1>8 DEF ClickClose, Send
<1>9. ASSUME NEW c \in Channels, Accepted(c) \/ AcceptFails(c) \/ Rearm(c)
      PROVE  ServerTypes'
  BY <1>9 DEF Accepted, AcceptFails, Rearm, AcceptAt
<1>10. ASSUME NEW c \in Channels, AddChannel(c) \/ WriteDone(c) PROVE ServerTypes'
  <2>1. CASE AddChannel(c)
    BY <2>1 DEF AddChannel, AcceptAt, List
  <2>2. CASE WriteDone(c)
    BY <2>2 DEF WriteDone, IoAt
  <2> QED
    BY <1>10, <2>1, <2>2
<1>11. ASSUME NEW c \in Channels, NEW o \in IoOps,
              IoFails(c, o) \/ CloseSocket(c, o) \/ RemoveChannel(c, o)
       PROVE  ServerTypes'
  BY <1>11 DEF IoFails, CloseSocket, RemoveChannel, IoAt
<1> QED
  BY <1>1, <1>2, <1>3, <1>4, <1>5, <1>6, <1>7, <1>8, <1>9, <1>10, <1>11
     DEF TCPServerNext, ServerUI, AcceptSteps

\* Every step of the TCP server keeps what each channel may be in the middle of.
LEMMA TCPChannels ==
  ASSUME ServerIInv, class = "TCPServer", TCPServerNext, UNCHANGED webServerVars
  PROVE  ChannelInv'
<1> USE DEF ServerIInv, DeviceTypeOK, ServerTypeOK, WebServerTypeOK, ChannelInv,
            FreshUntouched, HandedOver, NotServing, NoHandshake,
            NoTestedClose, Untouched, Idle, IoOps, AcceptPhases, IoPhases,
            Servers, Serving, webServerVars, deviceVars, serverVars
<1>1. CASE ClickConnect /\ UNCHANGED serverVars
  BY <1>1 DEF ClickConnect, StatusChanged
<1>2. CASE Listen
  BY <1>2 DEF Listen
<1>3. CASE StartFails
  BY <1>3 DEF StartFails, CloseAcceptor, StatusChanged, Sweep
<1>4. CASE Started
  BY <1>4 DEF Started, StatusChanged, StartAcceptClient, AcceptAt
<1>5. CASE ClickStop
  BY <1>5 DEF ClickStop, StatusChanged
<1>6. CASE StopCloses
  BY <1>6 DEF StopCloses, CloseAcceptor
<1>7. CASE StopEnds
  BY <1>7 DEF StopEnds, StatusChanged, Sweep
<1>8. ASSUME NEW c \in Channels, ClickClose(c) PROVE ChannelInv'
  BY <1>8 DEF ClickClose
<1>9. ASSUME NEW c \in Channels, Send(c) PROVE ChannelInv'
  BY <1>9 DEF Send
<1>10. ASSUME NEW c \in Channels, Accepted(c) PROVE ChannelInv'
  BY <1>10 DEF Accepted, AcceptAt
<1>11. ASSUME NEW c \in Channels, AcceptFails(c) PROVE ChannelInv'
  BY <1>11 DEF AcceptFails, AcceptAt
<1>12. ASSUME NEW c \in Channels, Rearm(c) PROVE ChannelInv'
  BY <1>12 DEF Rearm, AcceptAt
<1>13. ASSUME NEW c \in Channels, AddChannel(c) PROVE ChannelInv'
  BY <1>13 DEF AddChannel, AcceptAt, List
<1>14. ASSUME NEW c \in Channels, WriteDone(c) PROVE ChannelInv'
  BY <1>14 DEF WriteDone, IoAt
<1>15. ASSUME NEW c \in Channels, NEW o \in IoOps, IoFails(c, o) PROVE ChannelInv'
  BY <1>15 DEF IoFails, IoAt
<1>16. ASSUME NEW c \in Channels, NEW o \in IoOps, CloseSocket(c, o) PROVE ChannelInv'
  BY <1>16 DEF CloseSocket, IoAt
<1>17. ASSUME NEW c \in Channels, NEW o \in IoOps, RemoveChannel(c, o) PROVE ChannelInv'
  BY <1>17 DEF RemoveChannel, IoAt
<1> QED
  BY <1>1, <1>2, <1>3, <1>4, <1>5, <1>6, <1>7, <1>8, <1>9, <1>10, <1>11, <1>12, <1>13,
     <1>14, <1>15, <1>16, <1>17
     DEF TCPServerNext, ServerUI, AcceptSteps

\* Every step of the TCP server keeps the acceptor and what it listens for.
LEMMA TCPAcceptor ==
  ASSUME ServerIInv, class = "TCPServer", TCPServerNext, UNCHANGED webServerVars
  PROVE  AcceptorInv' /\ Listening'
<1> USE DEF ServerIInv, DeviceTypeOK, ServerTypeOK, WebServerTypeOK, AcceptorInv,
            ServerStatus, AcceptNeedsAcceptor, StopLeavesCut, Listening,
            ChannelInv, FreshUntouched, HandedOver, Untouched,
            Servers, Serving, webServerVars, deviceVars, serverVars
<1>1. CASE ClickConnect /\ UNCHANGED serverVars
  BY <1>1 DEF ClickConnect, StatusChanged
<1>2. CASE Listen
  BY <1>2 DEF Listen
<1>3. CASE StartFails
  BY <1>3 DEF StartFails, CloseAcceptor, StatusChanged, Sweep
<1>4. CASE Started
  BY <1>4 DEF Started, StatusChanged, StartAcceptClient, AcceptAt
<1>5. CASE ClickStop
  BY <1>5 DEF ClickStop, StatusChanged
<1>6. CASE StopCloses
  BY <1>6 DEF StopCloses, CloseAcceptor
<1>7. CASE StopEnds
  BY <1>7 DEF StopEnds, StatusChanged, Sweep
<1>8. ASSUME NEW c \in Channels, ClickClose(c) PROVE AcceptorInv' /\ Listening'
  BY <1>8 DEF ClickClose
<1>9. ASSUME NEW c \in Channels, Send(c) PROVE AcceptorInv' /\ Listening'
  BY <1>9 DEF Send
<1>10. ASSUME NEW c \in Channels, Accepted(c) PROVE AcceptorInv' /\ Listening'
  BY <1>10 DEF Accepted, AcceptAt
<1>11. ASSUME NEW c \in Channels, AcceptFails(c) PROVE AcceptorInv' /\ Listening'
  BY <1>11 DEF AcceptFails, AcceptAt
<1>12. ASSUME NEW c \in Channels, Rearm(c) PROVE AcceptorInv' /\ Listening'
  BY <1>12 DEF Rearm, AcceptAt
<1>13. ASSUME NEW c \in Channels, AddChannel(c) PROVE AcceptorInv' /\ Listening'
  BY <1>13 DEF AddChannel, AcceptAt, List
<1>14. ASSUME NEW c \in Channels, WriteDone(c) PROVE AcceptorInv' /\ Listening'
  BY <1>14 DEF WriteDone, IoAt
<1>15. ASSUME NEW c \in Channels, NEW o \in IoOps, IoFails(c, o)
       PROVE  AcceptorInv' /\ Listening'
  BY <1>15 DEF IoFails, IoAt
<1>16. ASSUME NEW c \in Channels, NEW o \in IoOps, CloseSocket(c, o)
       PROVE  AcceptorInv' /\ Listening'
  BY <1>16 DEF CloseSocket, IoAt
<1>17. ASSUME NEW c \in Channels, NEW o \in IoOps, RemoveChannel(c, o)
       PROVE  AcceptorInv' /\ Listening'
  BY <1>17 DEF RemoveChannel, IoAt
<1> QED
  BY <1>1, <1>2, <1>3, <1>4, <1>5, <1>6, <1>7, <1>8, <1>9, <1>10, <1>11, <1>12, <1>13,
     <1>14, <1>15, <1>16, <1>17
     DEF TCPServerNext, ServerUI, AcceptSteps

\* Every step of the TCP server keeps the list of connections and what Stop leaves.
LEMMA TCPLists ==
  ASSUME ServerIInv, class = "TCPServer", TCPServerNext, UNCHANGED webServerVars
  PROVE  ClosedIsReported' /\ NothingElseSurvivesStop'
<1> USE DEF ServerIInv, DeviceTypeOK, ServerTypeOK, WebServerTypeOK, AcceptorInv,
            ServerStatus, AcceptNeedsAcceptor, StopLeavesCut, ClosedIsReported,
            NothingElseSurvivesStop,
            ChannelInv, FreshUntouched, HandedOver, Untouched, Idle, IoOps,
            Servers, Serving, webServerVars, deviceVars, serverVars
<1>1. CASE ClickConnect /\ UNCHANGED serverVars
  BY <1>1 DEF ClickConnect, StatusChanged
<1>2. CASE Listen
  BY <1>2 DEF Listen
<1>3. CASE StartFails
  BY <1>3 DEF StartFails, CloseAcceptor, StatusChanged, Sweep
<1>4. CASE Started
  BY <1>4 DEF Started, StatusChanged, StartAcceptClient, AcceptAt
<1>5. CASE ClickStop
  BY <1>5 DEF ClickStop, StatusChanged
<1>6. CASE StopCloses
  BY <1>6 DEF StopCloses, CloseAcceptor
<1>7. CASE StopEnds
  BY <1>7 DEF StopEnds, StatusChanged, Sweep
<1>8. ASSUME NEW c \in Channels, ClickClose(c)
      PROVE  ClosedIsReported' /\ NothingElseSurvivesStop'
  BY <1>8 DEF ClickClose
<1>9. ASSUME NEW c \in Channels, Send(c) PROVE ClosedIsReported' /\ NothingElseSurvivesStop'
  BY <1>9 DEF Send
<1>10. ASSUME NEW c \in Channels, Accepted(c)
       PROVE  ClosedIsReported' /\ NothingElseSurvivesStop'
  BY <1>10 DEF Accepted, AcceptAt
<1>11. ASSUME NEW c \in Channels, AcceptFails(c)
       PROVE  ClosedIsReported' /\ NothingElseSurvivesStop'
  BY <1>11 DEF AcceptFails, AcceptAt
<1>12. ASSUME NEW c \in Channels, Rearm(c)
       PROVE  ClosedIsReported' /\ NothingElseSurvivesStop'
  BY <1>12 DEF Rearm, AcceptAt
<1>13. ASSUME NEW c \in Channels, AddChannel(c)
       PROVE  ClosedIsReported' /\ NothingElseSurvivesStop'
  BY <1>13 DEF AddChannel, AcceptAt, List
<1>14. ASSUME NEW c \in Channels, WriteDone(c)
       PROVE  ClosedIsReported' /\ NothingElseSurvivesStop'
  BY <1>14 DEF WriteDone, IoAt
<1>15. ASSUME NEW c \in Channels, NEW o \in IoOps, IoFails(c, o)
       PROVE  ClosedIsReported' /\ NothingElseSurvivesStop'
  BY <1>15 DEF IoFails, IoAt
<1>16. ASSUME NEW c \in Channels, NEW o \in IoOps, CloseSocket(c, o)
       PROVE  ClosedIsReported' /\ NothingElseSurvivesStop'
  BY <1>16 DEF CloseSocket, IoAt
<1>17. ASSUME NEW c \in Channels, NEW o \in IoOps, RemoveChannel(c, o)
       PROVE  ClosedIsReported' /\ NothingElseSurvivesStop'
  BY <1>17 DEF RemoveChannel, IoAt
<1> QED
  BY <1>1, <1>2, <1>3, <1>4, <1>5, <1>6, <1>7, <1>8, <1>9, <1>10, <1>11, <1>12, <1>13,
     <1>14, <1>15, <1>16, <1>17
     DEF TCPServerNext, ServerUI, AcceptSteps

\* Every step of the WebSocket server keeps the types of the servers' state.
LEMMA WebTypes ==
  ASSUME ServerTypes, WebSocketServerNext
  PROVE  ServerTypes'
<1> USE DEF ServerTypes, DeviceTypeOK, ServerTypeOK, WebServerTypeOK, Statuses,
            AcceptPhases, IoPhases, IoOps, HandshakePhases,
            deviceVars, serverVars, webServerVars
<1>1. CASE ClickConnect /\ UNCHANGED <<serverVars, webServerVars>>
  BY <1>1 DEF ClickConnect, StatusChanged
<1>2. CASE WebStart
  BY <1>2 DEF WebStart, Listen, Started, StatusChanged, StartAcceptClient, AcceptAt
<1>3. CASE WebStartFails
  <2>1. reported' \in [Channels -> 0..2]
    BY <1>3, ReportTypes DEF WebStartFails
  <2> QED
    BY <1>3, <2>1 DEF WebStartFails, StartFails, CloseAcceptor, StatusChanged, Sweep
<1>4. CASE ClickStop /\ UNCHANGED webServerVars
  BY <1>4 DEF ClickStop, StatusChanged
<1>5. CASE WebStopCloses
  BY <1>5 DEF WebStopCloses, StopCloses, CloseAcceptor
<1>6. CASE WebStopEnds
  BY <1>6 DEF WebStopEnds, StopEnds, StatusChanged, Sweep, Report
<1>7. ASSUME NEW c \in Channels, WebClickClose(c) PROVE ServerTypes'
  BY <1>7 DEF WebClickClose, ClickClose, Report
<1>8. ASSUME NEW c \in Channels, WebSend(c) PROVE ServerTypes'
  BY <1>8 DEF WebSend, Send
<1>9. ASSUME NEW c \in Channels, WebAccepted(c) PROVE ServerTypes'
  BY <1>9 DEF WebAccepted, AcceptAt, HsAt
<1>10. ASSUME NEW c \in Channels, AcceptFails(c) /\ UNCHANGED webServerVars
       PROVE  ServerTypes'
  BY <1>10 DEF AcceptFails, AcceptAt
<1>11. ASSUME NEW c \in Channels, Rearm(c) /\ UNCHANGED webServerVars PROVE ServerTypes'
  BY <1>11 DEF Rearm, AcceptAt
<1>12. ASSUME NEW c \in Channels, RequestRead(c) \/ Granted(c) PROVE ServerTypes'
  BY <1>12 DEF RequestRead, Granted, HsAt
<1>13. ASSUME NEW c \in Channels, HandshakeFails(c) PROVE ServerTypes'
  BY <1>13 DEF HandshakeFails, HsAt
<1>14. ASSUME NEW c \in Channels, WebAddChannel(c) PROVE ServerTypes'
  BY <1>14 DEF WebAddChannel, HsAt, List
<1>15. ASSUME NEW c \in Channels, WriteDone(c) /\ UNCHANGED webServerVars PROVE ServerTypes'
  BY <1>15 DEF WriteDone, IoAt
<1>16. ASSUME NEW c \in Channels, NEW o \in IoOps, WebIoFails(c, o) PROVE ServerTypes'
  BY <1>16 DEF WebIoFails, IoAt
<1>17. ASSUME NEW c \in Channels, NEW o \in IoOps, WebRemoveChannel(c, o) PROVE ServerTypes'
  BY <1>17 DEF WebRemoveChannel, RemoveChannel, IoAt, Report
<1> QED
  BY <1>1, <1>2, <1>3, <1>4, <1>5, <1>6, <1>7, <1>8, <1>9, <1>10, <1>11, <1>12, <1>13,
     <1>14, <1>15, <1>16, <1>17
     DEF WebSocketServerNext, WebStop, WebAccept

\* Every step of the WebSocket server keeps what each channel may be in the middle of.
LEMMA WebChannels ==
  ASSUME ServerIInv, class = "WebSocketServer", WebSocketServerNext
  PROVE  ChannelInv'
<1> USE DEF ServerIInv, ServerTypes, DeviceTypeOK, ServerTypeOK, WebServerTypeOK, Servers,
            Serving, ChannelInv, FreshUntouched, HandedOver, NotServing, NoHandshake,
            NoTestedClose, Untouched, Idle, IoOps, AcceptPhases, IoPhases, OneReporter,
            deviceVars, serverVars, webServerVars
<1>1. CASE ClickConnect /\ UNCHANGED <<serverVars, webServerVars>>
  BY <1>1 DEF ClickConnect, StatusChanged
<1>2. CASE WebStart
  BY <1>2 DEF WebStart, Listen, Started, StatusChanged, StartAcceptClient, AcceptAt
<1>3. CASE WebStartFails
  BY <1>3 DEF WebStartFails, StartFails, CloseAcceptor, StatusChanged, Sweep, Report
<1>4. CASE ClickStop /\ UNCHANGED webServerVars
  BY <1>4 DEF ClickStop, StatusChanged
<1>5. CASE WebStopCloses
  BY <1>5 DEF WebStopCloses, StopCloses, CloseAcceptor
<1>6. CASE WebStopEnds
  BY <1>6 DEF WebStopEnds, StopEnds, StatusChanged, Sweep, Report
<1>7. ASSUME NEW c \in Channels, WebClickClose(c) PROVE ChannelInv'
  BY <1>7 DEF WebClickClose, ClickClose, Report
<1>8. ASSUME NEW c \in Channels, WebSend(c) PROVE ChannelInv'
  BY <1>8 DEF WebSend, Send
<1>9. ASSUME NEW c \in Channels, WebAccepted(c) PROVE ChannelInv'
  BY <1>9 DEF WebAccepted, AcceptAt, HsAt
<1>10. ASSUME NEW c \in Channels, AcceptFails(c) /\ UNCHANGED webServerVars
       PROVE  ChannelInv'
  BY <1>10 DEF AcceptFails, AcceptAt
<1>11. ASSUME NEW c \in Channels, Rearm(c) /\ UNCHANGED webServerVars PROVE ChannelInv'
  <2>1. CASE acceptor
    <3>1. PICK d \in Channels : accept[d] = "new"
                               /\ accept' = [accept EXCEPT ![c] = "over",
                               ![d] = "accepting"]
      BY <1>11, <2>1 DEF Rearm
    <3> QED
      BY <1>11, <3>1 DEF Rearm
  <2>2. CASE ~acceptor
    BY <1>11, <2>2 DEF Rearm
  <2> QED
    BY <2>1, <2>2
<1>12. ASSUME NEW c \in Channels, RequestRead(c) \/ Granted(c) PROVE ChannelInv'
  BY <1>12 DEF RequestRead, Granted, HsAt
<1>13. ASSUME NEW c \in Channels, HandshakeFails(c) PROVE ChannelInv'
  BY <1>13 DEF HandshakeFails, HsAt
<1>14. ASSUME NEW c \in Channels, WebAddChannel(c) PROVE ChannelInv'
  BY <1>14 DEF WebAddChannel, HsAt, List
<1>15. ASSUME NEW c \in Channels, WriteDone(c) /\ UNCHANGED webServerVars PROVE ChannelInv'
  BY <1>15 DEF WriteDone, IoAt
<1>16. ASSUME NEW c \in Channels, NEW o \in IoOps, WebIoFails(c, o) PROVE ChannelInv'
  BY <1>16 DEF WebIoFails, IoAt
<1>17. ASSUME NEW c \in Channels, NEW o \in IoOps, WebRemoveChannel(c, o) PROVE ChannelInv'
  BY <1>17 DEF WebRemoveChannel, RemoveChannel, IoAt, Report
<1> QED
  BY <1>1, <1>2, <1>3, <1>4, <1>5, <1>6, <1>7, <1>8, <1>9, <1>10, <1>11, <1>12, <1>13,
     <1>14, <1>15, <1>16, <1>17
     DEF WebSocketServerNext, WebStop, WebAccept

\* Every step of the WebSocket server keeps one reporter to a channel.
LEMMA WebReporter ==
  ASSUME ServerIInv, class = "WebSocketServer", WebSocketServerNext
  PROVE  OneReporter' /\ ReportedOnce'
<1> USE DEF ServerIInv, ServerTypes, DeviceTypeOK, ServerTypeOK, WebServerTypeOK, Servers,
            Serving, ChannelInv, FreshUntouched, HandedOver, NotServing, NoHandshake,
            NoTestedClose, Untouched, Idle, IoOps, OneReporter, ReportedOnce,
            deviceVars, serverVars, webServerVars
<1>1. CASE ClickConnect /\ UNCHANGED <<serverVars, webServerVars>>
  BY <1>1 DEF ClickConnect, StatusChanged
<1>2. CASE WebStart
  BY <1>2 DEF WebStart, Listen, Started, StatusChanged, StartAcceptClient, AcceptAt
<1>3. CASE WebStartFails
  BY <1>3 DEF WebStartFails, StartFails, CloseAcceptor, StatusChanged, Sweep, Report
<1>4. CASE ClickStop /\ UNCHANGED webServerVars
  BY <1>4 DEF ClickStop, StatusChanged
<1>5. CASE WebStopCloses
  BY <1>5 DEF WebStopCloses, StopCloses, CloseAcceptor
<1>6. CASE WebStopEnds
  BY <1>6 DEF WebStopEnds, StopEnds, StatusChanged, Sweep, Report
<1>7. ASSUME NEW c \in Channels, WebClickClose(c) PROVE OneReporter' /\ ReportedOnce'
  BY <1>7 DEF WebClickClose, ClickClose, Report
<1>8. ASSUME NEW c \in Channels, WebSend(c) PROVE OneReporter' /\ ReportedOnce'
  BY <1>8 DEF WebSend, Send
<1>9. ASSUME NEW c \in Channels, WebAccepted(c) PROVE OneReporter' /\ ReportedOnce'
  BY <1>9 DEF WebAccepted, AcceptAt, HsAt
<1>10. ASSUME NEW c \in Channels, AcceptFails(c) /\ UNCHANGED webServerVars
       PROVE  OneReporter' /\ ReportedOnce'
  BY <1>10 DEF AcceptFails, AcceptAt
<1>11. ASSUME NEW c \in Channels, Rearm(c) /\ UNCHANGED webServerVars
       PROVE  OneReporter' /\ ReportedOnce'
  BY <1>11 DEF Rearm, AcceptAt
<1>12. ASSUME NEW c \in Channels, RequestRead(c) \/ Granted(c)
       PROVE  OneReporter' /\ ReportedOnce'
  BY <1>12 DEF RequestRead, Granted, HsAt
<1>13. ASSUME NEW c \in Channels, HandshakeFails(c) PROVE OneReporter' /\ ReportedOnce'
  BY <1>13 DEF HandshakeFails, HsAt
<1>14. ASSUME NEW c \in Channels, WebAddChannel(c) PROVE OneReporter' /\ ReportedOnce'
  BY <1>14 DEF WebAddChannel, HsAt, List
<1>15. ASSUME NEW c \in Channels, WriteDone(c) /\ UNCHANGED webServerVars
       PROVE  OneReporter' /\ ReportedOnce'
  BY <1>15 DEF WriteDone, IoAt
<1>16. ASSUME NEW c \in Channels, NEW o \in IoOps, WebIoFails(c, o)
       PROVE  OneReporter' /\ ReportedOnce'
  BY <1>16 DEF WebIoFails, IoAt
<1>17. ASSUME NEW c \in Channels, NEW o \in IoOps, WebRemoveChannel(c, o)
       PROVE  OneReporter' /\ ReportedOnce'
  BY <1>17 DEF WebRemoveChannel, RemoveChannel, IoAt, Report
<1> QED
  BY <1>1, <1>2, <1>3, <1>4, <1>5, <1>6, <1>7, <1>8, <1>9, <1>10, <1>11, <1>12, <1>13,
     <1>14, <1>15, <1>16, <1>17
     DEF WebSocketServerNext, WebStop, WebAccept

\* Every step of the WebSocket server keeps the acceptor and what it listens for.
LEMMA WebAcceptor ==
  ASSUME ServerIInv, class = "WebSocketServer", WebSocketServerNext
  PROVE  AcceptorInv' /\ Listening'
<1> USE DEF ServerIInv, ServerTypes, DeviceTypeOK, ServerTypeOK, WebServerTypeOK, Servers,
            Serving, AcceptorInv, ServerStatus, AcceptNeedsAcceptor, StopLeavesCut,
            Listening,
            ChannelInv, FreshUntouched, HandedOver, Untouched, NoTestedClose,
            deviceVars, serverVars, webServerVars
<1>1. CASE ClickConnect /\ UNCHANGED <<serverVars, webServerVars>>
  BY <1>1 DEF ClickConnect, StatusChanged
<1>2. CASE WebStart
  BY <1>2 DEF WebStart, Listen, Started, StatusChanged, StartAcceptClient, AcceptAt
<1>3. CASE WebStartFails
  BY <1>3 DEF WebStartFails, StartFails, CloseAcceptor, StatusChanged, Sweep, Report
<1>4. CASE ClickStop /\ UNCHANGED webServerVars
  BY <1>4 DEF ClickStop, StatusChanged
<1>5. CASE WebStopCloses
  BY <1>5 DEF WebStopCloses, StopCloses, CloseAcceptor
<1>6. CASE WebStopEnds
  BY <1>6 DEF WebStopEnds, StopEnds, StatusChanged, Sweep, Report
<1>7. ASSUME NEW c \in Channels, WebClickClose(c) PROVE AcceptorInv' /\ Listening'
  BY <1>7 DEF WebClickClose, ClickClose, Report
<1>8. ASSUME NEW c \in Channels, WebSend(c) PROVE AcceptorInv' /\ Listening'
  BY <1>8 DEF WebSend, Send
<1>9. ASSUME NEW c \in Channels, WebAccepted(c) PROVE AcceptorInv' /\ Listening'
  BY <1>9 DEF WebAccepted, AcceptAt, HsAt
<1>10. ASSUME NEW c \in Channels, AcceptFails(c) /\ UNCHANGED webServerVars
       PROVE  AcceptorInv' /\ Listening'
  BY <1>10 DEF AcceptFails, AcceptAt
<1>11. ASSUME NEW c \in Channels, Rearm(c) /\ UNCHANGED webServerVars
       PROVE  AcceptorInv' /\ Listening'
  BY <1>11 DEF Rearm, AcceptAt
<1>12. ASSUME NEW c \in Channels, RequestRead(c) \/ Granted(c)
       PROVE  AcceptorInv' /\ Listening'
  BY <1>12 DEF RequestRead, Granted, HsAt
<1>13. ASSUME NEW c \in Channels, HandshakeFails(c) PROVE AcceptorInv' /\ Listening'
  BY <1>13 DEF HandshakeFails, HsAt
<1>14. ASSUME NEW c \in Channels, WebAddChannel(c) PROVE AcceptorInv' /\ Listening'
  BY <1>14 DEF WebAddChannel, HsAt, List
<1>15. ASSUME NEW c \in Channels, WriteDone(c) /\ UNCHANGED webServerVars
       PROVE  AcceptorInv' /\ Listening'
  BY <1>15 DEF WriteDone, IoAt
<1>16. ASSUME NEW c \in Channels, NEW o \in IoOps, WebIoFails(c, o)
       PROVE  AcceptorInv' /\ Listening'
  BY <1>16 DEF WebIoFails, IoAt
<1>17. ASSUME NEW c \in Channels, NEW o \in IoOps, WebRemoveChannel(c, o)
       PROVE  AcceptorInv' /\ Listening'
  BY <1>17 DEF WebRemoveChannel, RemoveChannel, IoAt, Report
<1> QED
  BY <1>1, <1>2, <1>3, <1>4, <1>5, <1>6, <1>7, <1>8, <1>9, <1>10, <1>11, <1>12, <1>13,
     <1>14, <1>15, <1>16, <1>17
     DEF WebSocketServerNext, WebStop, WebAccept

\* Every step of the WebSocket server keeps its list of connections.
LEMMA WebLists ==
  ASSUME ServerIInv, class = "WebSocketServer", WebSocketServerNext
  PROVE  ClosedIsReported' /\ NothingElseSurvivesStop'
<1> USE DEF ServerIInv, ServerTypes, DeviceTypeOK, ServerTypeOK, WebServerTypeOK, Servers,
            Serving, AcceptorInv, ServerStatus, AcceptNeedsAcceptor, StopLeavesCut,
            ClosedIsReported, NothingElseSurvivesStop,
            ChannelInv, FreshUntouched, HandedOver, Untouched, NoTestedClose, OneReporter,
            Idle, IoOps,
            deviceVars, serverVars, webServerVars
<1>1. CASE ClickConnect /\ UNCHANGED <<serverVars, webServerVars>>
  BY <1>1 DEF ClickConnect, StatusChanged
<1>2. CASE WebStart
  BY <1>2 DEF WebStart, Listen, Started, StatusChanged, StartAcceptClient, AcceptAt
<1>3. CASE WebStartFails
  BY <1>3 DEF WebStartFails, StartFails, CloseAcceptor, StatusChanged, Sweep, Report
<1>4. CASE ClickStop /\ UNCHANGED webServerVars
  BY <1>4 DEF ClickStop, StatusChanged
<1>5. CASE WebStopCloses
  BY <1>5 DEF WebStopCloses, StopCloses, CloseAcceptor
<1>6. CASE WebStopEnds
  BY <1>6 DEF WebStopEnds, StopEnds, StatusChanged, Sweep, Report
<1>7. ASSUME NEW c \in Channels, WebClickClose(c)
      PROVE  ClosedIsReported' /\ NothingElseSurvivesStop'
  BY <1>7 DEF WebClickClose, ClickClose, Report
<1>8. ASSUME NEW c \in Channels, WebSend(c)
      PROVE  ClosedIsReported' /\ NothingElseSurvivesStop'
  BY <1>8 DEF WebSend, Send
<1>9. ASSUME NEW c \in Channels, WebAccepted(c)
      PROVE  ClosedIsReported' /\ NothingElseSurvivesStop'
  BY <1>9 DEF WebAccepted, AcceptAt, HsAt
<1>10. ASSUME NEW c \in Channels, AcceptFails(c) /\ UNCHANGED webServerVars
       PROVE  ClosedIsReported' /\ NothingElseSurvivesStop'
  BY <1>10 DEF AcceptFails, AcceptAt
<1>11. ASSUME NEW c \in Channels, Rearm(c) /\ UNCHANGED webServerVars
       PROVE  ClosedIsReported' /\ NothingElseSurvivesStop'
  BY <1>11 DEF Rearm, AcceptAt
<1>12. ASSUME NEW c \in Channels, RequestRead(c) \/ Granted(c)
       PROVE  ClosedIsReported' /\ NothingElseSurvivesStop'
  BY <1>12 DEF RequestRead, Granted, HsAt
<1>13. ASSUME NEW c \in Channels, HandshakeFails(c)
       PROVE  ClosedIsReported' /\ NothingElseSurvivesStop'
  BY <1>13 DEF HandshakeFails, HsAt
<1>14. ASSUME NEW c \in Channels, WebAddChannel(c)
       PROVE  ClosedIsReported' /\ NothingElseSurvivesStop'
  BY <1>14 DEF WebAddChannel, HsAt, List
<1>15. ASSUME NEW c \in Channels, WriteDone(c) /\ UNCHANGED webServerVars
       PROVE  ClosedIsReported' /\ NothingElseSurvivesStop'
  BY <1>15 DEF WriteDone, IoAt
<1>16. ASSUME NEW c \in Channels, NEW o \in IoOps, WebIoFails(c, o)
       PROVE  ClosedIsReported' /\ NothingElseSurvivesStop'
  BY <1>16 DEF WebIoFails, IoAt
<1>17. ASSUME NEW c \in Channels, NEW o \in IoOps, WebRemoveChannel(c, o)
       PROVE  ClosedIsReported' /\ NothingElseSurvivesStop'
  BY <1>17 DEF WebRemoveChannel, RemoveChannel, IoAt, Report
<1> QED
  BY <1>1, <1>2, <1>3, <1>4, <1>5, <1>6, <1>7, <1>8, <1>9, <1>10, <1>11, <1>12, <1>13,
     <1>14, <1>15, <1>16, <1>17
     DEF WebSocketServerNext, WebStop, WebAccept

-----------------------------------------------------------------------------
(* The other devices, which leave the servers' variables alone.             *)

\* The UDP devices change neither the class nor the servers' list.
LEMMA UDPFrame == UDPNext => UNCHANGED <<class, listed>>
BY DEF UDPNext, deviceVars, udpVars, ClickConnect, StatusChanged, UDPStart, UDPStop,
UDPStopNotify,
       UDPIoFails, UDPReceived, LookupEndpoint, ResolveFails, SetUpFails, ConnectFails,
       UDPOpenFails, UDPOpened, ReportConnected, SetStatus, TellConnected, AddMain,
       NotifyRemove, NotifyStatus, NotifyWindow, UDPCloseChannel, UDPAddChannel,
       ChannelFails, UDPRemoveChannel

\* The switch changes neither the class nor the servers' list.
LEMMA SwitchFrame == SwitchNext => UNCHANGED <<class, listed>>
<1> USE DEF deviceVars, switchVars
<1>1. CASE SwitchUI
  BY <1>1 DEF SwitchUI, ClickConnect, StatusChanged, OpenFirst, OpenFirstFails,
       ConfigFirstFails, OpenSecond, OpenSecondFails, ReportEnds, StopSwitch, StopReports,
       ClickCloseEnd, SendTo
<1>2. CASE SwitchConnect
  BY <1>2 DEF SwitchConnect, ResolveEndFails, ResolveEndDone, ConnectEndDone,
       ConnectEndFails, HandlerSets, HandlerTells, HandlerLists, ShowStatus
<1>3. ASSUME NEW e \in Ends,
             ReadData(e) \/ ForwardDone(e) \/ ReadFails(e) \/ SendDone(e) \/ CloseEnd(e)
      PROVE  UNCHANGED <<class, listed>>
  BY <1>3 DEF ReadData, ForwardDone, ReadFails, SendDone, CloseEnd
<1>4. ASSUME NEW t \in SwitchThreads,
             CloseBoth(t) \/ RemoveEnds(t) \/ SetDisconnected(t) \/ TellDisconnected(t)
      PROVE  UNCHANGED <<class, listed>>
  BY <1>4 DEF CloseBoth, RemoveEnds, SetDisconnected, TellDisconnected, ShowStatus
<1> QED
  BY <1>1, <1>2, <1>3, <1>4 DEF SwitchNext

\* A server that was never started satisfies its invariant.
LEMMA ServersStart == Init => ServerIInv
<1> SUFFICES ASSUME Init PROVE ServerIInv
  OBVIOUS
<1> USE DEF Init, DeviceInit, ServerInit, WebServerInit
<1>1. ServerTypes
  <2>1. /\ accept \in [Channels -> AcceptPhases] /\ hs \in [Channels -> HandshakePhases]
        /\ reported \in [Channels -> 0..2]
    BY DEF AcceptPhases, HandshakePhases
  <2>2. io \in [Channels -> [IoOps -> IoPhases]]
    <3>1. [o \in IoOps |-> "idle"] \in [IoOps -> IoPhases]
      BY DEF IoPhases
    <3> QED
      BY <3>1
  <2> QED
    BY <2>1, <2>2 DEF ServerTypes, DeviceTypeOK, ServerTypeOK, WebServerTypeOK, Statuses
<1>2. ChannelInv /\ OneReporter
  BY DEF ChannelInv, FreshUntouched, HandedOver, NotServing, NoHandshake, NoTestedClose,
         Untouched, Idle, IoOps, OneReporter
<1>3. AcceptorInv
  BY DEF AcceptorInv, ServerStatus, AcceptNeedsAcceptor, StopLeavesCut
<1>4. ClosedIsReported /\ NothingElseSurvivesStop /\ Listening /\ ReportedOnce
  BY DEF ClosedIsReported, NothingElseSurvivesStop, Listening, ReportedOnce
<1> QED
  BY <1>1, <1>2, <1>3, <1>4 DEF ServerIInv, ServerTypes

\* A step that leaves the servers alone, of another device or none.
LEMMA ServerFrame ==
  ASSUME ServerIInv, DeviceTypeOK', UNCHANGED <<class, listed, serverVars, webServerVars>>,
         ~Serving \/ UNCHANGED deviceVars
  PROVE  ServerIInv'
<1> USE DEF serverVars, webServerVars, deviceVars, ServerIInv
<1>1. ServerTypeOK' /\ WebServerTypeOK'
  BY DEF ServerTypeOK, WebServerTypeOK
<1>2. ChannelInv' /\ OneReporter'
  BY DEF ChannelInv, FreshUntouched, HandedOver, NotServing, NoHandshake, NoTestedClose,
         Untouched, Idle, OneReporter, Serving
<1>3. ClosedIsReported' /\ ReportedOnce'
  BY DEF ClosedIsReported, ReportedOnce
<1>4. CASE UNCHANGED deviceVars
  BY <1>1, <1>2, <1>3, <1>4 DEF AcceptorInv, ServerStatus, AcceptNeedsAcceptor,
     StopLeavesCut, NothingElseSurvivesStop, Listening, Serving
<1>5. CASE ~Serving
  <2>1. open = {} /\ listed = {} /\ \A c \in Channels : accept[c] = "new"
    BY <1>5
       DEF ChannelInv, NotServing, FreshUntouched, Untouched, DeviceTypeOK, ServerTypeOK
  <2> QED
    BY <1>1, <1>2, <1>3, <1>5, <2>1 DEF AcceptorInv, ServerStatus, AcceptNeedsAcceptor,
       StopLeavesCut, NothingElseSurvivesStop, Listening, Serving, Servers
<1> QED
  BY <1>4, <1>5

-----------------------------------------------------------------------------
(* The UDP devices: the invariant.                                          *)

UDPClasses == {"UDPBasic", "UDPClient"}

\* A connect thread that is to report success has an open socket.
OpenedHasSocket == ~bereft => \A t \in Threads : thr[t] = "opened" => sock

\* A channel that the window lists or is about to list is that of the table.
EntryNamesChannel ==
  ~stale => \A c \in Channels : sub[c] \in {"adding", "listed"} => entry = c

UDPIInv ==
  /\ DeviceTypeOK /\ UDPTypeOK
  /\ OpenedHasSocket /\ EntryNamesChannel /\ ConnectedHasSocket

-----------------------------------------------------------------------------
(* The UDP devices: the steps.                                              *)

UDPTypes == DeviceTypeOK /\ UDPTypeOK

\* What an action of a UDP device leaves, with the sweep it may end in.
LEMMA SweepTypes ==
  ASSUME UDPTypes, UDPSweep
  PROVE  /\ sock' \in BOOLEAN /\ bereft' \in BOOLEAN /\ main' \in BOOLEAN
         /\ status' \in Statuses /\ sub' \in [Channels -> SubPhases]
         /\ entry' \in Channels \cup {NoChannel} /\ stale' \in BOOLEAN
BY DEF UDPTypes, DeviceTypeOK, UDPTypeOK, UDPSweep, UDPSweepSubs, CloseM_Socket, UDPErase,
       Unlist, UDPListed, Statuses, SubPhases

\* Every step of the UDP devices keeps their types.
LEMMA UDPTypeStep == UDPTypes /\ UDPNext => UDPTypes'
<1> SUFFICES ASSUME UDPTypes, UDPNext PROVE UDPTypes'
  OBVIOUS
<1> USE UDPAssumption DEF UDPTypes, DeviceTypeOK, UDPTypeOK, Statuses, Actors, OwnIo,
            ThrPhases,
        SubPhases, udpVars, deviceVars
<1>1. CASE ClickConnect /\ UNCHANGED udpVars
  BY <1>1 DEF ClickConnect, StatusChanged
<1>2. CASE UDPStart \/ UDPStop
  BY <1>2 DEF UDPStart, UDPStop, ThrAt, CloseM_Socket
<1>3. CASE UDPStopNotify
  BY <1>3 DEF UDPStopNotify, StatusChanged, UDPSweepSubs, UDPErase, Unlist
<1>4. CASE UDPIoFails
  BY <1>4 DEF UDPIoFails, UDPCloseSocket, CloseM_Socket
<1>5. CASE UDPReceived \/ LookupEndpoint
  BY <1>5 DEF UDPReceived, LookupEndpoint
<1>6. ASSUME NEW t \in Threads,
             \/ ResolveFails(t) \/ SetUpFails(t) \/ ConnectFails(t)
             \/ UDPOpenFails(t) \/ UDPOpened(t)
      PROVE  UDPTypes'
  <2>1. CASE ResolveFails(t)
    BY <2>1 DEF ResolveFails, UDPCloseSocket, CloseM_Socket
  <2>2. CASE SetUpFails(t) \/ ConnectFails(t)
    BY <2>2 DEF SetUpFails, ConnectFails, ThrAt
  <2>3. CASE UDPOpenFails(t) \/ UDPOpened(t)
    BY <2>3 DEF UDPOpenFails, UDPOpened, ThrAt
  <2> QED
    BY <1>6, <2>1, <2>2, <2>3
<1>7. ASSUME NEW t \in Threads, ReportConnected(t) \/ AddMain(t) PROVE UDPTypes'
  BY <1>7 DEF ReportConnected, SetStatus, AddMain, ThrAt
<1>8. ASSUME NEW t \in Threads, TellConnected(t) PROVE UDPTypes'
  BY <1>8, SweepTypes DEF TellConnected, ThrAt
<1>9. ASSUME NEW a \in Actors, NotifyRemove(a) \/ NotifyStatus(a) PROVE UDPTypes'
  BY <1>9 DEF NotifyRemove, NotifyStatus, SetStatus, ThrAt
<1>10. ASSUME NEW a \in Actors, NotifyWindow(a) PROVE UDPTypes'
  BY <1>10, SweepTypes DEF NotifyWindow, ThrAt
<1>11. ASSUME NEW c \in Channels,
              UDPCloseChannel(c) \/ UDPAddChannel(c) \/ ChannelFails(c) \/ UDPRemoveChannel(c)
       PROVE  UDPTypes'
  BY <1>11
     DEF UDPCloseChannel, UDPAddChannel, ChannelFails, UDPRemoveChannel, UDPErase, Unlist
<1> QED
  BY <1>1, <1>2, <1>3, <1>4, <1>5, <1>6, <1>7, <1>8, <1>9, <1>10, <1>11 DEF UDPNext

\* The endpoint's entry: each close either takes it out or is told as stale.
LEMMA EntryStep == UDPIInv /\ UDPNext => EntryNamesChannel'
<1> SUFFICES ASSUME UDPIInv, UDPNext PROVE EntryNamesChannel'
  OBVIOUS
<1> USE UDPAssumption DEF UDPIInv, UDPTypeOK, EntryNamesChannel, udpVars
<1>1. CASE UDPSweepSubs
  <2>1. CASE UDPListed = {}
    BY <1>1, <2>1 DEF UDPSweepSubs, UDPListed
  <2>2. CASE UDPListed # {}
    <3>1. \A c \in Channels :
            sub'[c] \in {"adding", "listed"} => sub[c] = "adding" /\ c \notin UDPListed
      BY <1>1 DEF UDPSweepSubs, Unlist, UDPListed
    <3>2. stale' = (stale \/ entry \notin UDPListed \cup {NoChannel})
      BY <1>1, <2>2 DEF UDPSweepSubs, UDPErase
    <3> QED
      BY <3>1, <3>2
  <2> QED
    BY <2>1, <2>2
<1>2. CASE UNCHANGED <<entry, sub, stale>>
  BY <1>2
<1>3. CASE LookupEndpoint
  BY <1>3 DEF LookupEndpoint
<1>4. ASSUME NEW c \in Channels, UDPCloseChannel(c) PROVE EntryNamesChannel'
  BY <1>4 DEF UDPCloseChannel, UDPErase, Unlist, UDPListed
<1>5. ASSUME NEW c \in Channels, UDPAddChannel(c) \/ UDPRemoveChannel(c)
      PROVE  EntryNamesChannel'
  BY <1>5 DEF UDPAddChannel, UDPRemoveChannel
<1>6. ASSUME NEW c \in Channels, ChannelFails(c) PROVE EntryNamesChannel'
  BY <1>6 DEF ChannelFails, UDPErase
<1> QED
  BY <1>1, <1>2, <1>3, <1>4, <1>5, <1>6
     DEF UDPNext, UDPStart, UDPStop, UDPStopNotify, UDPIoFails, UDPReceived, ResolveFails,
         SetUpFails, ConnectFails, UDPOpenFails, UDPOpened, ReportConnected, SetStatus,
         TellConnected, AddMain, NotifyRemove, NotifyStatus, NotifyWindow, UDPSweep

\* The socket: whoever closes it is about to say so, or closes it under a thread.
LEMMA SocketStep ==
  UDPIInv /\ class \in UDPClasses /\ UDPNext => OpenedHasSocket' /\ ConnectedHasSocket'
<1> DEFINE Kept == OpenedHasSocket' /\ ConnectedHasSocket'
<1> SUFFICES ASSUME UDPIInv, class \in UDPClasses, UDPNext PROVE Kept
  OBVIOUS
<1> USE DEF UDPIInv, UDPTypeOK, DeviceTypeOK, OpenedHasSocket, ConnectedHasSocket,
            UDPClasses, Actors, OwnIo,
            udpVars, deviceVars
<1>1. CASE ClickConnect /\ UNCHANGED udpVars
  BY <1>1 DEF ClickConnect, StatusChanged
<1>2. CASE UDPStart \/ UDPStop
  BY <1>2 DEF UDPStart, UDPStop, ThrAt, CloseM_Socket
<1>3. CASE UDPStopNotify
  BY <1>3 DEF UDPStopNotify, StatusChanged
<1>4. CASE UDPIoFails
  BY <1>4 DEF UDPIoFails, UDPCloseSocket, CloseM_Socket
<1>5. CASE UDPReceived \/ LookupEndpoint
  BY <1>5 DEF UDPReceived, LookupEndpoint
<1>6. ASSUME NEW t \in Threads, ResolveFails(t) PROVE Kept
  BY <1>6 DEF ResolveFails, UDPCloseSocket, CloseM_Socket
<1>7. ASSUME NEW t \in Threads,
             SetUpFails(t) \/ ConnectFails(t) \/ UDPOpenFails(t) \/ UDPOpened(t)
      PROVE  Kept
  BY <1>7 DEF SetUpFails, ConnectFails, UDPOpenFails, UDPOpened, ThrAt
<1>8. ASSUME NEW t \in Threads, ReportConnected(t) \/ AddMain(t) PROVE Kept
  BY <1>8 DEF ReportConnected, SetStatus, AddMain, ThrAt
<1>9. ASSUME NEW t \in Threads, TellConnected(t) PROVE Kept
  BY <1>9 DEF TellConnected, ThrAt, UDPSweep, CloseM_Socket
<1>10. ASSUME NEW a \in Actors, NotifyRemove(a) \/ NotifyStatus(a) PROVE Kept
  BY <1>10 DEF NotifyRemove, NotifyStatus, SetStatus, ThrAt
<1>11. ASSUME NEW a \in Actors, NotifyWindow(a) PROVE Kept
  BY <1>11 DEF NotifyWindow, ThrAt, UDPSweep, CloseM_Socket
<1>12. ASSUME NEW c \in Channels,
              UDPCloseChannel(c) \/ UDPAddChannel(c) \/ ChannelFails(c) \/ UDPRemoveChannel(c)
       PROVE  Kept
  BY <1>12 DEF UDPCloseChannel, UDPAddChannel, ChannelFails, UDPRemoveChannel
<1> QED
  BY <1>1, <1>2, <1>3, <1>4, <1>5, <1>6, <1>7, <1>8, <1>9, <1>10, <1>11, <1>12 DEF UDPNext

\* A UDP device that was never started satisfies its invariant.
LEMMA UDPStarts == Init => UDPIInv
<1> SUFFICES ASSUME Init PROVE UDPIInv
  OBVIOUS
<1> USE UDPAssumption DEF Init, DeviceInit, UDPInit
<1>1. DeviceTypeOK
  BY DEF DeviceTypeOK, Statuses
<1>2. UDPTypeOK
  <2>1. thr \in [Actors -> ThrPhases] /\ sub \in [Channels -> SubPhases]
    BY DEF ThrPhases, SubPhases
  <2>2. looking \in 0..Lookups
    OBVIOUS
  <2>3. entry \in Channels \cup {NoChannel}
    OBVIOUS
  <2> QED
    BY <2>1, <2>2, <2>3 DEF UDPTypeOK
<1>3. OpenedHasSocket /\ EntryNamesChannel /\ ConnectedHasSocket
  BY DEF OpenedHasSocket, EntryNamesChannel, ConnectedHasSocket, Actors
<1> QED
  BY <1>1, <1>2, <1>3 DEF UDPIInv

\* A step that leaves the UDP devices alone, of another device or none.
LEMMA UDPStays ==
  ASSUME UDPIInv, DeviceTypeOK', UNCHANGED <<class, udpVars>>,
         class \notin UDPClasses \/ UNCHANGED deviceVars
  PROVE  UDPIInv'
BY DEF UDPIInv, UDPTypeOK, OpenedHasSocket, EntryNamesChannel, ConnectedHasSocket, udpVars,
       deviceVars, UDPClasses

-----------------------------------------------------------------------------
(* The devices of two ends: the invariant.                                  *)

\* Until the ends know each other nothing reads, writes or closes them.
NotOwnedYet ==
  ~owned =>
    /\ shown = {} /\ late = {} /\ sending = {}
    /\ \A e \in Ends : reads[e] = 0 /\ forwards[e] = 0 /\ closer[e] = "none"
    /\ closer["connect"] \notin {"both", "remove", "set", "tell"}

\* The TCP connect is over before its handler runs, and both before a start.
OneConnect ==
  /\ closer["connect"] # "none" => conn = "none"
  /\ Joined /\ ui \in {"start", "second"} => conn = "none" /\ closer["connect"] = "none"

\* A thread that has closed an end, or is about to close the other, and cannot
\* end before the UI thread is idle.
Closing == \E t \in SwitchThreads : closer[t] \in {"both", "remove"}

Opening ==
  Joined /\ ~left /\ ~outrun =>
    /\ ui = "second" => "A" \in ends \/ Closing
    /\ ui = "third" => ends = Ends \/ Closing

\* Connected with an end closed: somebody is about to say Disconnected.
BrokenIsTold ==
  Joined /\ ~left /\ ~outrun /\ status = "Connected" =>
    \/ ends = Ends \/ ui = "stop" \/ Closing
    \/ \E t \in SwitchThreads : closer[t] = "set"
    \/ closer["connect"] = "failSet"

\* An end that is open has something outstanding, but for one just opened by a
\* Start that has not come to the first reads.
Alive(e) == reads[e] + forwards[e] > 0 \/ e \in late

OpenIsRead ==
  Joined /\ ~left =>
    /\ ui \notin {"second", "third"} => \A e \in ends : Alive(e)
    /\ ui = "second" /\ "B" \in ends => Alive("B")

SwitchIInv ==
  /\ DeviceTypeOK /\ SwitchTypeOK
  /\ NotOwnedYet /\ OneConnect /\ Opening /\ BrokenIsTold /\ OpenIsRead

-----------------------------------------------------------------------------
(* The devices of two ends: the steps.                                      *)

SwitchTypes == DeviceTypeOK /\ SwitchTypeOK

\* The switch has two ends.
LEMMA OtherEnds == OtherEnd("A") = "B" /\ OtherEnd("B") = "A"
BY DEF OtherEnd, Ends

\* The counter of read loops stays below its bound, and counts one at least.
LEMMA MoreType == \A n \in 0..Loops : More(n) \in 0..Loops /\ (Loops > 0 => More(n) > 0)
BY LoopsAssumption DEF More

\* The variables a close, or a sweep, changes.
EndsTypes ==
  /\ ends \subseteq Ends /\ sending \subseteq Ends /\ late \subseteq Ends
  /\ reads \in [Ends -> 0..Loops] /\ conn \in ConnPhases
  /\ up \in BOOLEAN /\ outrun \in BOOLEAN

\* Closing ends keeps the types of both.
LEMMA CloseEndsTypes == ASSUME SwitchTypeOK, NEW E \in SUBSET Ends,
CloseEnds(E) PROVE EndsTypes'
<1>1. ends' \subseteq Ends /\ sending' \subseteq Ends
  BY DEF SwitchTypeOK, CloseEnds
<1>2. late' \subseteq Ends
  BY DEF SwitchTypeOK, CloseEnds, Canceled
<1>3. reads' \in [Ends -> 0..Loops]
  BY LoopsAssumption DEF SwitchTypeOK, CloseEnds
<1>4. conn' \in ConnPhases /\ up' \in BOOLEAN /\ outrun' \in BOOLEAN
  BY DEF SwitchTypeOK, CloseEnds, ConnPhases
<1> QED
  BY <1>1, <1>2, <1>3, <1>4 DEF EndsTypes

\* Reading from ends keeps the types of the read loops.
LEMMA ReadFromTypes ==
  ASSUME SwitchTypeOK, NEW E \in SUBSET Ends, ReadFrom(E)
  PROVE  reads' \in [Ends -> 0..Loops] /\ late' \subseteq Ends
BY MoreType DEF SwitchTypeOK, ReadFrom

\* What the closing of a channel sweeps away is ends.
LEMMA SweptEnds == ASSUME SwitchTypeOK PROVE Swept \subseteq Ends
BY DEF SwitchTypeOK, Swept

\* Reporting a closed end keeps the types.
LEMMA DisconnectedTypes ==
  ASSUME SwitchTypes, NEW E \in SUBSET Ends, Disconnected(E)
  PROVE  EndsTypes' /\ shown' = {} /\ status' \in Statuses /\ button' \in BOOLEAN
<1>1. E \cup Swept \in SUBSET Ends
  BY SweptEnds DEF SwitchTypes
<1>2. CloseEnds(E \cup Swept)
  BY DEF Disconnected
<1> QED
  BY <1>1, <1>2, CloseEndsTypes DEF Disconnected, StatusChanged, Statuses, SwitchTypes

\* Showing a status keeps the types.
LEMMA ShowTypes ==
  ASSUME SwitchTypes, NEW s \in Statuses, ShowStatus(s)
  PROVE  EndsTypes' /\ shown' \subseteq Ends /\ status' \in Statuses /\ button' \in BOOLEAN
<1>1. CASE SweepEnds
  <2>1. CloseEnds(Swept) /\ shown' = {} /\ status' \in Statuses
    BY <1>1 DEF SweepEnds, Statuses, SwitchTypes, DeviceTypeOK
  <2> QED
    BY <2>1, SweptEnds, CloseEndsTypes DEF SwitchTypes, ShowStatus
<1>2. CASE UNCHANGED <<status, ends, shown, reads, sending, late, conn, up, outrun>>
  BY <1>2 DEF ShowStatus, EndsTypes, SwitchTypes, SwitchTypeOK, DeviceTypeOK
<1> QED
  BY <1>1, <1>2 DEF ShowStatus

\* Every step of the switch keeps its types.
LEMMA SwitchTypeStep == SwitchTypes /\ SwitchNext => SwitchTypes'
<1> SUFFICES ASSUME SwitchTypes, SwitchNext PROVE SwitchTypes'
  OBVIOUS
<1> USE DEF SwitchTypes, DeviceTypeOK, SwitchTypeOK, EndsTypes, deviceVars, switchVars
<1>1. CASE ClickConnect /\ UNCHANGED switchVars
  BY <1>1 DEF ClickConnect, StatusChanged, Statuses
<1>2. CASE OpenFirst \/ OpenSecond
  BY <1>2 DEF OpenFirst, OpenSecond, Ends, ConnPhases
<1>3. CASE OpenFirstFails \/ StopReports
  BY <1>3, DisconnectedTypes DEF OpenFirstFails, StopReports
<1>4. CASE ConfigFirstFails
  BY <1>4, DisconnectedTypes DEF ConfigFirstFails
<1>5. CASE OpenSecondFails
  BY <1>5, DisconnectedTypes DEF OpenSecondFails
<1>6. CASE ReportEnds
  BY <1>6, ReadFromTypes DEF ReportEnds, StatusChanged, Statuses
<1>7. CASE StopSwitch
  BY <1>7, CloseEndsTypes DEF StopSwitch
<1>8. CASE ResolveEndFails \/ ResolveEndDone
  BY <1>8
     DEF ResolveEndFails, ResolveEndDone, ConnAt, ConnPhases, HandlerPhases, CloserPhases
<1>9. CASE ConnectEndDone
  BY <1>9 DEF ConnectEndDone, ConnAt, ConnPhases, HandlerPhases, OkPhases
<1>10. CASE ConnectEndFails
  <2>1. closer' \in [SwitchThreads -> CloserPhases \cup HandlerPhases]
    BY <1>10 DEF ConnectEndFails, HandlerPhases, CloserPhases
  <2>2. reads' \in [Ends -> 0..Loops]
    <3>1. 0 \in 0..Loops
      BY LoopsAssumption
    <3> QED
      BY <1>10, <3>1 DEF ConnectEndFails
  <2> QED
    BY <1>10, <2>1, <2>2 DEF ConnectEndFails, ConnPhases
<1>11. CASE HandlerSets
  BY <1>11 DEF HandlerSets, CloserAt, HandlerPhases, OkPhases, Statuses
<1>12. CASE HandlerTells
  <2>1. closer' \in [SwitchThreads -> CloserPhases \cup HandlerPhases]
    BY <1>12 DEF HandlerTells, CloserAt, HandlerPhases, OkPhases
  <2>2. PICK s \in Statuses : ShowStatus(s)
    BY <1>12 DEF HandlerTells, Statuses
  <2> QED
    BY <2>1, <2>2, ShowTypes DEF ShowStatus
<1>13. CASE HandlerLists
  <2>1. closer' \in [SwitchThreads -> CloserPhases \cup HandlerPhases]
    BY <1>13 DEF HandlerLists, CloserAt, CloserPhases
  <2> QED
    BY <1>13, <2>1, ReadFromTypes DEF HandlerLists, Ends
<1>14. ASSUME NEW e \in Ends, ClickCloseEnd(e) PROVE SwitchTypes'
  BY <1>14, DisconnectedTypes DEF ClickCloseEnd
<1>15. ASSUME NEW e \in Ends, SendTo(e) PROVE SwitchTypes'
  BY <1>15 DEF SendTo
<1>16. ASSUME NEW e \in Ends, ReadData(e) PROVE SwitchTypes'
  BY <1>16, LoopsAssumption DEF ReadData
<1>17. ASSUME NEW e \in Ends, ForwardDone(e) PROVE SwitchTypes'
  <2>1. forwards' \in [Ends -> 0..Loops]
    BY <1>17, LoopsAssumption DEF ForwardDone
  <2>2. reads' \in [Ends -> 0..Loops]
    BY <1>17, MoreType DEF ForwardDone
  <2>3. late' \subseteq Ends
    BY <1>17, OtherEnds DEF ForwardDone, Ends
  <2> QED
    BY <1>17, <2>1, <2>2, <2>3 DEF ForwardDone
<1>18. ASSUME NEW e \in Ends, ReadFails(e) \/ SendDone(e) PROVE SwitchTypes'
  <2>1. CASE ReadFails(e)
    BY <2>1, LoopsAssumption DEF ReadFails
  <2>2. CASE SendDone(e)
    BY <2>2 DEF SendDone
  <2> QED
    BY <1>18, <2>1, <2>2
<1>19. ASSUME NEW e \in Ends, CloseEnd(e) PROVE SwitchTypes'
  <2>1. EndsTypes'
    <3>1. CASE e \in ends
      BY <1>19, <3>1, CloseEndsTypes DEF CloseEnd
    <3>2. CASE e \notin ends
      BY <1>19, <3>2 DEF CloseEnd
    <3> QED
      BY <3>1, <3>2
  <2>2. closer' \in [SwitchThreads -> CloserPhases \cup HandlerPhases]
    BY <1>19 DEF CloseEnd, CloserPhases
  <2> QED
    BY <1>19, <2>1, <2>2 DEF CloseEnd
<1>20. ASSUME NEW t \in SwitchThreads, CloseBoth(t) PROVE SwitchTypes'
  <2>1. closer' \in [SwitchThreads -> CloserPhases \cup HandlerPhases]
    BY <1>20 DEF CloseBoth, CloserAt, CloserPhases
  <2> QED
    BY <1>20, <2>1, CloseEndsTypes DEF CloseBoth
<1>21. ASSUME NEW t \in SwitchThreads, RemoveEnds(t) \/ SetDisconnected(t)
       PROVE  SwitchTypes'
  <2>1. closer' \in [SwitchThreads -> CloserPhases \cup HandlerPhases]
    BY <1>21
       DEF RemoveEnds, SetDisconnected, CloserAt, AfterNotify, CloserPhases, HandlerPhases
  <2> QED
    BY <1>21, <2>1 DEF RemoveEnds, SetDisconnected, Statuses
<1>22. ASSUME NEW t \in SwitchThreads, TellDisconnected(t) PROVE SwitchTypes'
  <2>1. closer' \in [SwitchThreads -> CloserPhases \cup HandlerPhases]
    BY <1>22 DEF TellDisconnected, CloserAt, AfterNotify, CloserPhases, HandlerPhases
  <2>2. ShowStatus("Disconnected") /\ "Disconnected" \in Statuses
    BY <1>22 DEF TellDisconnected, Statuses
  <2> QED
    BY <2>1, <2>2, ShowTypes DEF ShowStatus
<1> QED
  BY <1>1, <1>2, <1>3, <1>4, <1>5, <1>6, <1>7, <1>8, <1>9, <1>10, <1>11, <1>12, <1>13,
  <1>14,
     <1>15, <1>16, <1>17, <1>18, <1>19, <1>20, <1>21, <1>22
     DEF SwitchNext, SwitchUI, SwitchConnect

\* Closing ends begins nothing on a device that is not owned.
LEMMA CloseEndsOwners ==
  ASSUME SwitchTypeOK, NotOwnedYet, NEW E \in SUBSET Ends, CloseEnds(E)
  PROVE  /\ ~owned => late' = {} /\ sending' = {} /\ \A e \in Ends : reads'[e] = 0
         /\ conn = "none" => conn' = "none"
<1>1. ~owned => Canceled(E \cap ends) = {}
  <2>1. \A e \in Ends : OtherEnd(e) \in Ends
    BY OtherEnds DEF Ends
  <2> QED
    BY <2>1 DEF NotOwnedYet, Canceled
<1> QED
  BY <1>1 DEF NotOwnedYet, CloseEnds

\* Every step keeps what the switch may do before it is owned, and one connect.
LEMMA SwitchOwners == SwitchIInv /\ SwitchNext => (NotOwnedYet /\ OneConnect)'
<1> SUFFICES ASSUME SwitchIInv, SwitchNext PROVE (NotOwnedYet /\ OneConnect)'
  OBVIOUS
<1> USE OtherEnds DEF SwitchIInv, DeviceTypeOK, SwitchTypeOK, Ends, SwitchThreads,
            NotOwnedYet, OneConnect, Joined, IsTCP, Canceled, OkPhases,
            deviceVars, switchVars
<1>1. CASE ClickConnect /\ conn = "none" /\ closer["connect"] = "none" /\ UNCHANGED switchVars
  BY <1>1 DEF ClickConnect, StatusChanged
<1>2. CASE OpenFirst
  BY <1>2 DEF OpenFirst
<1>3. CASE OpenFirstFails
  BY <1>3 DEF OpenFirstFails, Disconnected, StatusChanged, CloseEnds, Swept
<1>4. CASE ConfigFirstFails
  BY <1>4 DEF ConfigFirstFails, Disconnected, StatusChanged, CloseEnds, Swept
<1>5. CASE OpenSecond
  BY <1>5 DEF OpenSecond
<1>6. CASE OpenSecondFails
  <2>1. CloseEnds(Ends \cup Swept) /\ Ends \cup Swept \in SUBSET Ends
    BY <1>6, SweptEnds DEF OpenSecondFails, Disconnected
  <2>2. shown' = {} /\ ui' = "idle" /\ UNCHANGED <<class, owned, forwards, closer>>
    BY <1>6 DEF OpenSecondFails, Disconnected
  <2> QED
    BY <2>1, <2>2, CloseEndsOwners
<1>7. CASE ReportEnds
  BY <1>7 DEF ReportEnds, StatusChanged, ReadFrom, Readable
<1>8. CASE StopSwitch
  <2>1. CloseEnds(Ends) /\ Ends \in SUBSET Ends
    BY <1>8 DEF StopSwitch
  <2>2. ui' = "stop" /\ UNCHANGED <<class, shown, owned, forwards, closer>>
    BY <1>8 DEF StopSwitch
  <2> QED
    BY <2>1, <2>2, CloseEndsOwners
<1>9. CASE StopReports
  BY <1>9 DEF StopReports, Disconnected, StatusChanged, CloseEnds, Swept
<1>10. CASE ResolveEndFails \/ ResolveEndDone
  BY <1>10 DEF ResolveEndFails, ResolveEndDone, ConnAt
<1>11. CASE ConnectEndDone
  BY <1>11 DEF ConnectEndDone, ConnAt
<1>12. CASE ConnectEndFails
  BY <1>12 DEF ConnectEndFails
<1>13. CASE HandlerSets
  BY <1>13 DEF HandlerSets, CloserAt
<1>14. CASE HandlerTells
  <2>1. /\ closer["connect"] \in {"okTell", "failTell"} /\ ui' = "idle"
        /\ closer' = [closer EXCEPT !["connect"] =
                       IF closer["connect"] = "okTell" THEN "okAdd" ELSE "failAdd"]
        /\ UNCHANGED <<class, owned, forwards>>
    BY <1>14 DEF HandlerTells, CloserAt, ShowStatus
  <2>2. CASE SweepEnds
    <3>1. CloseEnds(Swept) /\ Swept \in SUBSET Ends /\ shown' = {}
      BY <2>2, SweptEnds DEF SweepEnds
    <3> QED
      BY <2>1, <3>1, CloseEndsOwners
  <2>3. CASE UNCHANGED <<status, ends, shown, reads, sending, late, conn, up, outrun>>
    BY <2>1, <2>3
  <2> QED
    BY <1>14, <2>2, <2>3 DEF HandlerTells, ShowStatus
<1>15. CASE HandlerLists
  BY <1>15 DEF HandlerLists, CloserAt, ReadFrom, Readable
<1>16. ASSUME NEW e \in Ends, ClickCloseEnd(e) PROVE (NotOwnedYet /\ OneConnect)'
  BY <1>16 DEF ClickCloseEnd, Disconnected, StatusChanged, CloseEnds, Swept
<1>17. ASSUME NEW e \in Ends, SendTo(e) PROVE (NotOwnedYet /\ OneConnect)'
  BY <1>17 DEF SendTo
<1>18. ASSUME NEW e \in Ends, ReadData(e) PROVE (NotOwnedYet /\ OneConnect)'
  BY <1>18 DEF ReadData
<1>19. ASSUME NEW e \in Ends, ForwardDone(e) PROVE (NotOwnedYet /\ OneConnect)'
  BY <1>19 DEF ForwardDone, Readable
<1>20. ASSUME NEW e \in Ends, ReadFails(e) \/ SendDone(e) PROVE (NotOwnedYet /\ OneConnect)'
  BY <1>20 DEF ReadFails, SendDone
<1>21. ASSUME NEW e \in Ends, CloseEnd(e) PROVE (NotOwnedYet /\ OneConnect)'
  BY <1>21 DEF CloseEnd, CloseEnds
<1>22. ASSUME NEW t \in SwitchThreads, CloseBoth(t) PROVE (NotOwnedYet /\ OneConnect)'
  BY <1>22 DEF CloseBoth, CloserAt, CloseEnds
<1>23. ASSUME NEW t \in SwitchThreads, RemoveEnds(t) PROVE (NotOwnedYet /\ OneConnect)'
  BY <1>23 DEF RemoveEnds, CloserAt
<1>24. ASSUME NEW t \in SwitchThreads, SetDisconnected(t) PROVE (NotOwnedYet /\ OneConnect)'
  BY <1>24 DEF SetDisconnected, CloserAt, AfterNotify
<1>25. ASSUME NEW t \in SwitchThreads, TellDisconnected(t)
       PROVE  (NotOwnedYet /\ OneConnect)'
  BY <1>25
     DEF TellDisconnected, CloserAt, AfterNotify, ShowStatus, SweepEnds, CloseEnds, Swept
<1> QED
  BY <1>1, <1>2, <1>3, <1>4, <1>5, <1>6, <1>7, <1>8, <1>9, <1>10, <1>11, <1>12, <1>13,
     <1>14, <1>15, <1>16, <1>17, <1>18, <1>19, <1>20, <1>21, <1>22, <1>23, <1>24, <1>25
     DEF SwitchNext, SwitchUI, SwitchConnect

\* Every step keeps that a broken end is told of, or is still being opened.
LEMMA SwitchBreaks == SwitchIInv /\ SwitchNext => (Opening /\ BrokenIsTold)'
<1> SUFFICES ASSUME SwitchIInv, SwitchNext PROVE (Opening /\ BrokenIsTold)'
  OBVIOUS
<1> USE DEF SwitchIInv, DeviceTypeOK, SwitchTypeOK, Ends, SwitchThreads, NotOwnedYet,
            OneConnect, Joined, IsTCP, OkPhases, Opening, BrokenIsTold, Closing,
            deviceVars, switchVars
<1>1. CASE ClickConnect /\ conn = "none" /\ closer["connect"] = "none" /\ UNCHANGED switchVars
  BY <1>1 DEF ClickConnect, StatusChanged
<1>2. CASE OpenFirst
  BY <1>2 DEF OpenFirst
<1>3. CASE OpenFirstFails
  BY <1>3 DEF OpenFirstFails, Disconnected, StatusChanged, CloseEnds, Swept
<1>4. CASE ConfigFirstFails
  BY <1>4 DEF ConfigFirstFails, Disconnected, StatusChanged, CloseEnds, Swept
<1>5. CASE OpenSecond
  BY <1>5 DEF OpenSecond
<1>6. CASE OpenSecondFails
  BY <1>6 DEF OpenSecondFails, Disconnected, StatusChanged, CloseEnds, Swept
<1>7. CASE ReportEnds
  BY <1>7 DEF ReportEnds, StatusChanged, ReadFrom, Readable
<1>8. CASE StopSwitch
  BY <1>8 DEF StopSwitch, CloseEnds
<1>9. CASE StopReports
  BY <1>9 DEF StopReports, Disconnected, StatusChanged, CloseEnds, Swept
<1>10. CASE ResolveEndFails \/ ResolveEndDone
  BY <1>10 DEF ResolveEndFails, ResolveEndDone, ConnAt
<1>11. CASE ConnectEndDone
  BY <1>11 DEF ConnectEndDone, ConnAt
<1>12. CASE ConnectEndFails
  BY <1>12 DEF ConnectEndFails
<1>13. CASE HandlerSets
  BY <1>13 DEF HandlerSets, CloserAt
<1>14. CASE HandlerTells
  BY <1>14 DEF HandlerTells, CloserAt, ShowStatus, SweepEnds, CloseEnds, Swept
<1>15. CASE HandlerLists
  BY <1>15 DEF HandlerLists, CloserAt, ReadFrom, Readable
<1>16. ASSUME NEW e \in Ends, ClickCloseEnd(e) PROVE (Opening /\ BrokenIsTold)'
  BY <1>16 DEF ClickCloseEnd, Disconnected, StatusChanged, CloseEnds, Swept
<1>17. ASSUME NEW e \in Ends, SendTo(e) PROVE (Opening /\ BrokenIsTold)'
  BY <1>17 DEF SendTo
<1>18. ASSUME NEW e \in Ends, ReadData(e) PROVE (Opening /\ BrokenIsTold)'
  BY <1>18 DEF ReadData
<1>19. ASSUME NEW e \in Ends, ForwardDone(e) PROVE (Opening /\ BrokenIsTold)'
  BY <1>19 DEF ForwardDone, Readable
<1>20. ASSUME NEW e \in Ends, ReadFails(e) \/ SendDone(e) PROVE (Opening /\ BrokenIsTold)'
  BY <1>20 DEF ReadFails, SendDone
<1>21. ASSUME NEW e \in Ends, CloseEnd(e) PROVE (Opening /\ BrokenIsTold)'
  BY <1>21 DEF CloseEnd, CloseEnds
<1>22. ASSUME NEW t \in SwitchThreads, CloseBoth(t) PROVE (Opening /\ BrokenIsTold)'
  BY <1>22 DEF CloseBoth, CloserAt, CloseEnds
<1>23. ASSUME NEW t \in SwitchThreads, RemoveEnds(t) PROVE (Opening /\ BrokenIsTold)'
  BY <1>23 DEF RemoveEnds, CloserAt
<1>24. ASSUME NEW t \in SwitchThreads, SetDisconnected(t) PROVE (Opening /\ BrokenIsTold)'
  BY <1>24 DEF SetDisconnected, CloserAt, AfterNotify
<1>25. ASSUME NEW t \in SwitchThreads, TellDisconnected(t) PROVE (Opening /\ BrokenIsTold)'
  BY <1>25
     DEF TellDisconnected, CloserAt, AfterNotify, ShowStatus, SweepEnds, CloseEnds, Swept
<1> QED
  BY <1>1, <1>2, <1>3, <1>4, <1>5, <1>6, <1>7, <1>8, <1>9, <1>10, <1>11, <1>12, <1>13,
     <1>14, <1>15, <1>16, <1>17, <1>18, <1>19, <1>20, <1>21, <1>22, <1>23, <1>24, <1>25
     DEF SwitchNext, SwitchUI, SwitchConnect

\* A close leaves the ends that stay open as they are.
LEMMA CloseEndsReads ==
  ASSUME SwitchTypeOK, NEW E \in SUBSET Ends, CloseEnds(E), UNCHANGED forwards
  PROVE  ends' \subseteq ends /\ \A e \in ends' : Alive(e) => Alive(e)'
<1>1. ends' = ends \ E /\ late \subseteq late'
  BY DEF CloseEnds
<1>2. \A e \in ends' : reads'[e] = reads[e]
  BY <1>1 DEF CloseEnds, SwitchTypeOK
<1> QED
  BY <1>1, <1>2 DEF Alive, SwitchTypeOK

\* Every step keeps a read loop on both ends that are forwarded.
LEMMA SwitchReads == SwitchIInv /\ SwitchNext => OpenIsRead'
<1> SUFFICES ASSUME SwitchIInv, SwitchNext PROVE OpenIsRead'
  OBVIOUS
<1> USE LoopsAssumption, OtherEnds DEF SwitchIInv, DeviceTypeOK, SwitchTypeOK, Ends,
            NotOwnedYet, OneConnect, Joined, IsTCP, OpenIsRead, Alive, More, Canceled,
            deviceVars, switchVars
<1>1. CASE ClickConnect /\ conn = "none" /\ closer["connect"] = "none" /\ UNCHANGED switchVars
  BY <1>1 DEF ClickConnect, StatusChanged
<1>2. CASE OpenFirst
  BY <1>2 DEF OpenFirst
<1>3. CASE OpenFirstFails
  BY <1>3 DEF OpenFirstFails, Disconnected, StatusChanged, CloseEnds, Swept
<1>4. CASE ConfigFirstFails
  BY <1>4 DEF ConfigFirstFails, Disconnected, StatusChanged, CloseEnds, Swept
<1>5. CASE OpenSecond
  BY <1>5 DEF OpenSecond
<1>6. CASE OpenSecondFails
  BY <1>6 DEF OpenSecondFails, Disconnected, StatusChanged, CloseEnds, Swept
<1>7. CASE ReportEnds
  BY <1>7 DEF ReportEnds, StatusChanged, ReadFrom, Readable
<1>8. CASE StopSwitch
  BY <1>8 DEF StopSwitch, CloseEnds
<1>9. CASE StopReports
  BY <1>9 DEF StopReports, Disconnected, StatusChanged, CloseEnds, Swept
<1>10. CASE ResolveEndFails \/ ResolveEndDone
  BY <1>10 DEF ResolveEndFails, ResolveEndDone, ConnAt
<1>11. CASE ConnectEndDone
  BY <1>11 DEF ConnectEndDone, ConnAt
<1>12. CASE ConnectEndFails
  BY <1>12 DEF ConnectEndFails
<1>13. CASE HandlerSets
  BY <1>13 DEF HandlerSets, CloserAt
<1>14. CASE HandlerTells
  <2>1. ui = "idle" /\ UNCHANGED <<class, ui, forwards, left>>
    BY <1>14 DEF HandlerTells, ShowStatus
  <2>2. CASE SweepEnds
    BY <2>1, <2>2, SweptEnds, CloseEndsReads DEF SweepEnds
  <2>3. CASE UNCHANGED <<status, ends, shown, reads, sending, late, conn, up, outrun>>
    BY <2>1, <2>3
  <2> QED
    BY <1>14, <2>2, <2>3 DEF HandlerTells, ShowStatus
<1>15. CASE HandlerLists
  BY <1>15 DEF HandlerLists, CloserAt, ReadFrom, Readable
<1>16. ASSUME NEW e \in Ends, ClickCloseEnd(e) PROVE OpenIsRead'
  BY <1>16 DEF ClickCloseEnd, Disconnected, StatusChanged, CloseEnds, Swept
<1>17. ASSUME NEW e \in Ends, SendTo(e) PROVE OpenIsRead'
  BY <1>17 DEF SendTo
<1>18. ASSUME NEW e \in Ends, ReadData(e) PROVE OpenIsRead'
  BY <1>18 DEF ReadData
<1>19. ASSUME NEW e \in Ends, ForwardDone(e) PROVE OpenIsRead'
  BY <1>19 DEF ForwardDone, Readable
<1>20. ASSUME NEW e \in Ends, ReadFails(e) \/ SendDone(e) PROVE OpenIsRead'
  BY <1>20 DEF ReadFails, SendDone
<1>21. ASSUME NEW e \in Ends, CloseEnd(e) PROVE OpenIsRead'
  <2>1. UNCHANGED <<class, ui, forwards, left>>
    BY <1>21 DEF CloseEnd
  <2>2. CASE e \in ends
    <3>1. CloseEnds({e}) /\ {e} \in SUBSET Ends
      BY <1>21, <2>2 DEF CloseEnd
    <3>2. ends' \subseteq ends /\ \A x \in ends' : Alive(x) => Alive(x)'
      BY <2>1, <3>1, CloseEndsReads
    <3> QED
      BY <2>1, <3>2
  <2>3. CASE e \notin ends
    <3>1. late' = late \ {e} /\ UNCHANGED <<ends, reads>>
      BY <1>21, <2>3 DEF CloseEnd
    <3> QED
      BY <2>1, <2>3, <3>1
  <2> QED
    BY <2>2, <2>3
<1>22. ASSUME NEW t \in SwitchThreads, CloseBoth(t) PROVE OpenIsRead'
  BY <1>22 DEF CloseBoth, CloserAt, CloseEnds
<1>23. ASSUME NEW t \in SwitchThreads, RemoveEnds(t) PROVE OpenIsRead'
  BY <1>23 DEF RemoveEnds, CloserAt
<1>24. ASSUME NEW t \in SwitchThreads, SetDisconnected(t) PROVE OpenIsRead'
  BY <1>24 DEF SetDisconnected, CloserAt, AfterNotify
<1>25. ASSUME NEW t \in SwitchThreads, TellDisconnected(t) PROVE OpenIsRead'
  BY <1>25
     DEF TellDisconnected, CloserAt, AfterNotify, ShowStatus, SweepEnds, CloseEnds, Swept
<1> QED
  BY <1>1, <1>2, <1>3, <1>4, <1>5, <1>6, <1>7, <1>8, <1>9, <1>10, <1>11, <1>12, <1>13,
     <1>14, <1>15, <1>16, <1>17, <1>18, <1>19, <1>20, <1>21, <1>22, <1>23, <1>24, <1>25
     DEF SwitchNext, SwitchUI, SwitchConnect

\* A switch that was never started satisfies its invariant.
LEMMA SwitchStarts == Init => SwitchIInv
<1> SUFFICES ASSUME Init PROVE SwitchIInv
  OBVIOUS
<1> USE LoopsAssumption DEF Init, DeviceInit, SwitchInit
<1>1. DeviceTypeOK
  BY DEF DeviceTypeOK, Statuses
<1>2. SwitchTypeOK
  <2>1. 0 \in 0..Loops
    OBVIOUS
  <2>2. closer \in [SwitchThreads -> CloserPhases \cup HandlerPhases] /\ conn \in ConnPhases
    BY DEF CloserPhases, ConnPhases
  <2> QED
    BY <2>1, <2>2 DEF SwitchTypeOK
<1>3. NotOwnedYet /\ OneConnect /\ Opening /\ BrokenIsTold /\ OpenIsRead
  BY DEF NotOwnedYet, OneConnect, Opening, BrokenIsTold, OpenIsRead, SwitchThreads, Ends
<1> QED
  BY <1>1, <1>2, <1>3 DEF SwitchIInv

\* A step that leaves the two ends alone, of another device or none.
LEMMA SwitchStays ==
  ASSUME SwitchIInv, DeviceTypeOK', UNCHANGED <<class, switchVars>>,
         ~Joined \/ UNCHANGED deviceVars
  PROVE  SwitchIInv'
<1> USE DEF SwitchIInv, switchVars, deviceVars
<1>1. SwitchTypeOK'
  BY DEF SwitchTypeOK
<1>2. NotOwnedYet' /\ OneConnect'
  BY DEF NotOwnedYet, OneConnect, Joined
<1>3. Opening' /\ BrokenIsTold' /\ OpenIsRead'
  BY DEF Opening, BrokenIsTold, Closing, OpenIsRead, Alive, Joined
<1> QED
  BY <1>1, <1>2, <1>3

\* The invariant of the switch gives the two properties that are checked.
LEMMA SwitchImplies == SwitchIInv => ConnectedHasEnds /\ ForwardingGoesOn
<1> SUFFICES ASSUME SwitchIInv PROVE ConnectedHasEnds /\ ForwardingGoesOn
  OBVIOUS
<1>1. ConnectedHasEnds
  BY DEF SwitchIInv, ConnectedHasEnds, BrokenIsTold, Closing, Quiet, SwitchThreads
<1>2. ForwardingGoesOn
  BY <1>1 DEF SwitchIInv, ConnectedHasEnds, ForwardingGoesOn, OpenIsRead, Alive
<1> QED
  BY <1>1, <1>2

-----------------------------------------------------------------------------
(* The devices together.                                                    *)

DevicesIInv == ServerIInv /\ UDPIInv /\ SwitchIInv

\* Before a device is chosen, every invariant of the devices holds.
LEMMA DevicesStart == Init => DevicesIInv
BY ServersStart, UDPStarts, SwitchStarts DEF DevicesIInv

\* Nor do the servers change the class of the device.
LEMMA ClassFrame == TCPServerNext \/ WebSocketServerNext => UNCHANGED class
<1> USE DEF deviceVars, serverVars, webServerVars, ClickConnect, StatusChanged, Listen,
            StartFails, Started, StopCloses, StopEnds, Send, AcceptFails, Rearm, WriteDone
<1>1. TCPServerNext => UNCHANGED class
  BY DEF TCPServerNext, ServerUI, AcceptSteps, ClickStop, ClickClose, Accepted, AddChannel,
         IoFails, CloseSocket, RemoveChannel
<1>2. WebSocketServerNext => UNCHANGED class
  BY DEF WebSocketServerNext, WebStart, WebStartFails, WebStop, WebStopCloses, WebStopEnds,
         WebClickClose, WebSend, WebAccept, WebAccepted, RequestRead, Granted, HandshakeFails,
         WebAddChannel, WebIoFails, WebRemoveChannel, ClickStop, ClickClose, RemoveChannel
<1> QED
  BY <1>1, <1>2

\* A step of the TCP server keeps the invariants of all devices.
LEMMA TCPServerStep ==
  ASSUME DevicesIInv, class = "TCPServer", TCPServerNext,
         UNCHANGED <<webServerVars, udpVars, switchVars>>
  PROVE  DevicesIInv'
<1>1. ServerTypes'
  BY TCPTypes DEF DevicesIInv, ServerIInv, ServerTypes
<1>2. UNCHANGED class /\ class \notin UDPClasses /\ ~Joined
  BY ClassFrame DEF UDPClasses, Joined
<1>3. ServerIInv'
  <2>1. OneReporter' /\ ReportedOnce'
    BY <1>2 DEF DevicesIInv, ServerIInv, OneReporter, ReportedOnce, webServerVars
  <2> QED
    BY <1>1, <2>1, TCPChannels, TCPAcceptor, TCPLists DEF DevicesIInv, ServerIInv, ServerTypes
<1>4. UDPIInv' /\ SwitchIInv'
  BY <1>1, <1>2, UDPStays, SwitchStays DEF DevicesIInv, ServerTypes
<1> QED
  BY <1>3, <1>4 DEF DevicesIInv

\* A step of the WebSocket server keeps the invariants of all devices.
LEMMA WebSocketServerStep ==
  ASSUME DevicesIInv, class = "WebSocketServer", WebSocketServerNext,
         UNCHANGED <<udpVars, switchVars>>
  PROVE  DevicesIInv'
<1>1. ServerTypes'
  BY WebTypes DEF DevicesIInv, ServerIInv, ServerTypes
<1>2. ServerIInv'
  BY <1>1, WebChannels, WebReporter, WebAcceptor, WebLists
     DEF DevicesIInv, ServerIInv, ServerTypes
<1>3. UNCHANGED class /\ class \notin UDPClasses /\ ~Joined
  BY ClassFrame DEF UDPClasses, Joined
<1>4. UDPIInv' /\ SwitchIInv'
  BY <1>1, <1>3, UDPStays, SwitchStays DEF DevicesIInv, ServerTypes
<1> QED
  BY <1>2, <1>4 DEF DevicesIInv

\* A step of a UDP device keeps the invariants of all devices.
LEMMA UDPStep ==
  ASSUME DevicesIInv, class \in UDPClasses, UDPNext,
         UNCHANGED <<serverVars, webServerVars, switchVars>>
  PROVE  DevicesIInv'
<1>1. UDPTypes'
  BY UDPTypeStep DEF DevicesIInv, UDPIInv, UDPTypes
<1>2. UDPIInv'
  BY <1>1, EntryStep, SocketStep DEF DevicesIInv, UDPIInv, UDPTypes
<1>3. UNCHANGED <<class, listed>> /\ ~Serving /\ ~Joined
  BY UDPFrame DEF UDPClasses, Serving, Servers, Joined
<1>4. ServerIInv' /\ SwitchIInv'
  BY <1>1, <1>3, ServerFrame, SwitchStays DEF DevicesIInv, UDPTypes
<1> QED
  BY <1>2, <1>4 DEF DevicesIInv

\* A step of the switch keeps the invariants of all devices.
LEMMA SwitchStep ==
  ASSUME DevicesIInv, Joined, SwitchNext, UNCHANGED <<serverVars, webServerVars, udpVars>>
  PROVE  DevicesIInv'
<1>1. SwitchTypes'
  BY SwitchTypeStep DEF DevicesIInv, SwitchIInv, SwitchTypes
<1>2. SwitchIInv'
  BY <1>1, SwitchOwners, SwitchBreaks, SwitchReads DEF DevicesIInv, SwitchIInv, SwitchTypes
<1>3. UNCHANGED <<class, listed>> /\ ~Serving /\ class \notin UDPClasses
  BY SwitchFrame DEF UDPClasses, Serving, Servers, Joined
<1>4. ServerIInv' /\ UDPIInv'
  BY <1>1, <1>3, ServerFrame, UDPStays DEF DevicesIInv, SwitchTypes
<1> QED
  BY <1>2, <1>4 DEF DevicesIInv

\* Every step of the program keeps the invariants of all devices.
LEMMA DevicesStep == DevicesIInv /\ [Next]_vars => DevicesIInv'
<1> SUFFICES ASSUME DevicesIInv, [Next]_vars PROVE DevicesIInv'
  OBVIOUS
<1>1. CASE UNCHANGED vars
  <2>1. UNCHANGED <<deviceVars, serverVars, webServerVars, udpVars, switchVars, class,
  listed>>
    BY <1>1 DEF vars, deviceVars
  <2>2. DeviceTypeOK'
    BY <2>1 DEF DevicesIInv, ServerIInv, DeviceTypeOK, deviceVars
  <2> QED
    BY <2>1, <2>2, ServerFrame, UDPStays, SwitchStays DEF DevicesIInv
<1>2. CASE Next
  BY <1>2, TCPServerStep, WebSocketServerStep, UDPStep, SwitchStep
     DEF Next, UDPClasses, Joined
<1> QED
  BY <1>1, <1>2

\* In every state that a run of the devices reaches, for every set of channels
\* and every bound on lookups and loops, the three invariants hold together.
THEOREM DevicesInvariant == Spec => []DevicesIInv
<1>1. Init => DevicesIInv
  BY DevicesStart
<1>2. DevicesIInv /\ [Next]_vars => DevicesIInv'
  BY DevicesStep
<1> QED
  BY <1>1, <1>2, PTL DEF Spec

-----------------------------------------------------------------------------
(* The theorems.                                                            *)

\* The variables of every device keep their types.
THEOREM DevicesTyped == Spec => []TypeOK
<1>1. DevicesIInv => TypeOK
  BY DEF DevicesIInv, ServerIInv, UDPIInv, SwitchIInv, TypeOK
<1> QED
  BY <1>1, DevicesInvariant, PTL

\* The window never keeps a server's channel that is closed with nobody left to
\* report it (TCPServer.cpp:219): whichever of its read, its write, the user and
\* Stop closes it first.
THEOREM ServerChannelsReported == Spec => []ClosedIsReported
<1>1. DevicesIInv => ClosedIsReported
  BY DEF DevicesIInv, ServerIInv
<1> QED
  BY <1>1, DevicesInvariant, PTL

\* A server that has stopped leaves no channel open but those accepted when its
\* acceptor was already closed, or dropped with a failed start.
THEOREM ServerStopIsComplete == Spec => []NothingElseSurvivesStop
<1>1. DevicesIInv => NothingElseSurvivesStop
  BY DEF DevicesIInv, ServerIInv
<1> QED
  BY <1>1, DevicesInvariant, PTL

\* A server that says Connected accepts, unless an accept failed for good.
THEOREM ServerListens == Spec => []Listening
<1>1. DevicesIInv => Listening
  BY DEF DevicesIInv, ServerIInv
<1> QED
  BY <1>1, DevicesInvariant, PTL

\* The close of a WebSocket channel is reported to the window at most once.
THEOREM WebSocketReportsOnce == Spec => []ReportedOnce
<1>1. DevicesIInv => ReportedOnce
  BY DEF DevicesIInv, ServerIInv
<1> QED
  BY <1>1, DevicesInvariant, PTL

\* A UDP device that says Connected has its socket, or somebody who closed it
\* has yet to say so.
THEOREM UDPHasSocket == Spec => []ConnectedHasSocket
<1>1. DevicesIInv => ConnectedHasSocket
  BY DEF DevicesIInv, UDPIInv
<1> QED
  BY <1>1, DevicesInvariant, PTL

\* A remote endpoint has one channel: the table's entry names it.
THEOREM UDPOneChannel == Spec => []OneChannelPerEndpoint
<1>1. DevicesIInv => OneChannelPerEndpoint
  BY DEF DevicesIInv, UDPIInv, EntryNamesChannel, OneChannelPerEndpoint
<1> QED
  BY <1>1, DevicesInvariant, PTL

\* A joining device that says Connected has both ends open.
THEOREM SwitchHasEnds == Spec => []ConnectedHasEnds
<1>1. DevicesIInv => ConnectedHasEnds
  BY SwitchImplies DEF DevicesIInv
<1> QED
  BY <1>1, DevicesInvariant, PTL

\* Forwarding between two open ends never stops silently.
THEOREM SwitchForwards == Spec => []ForwardingGoesOn
<1>1. DevicesIInv => ForwardingGoesOn
  BY SwitchImplies DEF DevicesIInv
<1> QED
  BY <1>1, DevicesInvariant, PTL
===============================================================================

