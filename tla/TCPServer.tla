------------------------------ MODULE TCPServer ------------------------------
(***************************************************************************)
(* The TCP server device: TCPServer and its TcpChannels (TCPServer.cpp).    *)
(*                                                                         *)
(* An accept chain is one outstanding async_accept; its handler reports the *)
(* channel to the window, waiting for the UI thread, and only then accepts  *)
(* again.  Closing the acceptor cancels the outstanding accept, but a       *)
(* completion already queued is delivered all the same.  Each channel is    *)
(* accepted once.                                                          *)
(***************************************************************************)
EXTENDS Device

VARIABLES
  acceptor,  \* m_Acceptor is open and listening
  accept,    \* per channel: where its async_accept and the handler of it are
  open,      \* the channels whose m_Socket is open
  io,        \* per channel and operation: where its completion is
  cut,       \* history: accepted and not yet listed when the acceptor was closed
  deaf       \* history: an accept failed that nobody canceled

serverVars == <<acceptor, accept, open, io, cut, deaf>>

IoOps        == {"read", "write"}
AcceptPhases == {"new", "accepting", "canceling", "accepted", "rearm", "over"}
IoPhases     == {"idle", "pending", "closing", "notify"}

ServerTypeOK ==
  /\ acceptor \in BOOLEAN
  /\ accept \in [Channels -> AcceptPhases]
  /\ open \subseteq Channels
  /\ io \in [Channels -> [IoOps -> IoPhases]]
  /\ cut \subseteq Channels
  /\ deaf \in BOOLEAN

ServerInit ==
  /\ acceptor = FALSE
  /\ accept = [c \in Channels |-> "new"]
  /\ open = {}
  /\ io = [c \in Channels |-> [o \in IoOps |-> "idle"]]
  /\ cut = {}
  /\ deaf = FALSE

-----------------------------------------------------------------------------
(* The UI thread.                                                           *)

AcceptAt(c, from, to) ==
  /\ accept[c] = from
  /\ accept' = [accept EXCEPT ![c] = to]

\* async_accept with a fresh channel, on an acceptor that is open.
StartAcceptClient == \E c \in Channels : AcceptAt(c, "new", "accepting")

\* m_Acceptor.cancel and close.
CloseAcceptor ==
  /\ acceptor' = FALSE
  /\ accept' = [c \in Channels |->
                  IF accept[c] = "accepting" THEN "canceling" ELSE accept[c]]
  /\ cut' = cut \cup (open \ listed)

\* Variant: the map of channels is cleared without closing them.
SweepWithoutClose ==
  /\ listed' = {}
  /\ UNCHANGED open

\* OnDeviceStatusChanged(Disconnected): every channel of m_ChannelsMap is
\* closed, each open one reporting itself, and the map cleared.
Sweep ==
  /\ open' = open \ listed
  /\ listed' = {}

\* Start: the address, open, bind, listen, set_option.
Listen ==
  /\ ui = "start"
  /\ ui' = "listening"
  /\ acceptor' = TRUE
  /\ UNCHANGED <<class, status, button, listed, accept, open, io, cut, deaf>>

\* Any of these failing: Close(ec).
StartFails ==
  /\ ui \in {"start", "listening"}
  /\ ui' = "idle"
  /\ CloseAcceptor
  /\ StatusChanged("Disconnected")
  /\ Sweep
  /\ UNCHANGED <<class, io, deaf>>

\* Variant: Start reports Connected and forgets to accept.
StartedDeaf ==
  /\ ui = "listening"
  /\ ui' = "idle"
  /\ StatusChanged("Connected")
  /\ UNCHANGED <<class, listed, acceptor, accept, open, io, cut, deaf>>

Started ==
  /\ ui = "listening"
  /\ ui' = "idle"
  /\ StartAcceptClient
  /\ StatusChanged("Connected")
  /\ UNCHANGED <<class, listed, acceptor, open, io, cut, deaf>>

\* Stop: Disconnecting, the acceptor, Disconnected.
ClickStop ==
  /\ ui = "idle" /\ button
  /\ status # "Disconnected"
  /\ ui' = "stop"
  /\ StatusChanged("Disconnecting")
  /\ UNCHANGED <<class, listed, serverVars>>

StopCloses ==
  /\ ui = "stop"
  /\ ui' = "closed"
  /\ CloseAcceptor
  /\ UNCHANGED <<class, status, button, listed, open, io, deaf>>

StopEnds ==
  /\ ui = "closed"
  /\ ui' = "idle"
  /\ StatusChanged("Disconnected")
  /\ Sweep
  /\ UNCHANGED <<class, acceptor, accept, io, cut, deaf>>

\* The close button, and the close of a dropped channel: Close() notifies only
\* when the socket was open.
ClickClose(c) ==
  /\ ui = "idle"
  /\ c \in listed \cap open
  /\ open' = open \ {c}
  /\ listed' = listed \ {c}
  /\ UNCHANGED <<class, status, button, ui, acceptor, accept, io, cut, deaf>>

Send(c) ==
  /\ ui = "idle"
  /\ c \in listed
  /\ status = "Connected"
  /\ io[c]["write"] = "idle"
  /\ io' = [io EXCEPT ![c]["write"] = "pending"]
  /\ UNCHANGED <<deviceVars, acceptor, accept, open, cut, deaf>>

-----------------------------------------------------------------------------
(* The handler of async_accept.                                             *)

\* A canceled accept may have completed before the cancel reached it.
Accepted(c) ==
  /\ \/ /\ AcceptAt(c, "accepting", "accepted")
        /\ UNCHANGED cut
     \/ /\ AcceptAt(c, "canceling", "accepted")
        /\ cut' = cut \cup {c}
  /\ open' = open \cup {c}
  /\ UNCHANGED <<deviceVars, acceptor, io, deaf>>

\* On an error the handler does nothing: the chain ends.
AcceptFails(c) ==
  /\ \/ /\ AcceptAt(c, "accepting", "over")
        /\ deaf' = TRUE
     \/ /\ AcceptAt(c, "canceling", "over")
        /\ UNCHANGED deaf
  /\ UNCHANGED <<deviceVars, acceptor, open, io, cut>>

\* OnDeviceChannelConnected: the channel is listed and its first read issued.
List(c) ==
  /\ ui = "idle"
  /\ listed' = listed \cup {c}
  /\ io' = [io EXCEPT ![c]["read"] = "pending"]

AddChannel(c) ==
  /\ AcceptAt(c, "accepted", "rearm")
  /\ List(c)
  /\ UNCHANGED <<class, status, button, ui, acceptor, open, cut, deaf>>

\* StartAcceptClient again: on a closed acceptor the accept fails at once; on
\* one that was reopened meanwhile this chain goes on beside the new one.
\* Bound: a chain waits here when every channel has been used.
Rearm(c) ==
  /\ accept[c] = "rearm"
  /\ \/ /\ acceptor
        /\ \E d \in Channels :
             /\ accept[d] = "new"
             /\ accept' = [accept EXCEPT ![c] = "over", ![d] = "accepting"]
     \/ /\ ~acceptor
        /\ accept' = [accept EXCEPT ![c] = "over"]
  /\ UNCHANGED <<deviceVars, acceptor, open, io, cut, deaf>>

-----------------------------------------------------------------------------
(* The completion of a read or a write.                                     *)

IoAt(c, o, from, to) ==
  /\ io[c][o] = from
  /\ io' = [io EXCEPT ![c][o] = to]

WriteDone(c) ==
  /\ IoAt(c, "write", "pending", "idle")
  /\ UNCHANGED <<deviceVars, acceptor, accept, open, cut, deaf>>

\* An error: CloseChannel tests is_open before it closes, so two completions,
\* or one and the UI thread, may both find the socket open.
IoFails(c, o) ==
  /\ IoAt(c, o, "pending", IF c \in open THEN "closing" ELSE "idle")
  /\ UNCHANGED <<deviceVars, acceptor, accept, open, cut, deaf>>

CloseSocket(c, o) ==
  /\ IoAt(c, o, "closing", "notify")
  /\ open' = open \ {c}
  /\ UNCHANGED <<deviceVars, acceptor, accept, cut, deaf>>

\* Variant: the owner is not told that the channel has gone.
ForgetChannel(c, o) ==
  /\ ui = "idle"
  /\ IoAt(c, o, "notify", "idle")
  /\ UNCHANGED <<deviceVars, acceptor, accept, open, cut, deaf>>

\* ChannelDisconnected: the window removes the channel from its list.
RemoveChannel(c, o) ==
  /\ ui = "idle"
  /\ IoAt(c, o, "notify", "idle")
  /\ listed' = listed \ {c}
  /\ UNCHANGED <<class, status, button, ui, acceptor, accept, open, cut, deaf>>

-----------------------------------------------------------------------------
ServerUI ==
  \/ ClickConnect /\ UNCHANGED serverVars
  \/ Listen \/ StartFails \/ Started
  \/ ClickStop \/ StopCloses \/ StopEnds
  \/ \E c \in Channels : ClickClose(c) \/ Send(c)

AcceptSteps == \E c \in Channels : Accepted(c) \/ AcceptFails(c) \/ Rearm(c)

TCPServerNext ==
  \/ ServerUI
  \/ AcceptSteps
  \/ \E c \in Channels :
       \/ AddChannel(c) \/ WriteDone(c)
       \/ \E o \in IoOps : IoFails(c, o) \/ CloseSocket(c, o) \/ RemoveChannel(c, o)

-----------------------------------------------------------------------------
\* A channel whose socket is closed leaves the list: somebody who closed it is
\* still about to tell the window (TCPServer.cpp:374, Websocket.cpp:624).
ClosedIsReported ==
  \A c \in listed \ open : \E o \in IoOps : io[c][o] \in {"closing", "notify"}

\* After Stop the only peers still connected or listed are those whose accept
\* had already been taken over when the acceptor was closed (TCPServer.cpp:198).
NothingElseSurvivesStop ==
  status = "Disconnected" => listed \cup open \subseteq cut

\* A server shown as connected has an accept outstanding, or a handler that
\* will issue one, unless an accept failed (TCPServer.cpp:176).
Listening ==
  class \in {"TCPServer", "WebSocketServer"} /\ status = "Connected" =>
    deaf \/ \E c \in Channels : accept[c] \in {"accepting", "accepted", "rearm"}
===============================================================================
