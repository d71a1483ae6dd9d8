---------------------------- MODULE WebSocketServer ----------------------------
(***************************************************************************)
(* The WebSocket server device: WebSocketServer and its                     *)
(* WebSocketServerChannels (Websocket.cpp).  Its listening part is the code *)
(* of TCPServer again; a channel differs: the accept handler begins the     *)
(* handshake and accepts again at once, the window hears of the channel     *)
(* when the answer 101 has been written, and m_Opened decides by            *)
(* compare-exchange who closes it.                                          *)
(***************************************************************************)
EXTENDS TCPServer

VARIABLES
  hs,        \* per channel: where its handshake is
  reported   \* history: channels whose close was reported, and those reported twice

webServerVars == <<hs, reported>>

HandshakePhases == {"none", "request", "respond", "granted", "over"}

WebServerTypeOK ==
  /\ hs \in [Channels -> HandshakePhases]
  /\ reported \in [Channels -> 0..2]

WebServerInit ==
  /\ hs = [c \in Channels |-> "none"]
  /\ reported = [c \in Channels |-> 0]

Report(C) ==
  [c \in Channels |-> IF c \in C /\ reported[c] < 2 THEN reported[c] + 1
                      ELSE reported[c]]

HsAt(c, from, to) ==
  /\ hs[c] = from
  /\ hs' = [hs EXCEPT ![c] = to]

\* Start is that of TCPServer, and so is Close.
WebStart == (Listen \/ Started) /\ UNCHANGED webServerVars

WebStartFails ==
  /\ StartFails
  /\ reported' = Report(open \cap listed)
  /\ UNCHANGED hs

\* A handshake under way when the acceptor closes is not interrupted: its
\* channel is not in the window's map.
WebStopCloses == StopCloses /\ UNCHANGED webServerVars

WebStopEnds ==
  /\ StopEnds
  /\ reported' = Report(open \cap listed)
  /\ UNCHANGED hs

WebStop == WebStopCloses \/ WebStopEnds \/ (ClickStop /\ UNCHANGED webServerVars)

WebClickClose(c) ==
  /\ ClickClose(c)
  /\ reported' = Report({c})
  /\ UNCHANGED hs

WebSend(c) == Send(c) /\ UNCHANGED webServerVars

\* The accept handler: WebSocketServerChannel::Start issues the read of the
\* request; StartAcceptClient follows in the same handler.
WebAccepted(c) ==
  /\ \/ /\ AcceptAt(c, "accepting", "rearm")
        /\ UNCHANGED cut
     \/ /\ AcceptAt(c, "canceling", "rearm")
        /\ cut' = cut \cup {c}
  /\ open' = open \cup {c}
  /\ HsAt(c, "none", "request")
  /\ UNCHANGED <<deviceVars, acceptor, io, deaf, reported>>

WebAccept(c) ==
  WebAccepted(c) \/ ((AcceptFails(c) \/ Rearm(c)) /\ UNCHANGED webServerVars)

\* The request was read and parsed.
RequestRead(c) ==
  /\ HsAt(c, "request", "respond")
  /\ UNCHANGED <<deviceVars, serverVars, reported>>

\* The answer 101 was written; cb is about to call the window.
Granted(c) ==
  /\ HsAt(c, "respond", "granted")
  /\ UNCHANGED <<deviceVars, serverVars, reported>>

\* A failed read, a line that is no request, the answer 404 or a failed write:
\* nothing refers to the channel any more and its destructor closes it.
HandshakeFails(c) ==
  /\ HsAt(c, "request", "over") \/ HsAt(c, "respond", "over")
  /\ open' = open \ {c}
  /\ UNCHANGED <<deviceVars, acceptor, accept, io, cut, deaf, reported>>

WebAddChannel(c) ==
  /\ HsAt(c, "granted", "over")
  /\ List(c)
  /\ UNCHANGED <<class, status, button, ui, acceptor, accept, open, cut, deaf,
                 reported>>

\* Variant: as in TcpChannel, m_Opened is tested before the socket is closed.
CloseTestedEarlier(c, o) ==
  \/ /\ IoAt(c, o, "pending", IF c \in open THEN "closing" ELSE "idle")
     /\ UNCHANGED <<deviceVars, acceptor, accept, open, cut, deaf, webServerVars>>
  \/ /\ CloseSocket(c, o)
     /\ UNCHANGED webServerVars

\* A failed read or write: CloseSocket(ec), one compare-exchange of m_Opened.
WebIoFails(c, o) ==
  /\ \/ /\ c \in open
        /\ IoAt(c, o, "pending", "notify")
        /\ open' = open \ {c}
     \/ /\ c \notin open
        /\ IoAt(c, o, "pending", "idle")
        /\ UNCHANGED open
  /\ UNCHANGED <<deviceVars, acceptor, accept, cut, deaf, webServerVars>>

\* NotifyChannelClose.
WebRemoveChannel(c, o) ==
  /\ RemoveChannel(c, o)
  /\ reported' = Report({c})
  /\ UNCHANGED hs

WebSocketServerNext ==
  \/ ClickConnect /\ UNCHANGED <<serverVars, webServerVars>>
  \/ WebStart \/ WebStartFails \/ WebStop
  \/ \E c \in Channels :
       \/ WebClickClose(c) \/ WebSend(c) \/ WebAccept(c)
       \/ RequestRead(c) \/ Granted(c) \/ HandshakeFails(c) \/ WebAddChannel(c)
       \/ WriteDone(c) /\ UNCHANGED webServerVars
       \/ \E o \in IoOps : WebIoFails(c, o) \/ WebRemoveChannel(c, o)

-----------------------------------------------------------------------------
\* However a WebSocket channel is closed, by the user, by Stop, or by a read and
\* a write failing together, the window hears of it once (Websocket.cpp:611).
ReportedOnce == \A c \in Channels : reported[c] <= 1
===============================================================================
