------------------------------- MODULE UDPStream -------------------------------
(***************************************************************************)
(* The UDP devices of UDPStream.cpp: UDPBasic, which lists a channel of its *)
(* own and one UDPBasicChannel per remote endpoint that sent a datagram,    *)
(* and UDPClient, which is its only channel.                                *)
(*                                                                         *)
(* Start hands the resolve, open and connect to a detached thread that      *)
(* nothing stops: Stop closes the socket under it, and a second Start runs  *)
(* a second thread on the same socket.  The host resolves to one endpoint,  *)
(* the same for every start, and the connected socket hears only that one.  *)
(***************************************************************************)
EXTENDS Device

CONSTANTS
  Threads,   \* connect threads: one for each Start of the run
  Lookups,   \* bound: receive handlers between their read loop and the lookup
  NoChannel  \* the endpoint is not in m_RemoteEndpoints

ASSUME UDPAssumption == NoChannel \notin Channels /\ Lookups \in Nat

VARIABLES
  sock,      \* m_Socket is open
  thr,       \* per thread, and for the device's own operations: where it is
  main,      \* the device itself is listed as a channel
  looking,   \* receive handlers that are about to look the endpoint up
  entry,     \* the channel that entered the endpoint in m_RemoteEndpoints
  sub,       \* per UDPBasicChannel: where it is
  bereft,    \* history: the socket was closed under a thread about to report
  stale      \* history: a channel removed the entry that is now another's

udpVars == <<sock, thr, main, looking, entry, sub, bereft, stale>>

OwnIo     == {"own"}
Actors    == Threads \cup OwnIo
ThrPhases == {"none", "resolving", "opened", "okTell", "okAdd",
              "del", "set", "tell", "done"}
SubPhases == {"new", "adding", "listed", "closed", "listedDel", "closedDel"}

UDPTypeOK ==
  /\ sock \in BOOLEAN
  /\ thr \in [Actors -> ThrPhases]
  /\ main \in BOOLEAN
  /\ looking \in 0..Lookups
  /\ entry \in Channels \cup {NoChannel}
  /\ sub \in [Channels -> SubPhases]
  /\ bereft \in BOOLEAN
  /\ stale \in BOOLEAN

UDPInit ==
  /\ sock = FALSE
  /\ thr = [a \in Actors |-> "none"]
  /\ main = FALSE
  /\ looking = 0
  /\ entry = NoChannel
  /\ sub = [c \in Channels |-> "new"]
  /\ bereft = FALSE
  /\ stale = FALSE

\* UDPBasicChannels the window lists.
UDPListed == {c \in Channels : sub[c] \in {"listed", "listedDel"}}

ThrAt(a, from, to) ==
  /\ thr[a] = from
  /\ thr' = [thr EXCEPT ![a] = to]

CloseM_Socket ==
  /\ sock' = FALSE
  /\ bereft' = (bereft \/ \E t \in Threads : thr[t] = "opened")

\* m_RemoteEndpoints.erase, by channels of the one remote endpoint there is.
UDPErase(C) ==
  /\ entry' = NoChannel
  /\ stale' = (stale \/ entry \notin C \cup {NoChannel})

\* OnDeviceStatusChanged(Disconnected): Close() of each listed channel takes its
\* endpoint out of the table and itself off the list.  The device, if it is
\* listed, closes its socket and reports that, if the socket is open.
Unlist(c) == IF sub[c] = "listed" THEN "closed" ELSE "closedDel"

UDPSweepSubs ==
  /\ sub' = [c \in Channels |-> IF c \in UDPListed THEN Unlist(c) ELSE sub[c]]
  /\ IF UDPListed = {} THEN UNCHANGED <<entry, stale>> ELSE UDPErase(UDPListed)

UDPSweep ==
  /\ UDPSweepSubs
  /\ main' = FALSE
  /\ IF main THEN CloseM_Socket ELSE UNCHANGED <<sock, bereft>>
  /\ status' = IF main /\ sock THEN "Disconnected" ELSE status

-----------------------------------------------------------------------------
(* The UI thread.                                                           *)

\* Start: Connecting, and a thread that connects.
UDPStart ==
  /\ ui = "start"
  /\ ui' = "idle"
  /\ \E t \in Threads : ThrAt(t, "none", "resolving")
  /\ UNCHANGED <<class, status, button, listed, sock, main, looking, entry, sub,
                 bereft, stale>>

\* Stop, from the connect button or the pop-up of a start: the socket first.
UDPStop ==
  /\ ui = "idle"
  /\ status # "Disconnected"
  /\ ui' = "stop"
  /\ button' = FALSE
  /\ CloseM_Socket
  /\ UNCHANGED <<class, status, listed, thr, main, looking, entry, sub,
                 stale>>

UDPStopNotify ==
  /\ ui = "stop"
  /\ ui' = "idle"
  /\ main' = FALSE
  /\ IF status = "Disconnected"
     THEN UNCHANGED <<status, button, entry, sub, stale>>
     ELSE StatusChanged("Disconnected") /\ UDPSweepSubs
  /\ UNCHANGED <<class, listed, sock, thr, looking, bereft>>

\* UDPBasicChannel::Close does not stop the channel's own read.
UDPCloseChannel(c) ==
  /\ ui = "idle"
  /\ c \in UDPListed
  /\ sub' = [sub EXCEPT ![c] = Unlist(c)]
  /\ UDPErase({c})
  /\ UNCHANGED <<deviceVars, sock, thr, main, looking, bereft>>

-----------------------------------------------------------------------------
(* The connect thread.                                                      *)

\* CloseSocket(ec) does nothing, not even for the status, on a socket that is
\* not open.
UDPCloseSocket(a) ==
  IF sock
  THEN /\ thr' = [thr EXCEPT ![a] = "del"]
       /\ CloseM_Socket
  ELSE /\ thr' = [thr EXCEPT ![a] = "done"]
       /\ UNCHANGED <<sock, bereft>>

\* The host or the local address is wrong, or the socket cannot be opened, which
\* is also the case when another thread has it open.
ResolveFails(t) ==
  /\ thr[t] = "resolving"
  /\ UDPCloseSocket(t)
  /\ UNCHANGED <<deviceVars, main, looking, entry, sub, stale>>

\* An option, the bind or the connect fails: the socket, open by now, is closed.
SetUpFails(t) ==
  /\ ~sock
  /\ ThrAt(t, "resolving", "del")
  /\ UNCHANGED <<deviceVars, sock, main, looking, entry, sub, bereft, stale>>

\* UDPClient closes the socket itself after a failed connect or bind, and then
\* CloseSocket(ec) finds it closed.
ConnectFails(t) ==
  /\ class = "UDPClient" /\ ~sock
  /\ ThrAt(t, "resolving", "done")
  /\ UNCHANGED <<deviceVars, sock, main, looking, entry, sub, bereft, stale>>

\* UDPClient: close(ec) after a failed open resets ec, and past the last
\* endpoint the device reports Connected without a socket, from an iterator
\* that is at the end.
UDPOpenFails(t) ==
  /\ class = "UDPClient"
  /\ ThrAt(t, "resolving", "opened")
  /\ sock' = FALSE
  /\ bereft' = TRUE
  /\ UNCHANGED <<deviceVars, main, looking, entry, sub, stale>>

UDPOpened(t) ==
  /\ ~sock
  /\ ThrAt(t, "resolving", "opened")
  /\ sock' = TRUE
  /\ UNCHANGED <<deviceVars, main, looking, entry, sub, bereft, stale>>

\* StatusChanged(s) off the UI thread: the window is told only of a change.
SetStatus(a, from, s, tell, skip) ==
  /\ ThrAt(a, from, IF status = s THEN skip ELSE tell)
  /\ status' = s
  /\ UNCHANGED <<class, button, ui, listed, sock, main, looking, entry, sub,
                 bereft, stale>>

ReportConnected(t) == SetStatus(t, "opened", "Connected", "okTell", "okAdd")

\* m_OnStatusChanged(m_Status) reads the status again: it is the one just set,
\* or one that another thread has set since.
TellConnected(t) ==
  /\ ui = "idle"
  /\ ThrAt(t, "okTell", "okAdd")
  /\ \/ /\ button' = TRUE
        /\ UNCHANGED <<status, sock, main, entry, sub, bereft, stale>>
     \/ /\ status = "Disconnected"
        /\ button' = TRUE
        /\ UDPSweep
     \/ /\ status = "Connecting"
        /\ button' = FALSE
        /\ UNCHANGED <<status, sock, main, entry, sub, bereft, stale>>
  /\ UNCHANGED <<class, ui, listed, looking>>

\* ChannelConnected with the device as the channel: listed, and being read.
AddMain(t) ==
  /\ ui = "idle"
  /\ ThrAt(t, "okAdd", "done")
  /\ main' = TRUE
  /\ UNCHANGED <<deviceVars, sock, looking, entry, sub, bereft, stale>>

-----------------------------------------------------------------------------
(* Closing from a thread: ChannelDisconnected, StatusChanged(Disconnected).  *)

NotifyRemove(a) ==
  /\ ui = "idle"
  /\ ThrAt(a, "del", "set")
  /\ main' = FALSE
  /\ UNCHANGED <<deviceVars, sock, looking, entry, sub, bereft, stale>>

\* Variant: the channel is removed and the status left as it was.
NotifyStatusLost(a) ==
  /\ ThrAt(a, "set", "done")
  /\ UNCHANGED <<deviceVars, sock, main, looking, entry, sub, bereft, stale>>

NotifyStatus(a) == SetStatus(a, "set", "Disconnected", "tell", "done")

NotifyWindow(a) ==
  /\ ui = "idle"
  /\ ThrAt(a, "tell", "done")
  /\ \/ /\ button' = TRUE
        /\ UDPSweep
     \/ /\ status # "Disconnected"
        /\ button' = (status = "Connected")
        /\ UNCHANGED <<status, sock, main, entry, sub, bereft, stale>>
  /\ UNCHANGED <<class, ui, listed, looking>>

\* A failed send, or a datagram longer than the buffer; every other error of a
\* receive ends the read loop and nothing else.
UDPIoFails ==
  /\ main
  /\ thr["own"] \in {"none", "done"}
  /\ UDPCloseSocket("own")
  /\ UNCHANGED <<deviceVars, main, looking, entry, sub, stale>>

-----------------------------------------------------------------------------
(* UDPBasic: the channels of the remote endpoints.                          *)

\* A datagram: the handler of ReadChannelData has already issued the next
\* receive when the endpoint is looked up, so two handlers may be here.
UDPReceived ==
  /\ class = "UDPBasic"
  /\ main /\ sock
  /\ looking < Lookups
  /\ looking' = looking + 1
  /\ UNCHANGED <<deviceVars, sock, thr, main, entry, sub, bereft, stale>>

\* Variant: the endpoint is looked up without being entered.
LookupForgets ==
  /\ looking > 0
  /\ looking' = looking - 1
  /\ IF entry # NoChannel
     THEN UNCHANGED sub
     ELSE \E c \in Channels :
            sub[c] = "new" /\ sub' = [sub EXCEPT ![c] = "adding"]
  /\ UNCHANGED <<deviceVars, sock, thr, main, entry, bereft, stale>>

\* Under m_EndpointsMutex.  Bound: only while an unused channel object is left.
LookupEndpoint ==
  /\ looking > 0
  /\ looking' = looking - 1
  /\ IF entry # NoChannel
     THEN UNCHANGED <<entry, sub>>
     ELSE \E c \in Channels :
            /\ sub[c] = "new"
            /\ entry' = c
            /\ sub' = [sub EXCEPT ![c] = "adding"]
  /\ UNCHANGED <<deviceVars, sock, thr, main, bereft, stale>>

UDPAddChannel(c) ==
  /\ ui = "idle"
  /\ sub[c] = "adding"
  /\ sub' = [sub EXCEPT ![c] = "listed"]
  /\ UNCHANGED <<deviceVars, sock, thr, main, looking, entry, bereft, stale>>

\* A failed send or too long a datagram on a channel, which goes on reading after
\* it was closed: ChannelDisconnected erases the endpoint, whoever has it now.
ChannelFails(c) ==
  /\ sub[c] \in {"listed", "closed"}
  /\ sub' = [sub EXCEPT ![c] = IF @ = "listed" THEN "listedDel" ELSE "closedDel"]
  /\ UDPErase({c})
  /\ UNCHANGED <<deviceVars, sock, thr, main, looking, bereft>>

UDPRemoveChannel(c) ==
  /\ ui = "idle"
  /\ sub[c] \in {"listedDel", "closedDel"}
  /\ sub' = [sub EXCEPT ![c] = "closed"]
  /\ UNCHANGED <<deviceVars, sock, thr, main, looking, entry, bereft, stale>>

-----------------------------------------------------------------------------
UDPNext ==
  \/ ClickConnect /\ (\E t \in Threads : thr[t] = "none") /\ UNCHANGED udpVars
  \/ UDPStart \/ UDPStop \/ UDPStopNotify \/ UDPIoFails \/ UDPReceived \/ LookupEndpoint
  \/ \E t \in Threads :
       \/ ResolveFails(t) \/ SetUpFails(t) \/ ConnectFails(t) \/ UDPOpenFails(t)
       \/ UDPOpened(t) \/ ReportConnected(t) \/ TellConnected(t) \/ AddMain(t)
  \/ \E a \in Actors : NotifyRemove(a) \/ NotifyStatus(a) \/ NotifyWindow(a)
  \/ \E c \in Channels :
       UDPCloseChannel(c) \/ UDPAddChannel(c) \/ ChannelFails(c) \/ UDPRemoveChannel(c)

-----------------------------------------------------------------------------
\* A device that says Connected has its socket open, or somebody who closed it
\* has yet to say so, except after the socket was closed under a connect thread
\* that was about to report (UDPStream.cpp:164).
ConnectedHasSocket ==
  class \in {"UDPBasic", "UDPClient"} /\ status = "Connected" /\ ~sock /\ ~bereft =>
    ui = "stop" \/ \E a \in Actors : thr[a] \in {"del", "set"}

\* A remote endpoint has one channel, however its datagrams, the user's close
\* and failures interleave, except after a closed channel failed again and
\* removed the entry of its successor (UDPStream.cpp:153).
OneChannelPerEndpoint ==
  ~stale => \A c, d \in Channels :
    sub[c] \in {"adding", "listed"} /\ sub[d] \in {"adding", "listed"} => c = d
===============================================================================
