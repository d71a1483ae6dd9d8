--------------------------- MODULE TCPForwardServer ---------------------------
(***************************************************************************)
(* The forwarding TCP server: TCPForwardServer and the pairs of             *)
(* TcpForwardChannel it makes (TCPSwitch.cpp), with the handlers of the     *)
(* dialog they call (NetDebuggerDlg.cpp).                                   *)
(*                                                                         *)
(* A pair stands for one async_accept: the channel of the accepted client,  *)
(* and the channel to the remote server that is connected for it.  What one *)
(* of the two reads is written to the other, and closing one closes both.   *)
(* Start, Stop and the close button run on the UI thread, which also runs   *)
(* every task a handler sends to the window; accepts, connects, reads and   *)
(* writes complete on io_context threads.                                   *)
(***************************************************************************)
EXTENDS Naturals

CONSTANTS
  Pairs,     \* accept operations the run may issue
  Clients,   \* those of them that a client comes to answer
  Injected,  \* channels the user writes to, besides the forwarding
  None       \* no channel

Sides     == {"client", "server"}
Channels  == Pairs \X Sides
Client(p) == <<p, "client">>
Server(p) == <<p, "server">>
Other(c)  == IF c[2] = "client" THEN Server(c[1]) ELSE Client(c[1])

ASSUME ForwardAssumption ==
  /\ Clients \subseteq Pairs
  /\ Injected \subseteq Channels
  /\ None \notin Channels

VARIABLES
  status,    \* CommunicationDevice::m_Status
  acceptor,  \* m_Acceptor is open and listening
  pair,      \* per pair: where the accept and the connect to the server are
  opened,    \* per channel: TcpForwardChannel::m_Opened
  target,    \* per channel: m_Target is set
  rd,        \* per channel: where its read loop is
  snd,       \* per channel: a write of the user is outstanding
  closer,    \* per channel: where the thread that closed it is
  listed,    \* channels in m_ChannelsMap
  ui,        \* the channel the UI thread is closing, or None
  toClose,   \* channels the UI thread has still to close
  notified,  \* history: per channel, calls of ChannelDisconnected (capped)
  stale      \* history: pairs accepted, but not listed, when Stop ran

chVars == <<opened, target, rd, snd, closer>>
uiVars == <<listed, ui, toClose, notified>>
vars   == <<status, acceptor, pair, chVars, uiVars, stale>>

PairPhases   == {"idle", "accepting", "closedAccept", "connecting",
                 "addClient", "addServer", "up", "dead", "failed"}
CloserPhases == {"none", "target", "notifyTarget", "notify", "done"}

TypeOK ==
  /\ status \in {"Disconnected", "Connecting", "Connected", "Disconnecting"}
  /\ acceptor \in BOOLEAN
  /\ pair \in [Pairs -> PairPhases]
  /\ opened \in [Channels -> BOOLEAN]
  /\ target \in [Channels -> BOOLEAN]
  /\ rd \in [Channels -> {"none", "pending", "writing", "done"}]
  /\ snd \in [Channels -> BOOLEAN]
  /\ closer \in [Channels -> CloserPhases]
  /\ listed \in SUBSET Channels
  /\ ui \in Channels \cup {None}
  /\ toClose \in SUBSET Channels
  /\ notified \in [Channels -> 0..2]
  /\ stale \in SUBSET Pairs

Init ==
  /\ status = "Disconnected"
  /\ acceptor = FALSE
  /\ pair = [p \in Pairs |-> "idle"]
  /\ opened = [c \in Channels |-> FALSE]
  /\ target = [c \in Channels |-> FALSE]
  /\ rd = [c \in Channels |-> "none"]
  /\ snd = [c \in Channels |-> FALSE]
  /\ closer = [c \in Channels |-> "none"]
  /\ listed = {}
  /\ ui = None
  /\ toClose = {}
  /\ notified = [c \in Channels |-> 0]
  /\ stale = {}

UIIdle == ui = None /\ toClose = {} /\ status \notin {"Connecting", "Disconnecting"}

-----------------------------------------------------------------------------
(* Closing a channel.                                                       *)

\* Variant: m_Target is locked after CloseChannel() has reset it.
CloseChannelLateLock(c) ==
  /\ opened[c]
  /\ opened' = [opened EXCEPT ![c] = FALSE]
  /\ target' = [target EXCEPT ![c] = FALSE]
  /\ closer' = [closer EXCEPT ![c] = "notify"]

\* CloseChannel(): the compare-exchange, m_Target.reset and the socket; the
\* caller CloseChannel(ec) has locked m_Target before.
CloseChannel(c) ==
  /\ opened[c]
  /\ opened' = [opened EXCEPT ![c] = FALSE]
  /\ target' = [target EXCEPT ![c] = FALSE]
  /\ closer' = [closer EXCEPT ![c] = IF target[c] THEN "target" ELSE "notify"]

AlreadyClosed(c) ==
  /\ ~opened[c]
  /\ UNCHANGED <<opened, target, closer>>

\* The window's tasks run on the UI thread: at once for the thread itself,
\* between its own operations for the others.
MayNotify(c) == ui = c \/ UIIdle

Twice(n) == IF n < 2 THEN n + 1 ELSE n

\* ChannelDisconnected, down to OnDeviceChannelDisconnected.
ChannelDisconnected(c) ==
  /\ listed' = listed \ {c}
  /\ notified' = [notified EXCEPT ![c] = Twice(@)]

\* Variant: TargetCloseChannel ignores what CloseChannel() returns.
CloseTargetAlways(c) ==
  /\ closer[c] = "target"
  /\ opened' = [opened EXCEPT ![Other(c)] = FALSE]
  /\ target' = [target EXCEPT ![Other(c)] = FALSE]
  /\ closer' = [closer EXCEPT ![c] = "notifyTarget"]
  /\ UNCHANGED <<status, acceptor, pair, rd, snd, uiVars, stale>>

\* TargetCloseChannel: the compare-exchange of the other channel.
CloseTarget(c) ==
  /\ closer[c] = "target"
  /\ \/ /\ opened[Other(c)]
        /\ opened' = [opened EXCEPT ![Other(c)] = FALSE]
        /\ target' = [target EXCEPT ![Other(c)] = FALSE]
        /\ closer' = [closer EXCEPT ![c] = "notifyTarget"]
     \/ /\ ~opened[Other(c)]
        /\ closer' = [closer EXCEPT ![c] = "notify"]
        /\ UNCHANGED <<opened, target>>
  /\ UNCHANGED <<status, acceptor, pair, rd, snd, uiVars, stale>>

\* Variant: only the target is reported to the device.
NotifyTargetOnly(c) ==
  /\ MayNotify(c)
  /\ closer[c] = "notifyTarget"
  /\ closer' = [closer EXCEPT ![c] = "done"]
  /\ ChannelDisconnected(Other(c))
  /\ ui' = IF ui = c THEN None ELSE ui
  /\ UNCHANGED <<status, acceptor, pair, opened, target, rd, snd, toClose, stale>>

NotifyTarget(c) ==
  /\ MayNotify(c)
  /\ closer[c] = "notifyTarget"
  /\ closer' = [closer EXCEPT ![c] = "notify"]
  /\ ChannelDisconnected(Other(c))
  /\ UNCHANGED <<status, acceptor, pair, opened, target, rd, snd, ui, toClose, stale>>

Notify(c) ==
  /\ MayNotify(c)
  /\ closer[c] = "notify"
  /\ closer' = [closer EXCEPT ![c] = "done"]
  /\ ChannelDisconnected(c)
  /\ ui' = IF ui = c THEN None ELSE ui
  /\ UNCHANGED <<status, acceptor, pair, opened, target, rd, snd, toClose, stale>>

-----------------------------------------------------------------------------
(* The UI thread.                                                           *)

\* Start up to its first StatusChanged.  Bound: only while an accept is left.
Start ==
  /\ UIIdle
  /\ status = "Disconnected"
  /\ \E p \in Pairs : pair[p] = "idle"
  /\ status' = "Connecting"
  /\ UNCHANGED <<acceptor, pair, chVars, uiVars, stale>>

\* An address, open, bind or listen error: Close(ec).
StartFails ==
  /\ status = "Connecting"
  /\ status' = "Disconnected"
  /\ toClose' = listed
  /\ UNCHANGED <<acceptor, pair, chVars, listed, ui, notified, stale>>

Listen ==
  /\ status = "Connecting"
  /\ acceptor' = TRUE
  /\ \E p \in Pairs :
       /\ pair[p] = "idle"
       /\ pair' = [pair EXCEPT ![p] = "accepting"]
  /\ status' = "Connected"
  /\ UNCHANGED <<chVars, uiVars, stale>>

\* Stop: the acceptor is canceled and closed ...
Stop ==
  /\ UIIdle
  /\ status = "Connected"
  /\ status' = "Disconnecting"
  /\ acceptor' = FALSE
  /\ pair' = [p \in Pairs |-> IF pair[p] = "accepting" THEN "closedAccept" ELSE pair[p]]
  /\ stale' = stale \cup {p \in Pairs : pair[p] \in {"accepting", "closedAccept",
                                          "connecting", "addClient", "addServer"}}
  /\ UNCHANGED <<chVars, uiVars>>

\* Variant: the handler of Disconnected clears the map and closes nothing.
StopEndsClearing ==
  /\ status = "Disconnecting"
  /\ status' = "Disconnected"
  /\ listed' = {}
  /\ UNCHANGED <<acceptor, pair, chVars, ui, toClose, notified, stale>>

\* ... and the handler of Disconnected closes every listed channel.
StopEnds ==
  /\ status = "Disconnecting"
  /\ status' = "Disconnected"
  /\ toClose' = listed
  /\ UNCHANGED <<acceptor, pair, chVars, listed, ui, notified, stale>>

\* The close button of the channel list, for one channel or for all.
ClickClose ==
  /\ UIIdle
  /\ status = "Connected"
  /\ listed # {}
  /\ toClose' \in {listed} \cup {{c} : c \in listed}
  /\ UNCHANGED <<status, acceptor, pair, chVars, listed, ui, notified, stale>>

\* Close() of the next channel; after the last one of Disconnected the map is
\* cleared.
CloseNext(c) ==
  /\ ui = None
  /\ c \in toClose
  /\ toClose' = toClose \ {c}
  /\ \/ CloseChannel(c) /\ ui' = c /\ UNCHANGED listed
     \/ /\ AlreadyClosed(c)
        /\ ui' = None
        /\ listed' = IF status = "Disconnected" THEN listed \ {c} ELSE listed
  /\ UNCHANGED <<status, acceptor, pair, rd, snd, notified, stale>>

\* SendDataToChannel.
Send(c) ==
  /\ UIIdle
  /\ status = "Connected"
  /\ c \in listed /\ ~snd[c]
  /\ snd' = [snd EXCEPT ![c] = TRUE]
  /\ UNCHANGED <<status, acceptor, pair, opened, target, rd, closer, uiVars, stale>>

-----------------------------------------------------------------------------
(* Accepting and connecting.                                                *)

\* Variant: the handler does not start the next accept.
AcceptedOnce(p) ==
  /\ p \in Clients
  /\ pair[p] \in {"accepting", "closedAccept"}
  /\ opened' = [opened EXCEPT ![Client(p)] = TRUE]
  /\ pair' = [pair EXCEPT ![p] = "connecting"]
  /\ UNCHANGED <<status, acceptor, target, rd, snd, closer, uiVars, stale>>

\* The accept handler: it starts the connect to the server and the next accept,
\* which fails at once on a closed acceptor.  An accept that had completed
\* when the acceptor was closed is handled too.
Accepted(p) ==
  /\ p \in Clients
  /\ pair[p] \in {"accepting", "closedAccept"}
  /\ opened' = [opened EXCEPT ![Client(p)] = TRUE]
  /\ \/ /\ acceptor
        /\ \E q \in Pairs :
             /\ pair[q] = "idle"
             /\ pair' = [pair EXCEPT ![p] = "connecting", ![q] = "accepting"]
     \/ /\ ~acceptor
        /\ pair' = [pair EXCEPT ![p] = "connecting"]
  /\ UNCHANGED <<status, acceptor, target, rd, snd, closer, uiVars, stale>>

AcceptCanceled(p) ==
  /\ pair[p] = "closedAccept"
  /\ pair' = [pair EXCEPT ![p] = "dead"]
  /\ UNCHANGED <<status, acceptor, chVars, uiVars, stale>>

\* Any other error ends the chain of accepts; the server stays Connected.
AcceptFails(p) ==
  /\ pair[p] = "accepting"
  /\ pair' = [pair EXCEPT ![p] = "failed"]
  /\ UNCHANGED <<status, acceptor, chVars, uiVars, stale>>

\* The resolve or the connect failed: both channels are released, and the
\* deleter of the client's closes it.
ConnectFails(p) ==
  /\ pair[p] = "connecting"
  /\ pair' = [pair EXCEPT ![p] = "dead"]
  /\ opened' = [opened EXCEPT ![Client(p)] = FALSE]
  /\ UNCHANGED <<status, acceptor, target, rd, snd, closer, uiVars, stale>>

\* Variant: the channel to the server does not learn its target.
ConnectedOneWay(p) ==
  /\ pair[p] = "connecting"
  /\ pair' = [pair EXCEPT ![p] = "addClient"]
  /\ opened' = [opened EXCEPT ![Server(p)] = TRUE]
  /\ target' = [target EXCEPT ![Client(p)] = TRUE]
  /\ UNCHANGED <<status, acceptor, rd, snd, closer, uiVars, stale>>

Connected(p) ==
  /\ pair[p] = "connecting"
  /\ pair' = [pair EXCEPT ![p] = "addClient"]
  /\ opened' = [opened EXCEPT ![Server(p)] = TRUE]
  /\ target' = [target EXCEPT ![Client(p)] = TRUE, ![Server(p)] = TRUE]
  /\ UNCHANGED <<status, acceptor, rd, snd, closer, uiVars, stale>>

\* ChannelConnected: the channel is listed and its read loop begins.
AddChannel(c) ==
  /\ UIIdle
  /\ pair[c[1]] = IF c[2] = "client" THEN "addClient" ELSE "addServer"
  /\ pair' = [pair EXCEPT ![c[1]] = IF c[2] = "client" THEN "addServer" ELSE "up"]
  /\ listed' = listed \cup {c}
  /\ rd' = [rd EXCEPT ![c] = "pending"]
  /\ UNCHANGED <<status, acceptor, opened, target, snd, closer, ui, toClose,
                 notified, stale>>

-----------------------------------------------------------------------------
(* Forwarding.                                                              *)

\* Data: it is written to the target, or dropped when there is none.
ReadData(c) ==
  /\ rd[c] = "pending"
  /\ target[c]
  /\ rd' = [rd EXCEPT ![c] = "writing"]
  /\ UNCHANGED <<status, acceptor, pair, opened, target, snd, closer, uiVars, stale>>

\* An error; on a channel closed here it is operation_canceled or changes nothing.
ReadFails(c) ==
  /\ rd[c] = "pending"
  /\ rd' = [rd EXCEPT ![c] = "done"]
  /\ CloseChannel(c) \/ AlreadyClosed(c)
  /\ UNCHANGED <<status, acceptor, pair, snd, uiVars, stale>>

\* The write to the target completed; its handler reads again before a write
\* error closes the target.
WriteDone(c) ==
  /\ rd[c] = "writing"
  /\ rd' = [rd EXCEPT ![c] = "pending"]
  /\ \/ UNCHANGED <<opened, target, closer>>
     \/ CloseChannel(Other(c))
  /\ UNCHANGED <<status, acceptor, pair, snd, uiVars, stale>>

SendDone(c) ==
  /\ snd[c]
  /\ snd' = [snd EXCEPT ![c] = FALSE]
  /\ \/ UNCHANGED <<opened, target, closer>>
     \/ CloseChannel(c)
  /\ UNCHANGED <<status, acceptor, pair, rd, uiVars, stale>>

-----------------------------------------------------------------------------

UIThread ==
  \/ Start \/ StartFails \/ Listen \/ Stop \/ StopEnds \/ ClickClose
  \/ \E c \in Channels : CloseNext(c)
  \/ \E c \in Injected : Send(c)

PairThread(p) ==
  Accepted(p) \/ AcceptCanceled(p) \/ AcceptFails(p) \/ ConnectFails(p) \/ Connected(p)

ChannelThread(c) ==
  \/ AddChannel(c)
  \/ ReadData(c) \/ ReadFails(c) \/ WriteDone(c) \/ SendDone(c)

CloserThread(c) == CloseTarget(c) \/ NotifyTarget(c) \/ Notify(c)

Next ==
  \/ UIThread
  \/ \E p \in Pairs : PairThread(p)
  \/ \E c \in Channels : ChannelThread(c) \/ CloserThread(c)

Spec == Init /\ [][Next]_vars

-----------------------------------------------------------------------------
(* Properties.                                                              *)

\* However many threads close the two ends of a pair at once, no channel is
\* reported disconnected twice, and none is before it was closed.
NotifiedOnce ==
  \A c \in Channels :
    notified[c] <= (IF opened[c] \/ pair[c[1]] \in {"idle", "accepting"} THEN 0 ELSE 1)

\* A channel is never left half open: when only one end of a connected pair is
\* open, a thread is between the two closes.
PairClosesTogether ==
  \A p \in Pairs :
    pair[p] \in {"addClient", "addServer", "up"} /\ opened[Client(p)] # opened[Server(p)]
      => \E c \in {Client(p), Server(p)} : ~opened[c] /\ closer[c] = "target"

\* Forwarding is never silently one-way: an open channel of a connected pair
\* still has its target.
OpenHasTarget ==
  \A c \in Channels :
    opened[c] /\ pair[c[1]] \in {"addClient", "addServer", "up"} => target[c]

\* While connected the server is deaf, with no accept outstanding, for one
\* reason only: an accept failed with an error other than a cancel.
ServerAccepts ==
  status = "Connected" => \E p \in Pairs : pair[p] \in {"accepting", "failed"}

\* The only connections that survive a Stop are those whose accept or connect
\* was under way when it ran.
OnlyStaleSurvivesStop ==
  status = "Disconnected" /\ UIIdle =>
    \A c \in Channels : opened[c] => c[1] \in stale

\* No thread has anything left to do for the pair.
Quiet(p) ==
  /\ UIIdle
  /\ pair[p] \in {"idle", "up", "dead", "failed"}
  /\ \A c \in {Client(p), Server(p)} :
       closer[c] \in {"none", "done"} /\ rd[c] \in {"none", "done"}

\* Whichever end was closed first, and by whom, the client's channel of a
\* closed pair has left the list when the threads are done.  (The server's may
\* stay: it is listed after the client's, which may have closed both by then.)
ClosedClientUnlisted ==
  \A p \in Pairs : Quiet(p) /\ Client(p) \in listed => opened[Client(p)]
=============================================================================
