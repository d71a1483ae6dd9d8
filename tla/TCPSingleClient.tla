--------------------------- MODULE TCPSingleClient ---------------------------
(***************************************************************************)
(* The single TCP client device: TCPSingleClient and its one               *)
(* TCPClientChannel (TCPClient.cpp), the part of CommunicationDevice they   *)
(* use (IAsyncStream.h) and the handlers of the dialog they call            *)
(* (NetDebuggerDlg.cpp).                                                   *)
(*                                                                         *)
(* Three kinds of thread run here: the UI thread (Start, Stop and every     *)
(* task sent to the window), and io_context threads running the completion  *)
(* of a connect attempt or of a read or write.  A handler's calls into the  *)
(* dialog go through SendMessage, so they wait until the UI thread is idle. *)
(*                                                                         *)
(* An attempt is one successful TCPClientChannel::Connect: the resolve,     *)
(* the connect, the completion lambda of Start and the read loop that the   *)
(* lambda's ChannelConnected begins.  Attempts are used once.  A host name  *)
(* resolves to one endpoint.                                                *)
(***************************************************************************)
CONSTANTS
  Attempts,  \* connect attempts the run may make
  Sends,     \* writes that may be outstanding at a time
  NoSock     \* m_Socket is not open

ASSUME AttemptsAssumption ==
  /\ NoSock \notin Attempts
  /\ Attempts \cap Sends = {}

VARIABLES
  status,   \* CommunicationDevice::m_Status
  opened,   \* TCPClientChannel::m_Opened
  owner,    \* m_Device is set (SetOwner has run; it is never cleared)
  sock,     \* the attempt whose async_connect opened m_Socket, or NoSock
  chain,    \* per attempt: where its resolve, connect and lambda are
  op,       \* per read loop and per write: where it is
  on,       \* the value of sock when that read or write was issued
  ui,       \* where the UI thread is inside Start or Stop
  listed,   \* the channel is in m_ChannelsMap and in the channel list
  shown,    \* the status the window last displayed
  button,   \* IDC_BUTTON_CONNECT is enabled
  popup,    \* the "connecting" pop-up, whose close button calls Stop, is up
  cut,      \* history: attempts in flight when m_Opened was reset
  late,     \* history: such an attempt reported success all the same
  lost      \* history: m_Opened was reset with no device to notify

chanVars == <<opened, owner, sock>>
uiVars   == <<ui, listed, shown, button, popup>>
vars     == <<status, chanVars, chain, op, on, uiVars, cut, late, lost>>

Ops      == Attempts \cup Sends
Socks    == Attempts \cup {NoSock}
Statuses == {"Disconnected", "Connecting", "Connected"}

\* What an attempt still has to do before its status is reported, and before
\* its read loop runs.
Unreported == {"resolving", "connecting", "okSet", "failSet"}
InFlight   == Unreported \cup {"okTell", "okAdd", "failTell", "failAdd"}
Phases     == InFlight \cup {"idle", "okOwn", "done"}
OpPhases   == {"idle", "pending", "lostDel", "lostSet", "lostTell"}

TypeOK ==
  /\ status \in Statuses
  /\ opened \in BOOLEAN
  /\ owner \in BOOLEAN
  /\ sock \in Socks
  /\ chain \in [Attempts -> Phases]
  /\ op \in [Ops -> OpPhases]
  /\ on \in [Ops -> Socks]
  /\ ui \in {"idle", "connect", "stopped"}
  /\ listed \in BOOLEAN
  /\ shown \in Statuses
  /\ button \in BOOLEAN
  /\ popup \in BOOLEAN
  /\ cut \in SUBSET Attempts
  /\ late \in BOOLEAN
  /\ lost \in BOOLEAN

Init ==
  /\ status = "Disconnected"
  /\ opened = FALSE
  /\ owner = FALSE
  /\ sock = NoSock
  /\ chain = [a \in Attempts |-> "idle"]
  /\ op = [o \in Ops |-> "idle"]
  /\ on = [o \in Ops |-> NoSock]
  /\ ui = "idle"
  /\ listed = FALSE
  /\ shown = "Disconnected"
  /\ button = TRUE
  /\ popup = FALSE
  /\ cut = {}
  /\ late = FALSE
  /\ lost = FALSE

-----------------------------------------------------------------------------
(* TCPClientChannel::CloseSocket(): the compare-exchange of m_Opened.        *)

Flying == {a \in Attempts : chain[a] \in InFlight}

\* Variant: the compare-exchange succeeds but m_Socket.close is forgotten.
CloseSocketLeak ==
  /\ opened
  /\ opened' = FALSE
  /\ cut' = cut \cup Flying
  /\ UNCHANGED sock

CloseSocket ==
  /\ opened
  /\ opened' = FALSE
  /\ sock' = NoSock
  /\ cut' = cut \cup Flying

NothingToClose ==
  /\ ~opened
  /\ UNCHANGED <<opened, sock, cut>>

(* OnDeviceStatusChanged with each status.  The Disconnected case closes     *)
(* every listed channel: Close() is CloseSocket(ec), which notifies the      *)
(* device, whose StatusChanged is nested in the same window task.            *)

ShowStarted(s) ==
  /\ shown' = s
  /\ button' = (s = "Connected")
  /\ popup' = (s = "Connecting")
  /\ UNCHANGED <<status, opened, sock, cut, listed, lost>>

ShowDisconnected ==
  /\ shown' = "Disconnected"
  /\ button' = TRUE
  /\ popup' = FALSE
  /\ listed' = FALSE
  /\ \/ /\ listed
        /\ CloseSocket
        /\ status' = IF owner THEN "Disconnected" ELSE status
        /\ lost' = (lost \/ ~owner)
     \/ /\ ~listed \/ ~opened
        /\ UNCHANGED <<status, opened, sock, cut, lost>>

OnDeviceStatusChanged(s) ==
  IF s = "Disconnected" THEN ShowDisconnected ELSE ShowStarted(s)

-----------------------------------------------------------------------------
(* The UI thread.                                                           *)

\* TCPSingleClient::Start up to Connect: StatusChanged(Connecting).
\* Bound: the user clicks only while an unused attempt is left.
ClickConnect ==
  /\ ui = "idle" /\ button
  /\ \E a \in Attempts : chain[a] = "idle"
  /\ status = "Disconnected"
  /\ status' = "Connecting"
  /\ shown' = "Connecting"
  /\ button' = FALSE
  /\ popup' = TRUE
  /\ ui' = "connect"
  /\ UNCHANGED <<chanVars, chain, op, on, listed, cut, late, lost>>

\* TCPClientChannel::Connect: it does nothing at all, the handler included,
\* when m_Opened is already set.
Connect ==
  /\ ui = "connect"
  /\ ui' = "idle"
  /\ \/ /\ ~opened
        /\ opened' = TRUE
        /\ \E a \in Attempts :
             /\ chain[a] = "idle"
             /\ chain' = [chain EXCEPT ![a] = "resolving"]
     \/ /\ opened
        /\ UNCHANGED <<opened, chain>>
  /\ UNCHANGED <<status, owner, sock, op, on, listed, shown, button, popup,
                 cut, late, lost>>

\* TCPSingleClient::Stop up to the compare-exchange.
Stop ==
  \/ /\ CloseSocket
     /\ ui' = "stopped"
  \/ /\ NothingToClose
     /\ ui' = "idle"

ClickDisconnect ==
  /\ ui = "idle" /\ button
  /\ status # "Disconnected"
  /\ button' = FALSE
  /\ Stop
  /\ UNCHANGED <<status, owner, chain, op, on, listed, shown, popup, late, lost>>

ClosePopup ==
  /\ ui = "idle" /\ popup
  /\ popup' = FALSE
  /\ Stop
  /\ UNCHANGED <<status, owner, chain, op, on, listed, shown, button, late, lost>>

\* The rest of Stop: ChannelDisconnected, PropertyChanged, StatusChanged.
StopNotify ==
  /\ ui = "stopped"
  /\ ui' = "idle"
  /\ listed' = FALSE
  /\ status' = "Disconnected"
  /\ IF status = "Disconnected"
     THEN UNCHANGED <<shown, button, popup>>
     ELSE /\ shown' = "Disconnected"
          /\ button' = TRUE
          /\ popup' = FALSE
  /\ UNCHANGED <<chanVars, chain, op, on, cut, late, lost>>

\* SendDataToChannel: Write on the listed channel.
Send(o) ==
  /\ ui = "idle"
  /\ listed /\ shown = "Connected"
  /\ op[o] = "idle"
  /\ op' = [op EXCEPT ![o] = "pending"]
  /\ on' = [on EXCEPT ![o] = sock]
  /\ UNCHANGED <<status, chanVars, chain, uiVars, cut, late, lost>>

-----------------------------------------------------------------------------
(* The completion of an attempt.                                            *)

Go(a, from, to) ==
  /\ chain[a] = from
  /\ chain' = [chain EXCEPT ![a] = to]

\* The resolve failed: the handler is called and m_Opened stays set.
ResolveFails(a) ==
  /\ Go(a, "resolving", "failSet")
  /\ UNCHANGED <<status, chanVars, op, on, uiVars, cut, late, lost>>

\* Variant: the socket is recorded as that of the resolver, not of the attempt.
ResolveDoneUntyped(a) ==
  /\ Go(a, "resolving", "connecting")
  /\ sock' = chain[a]
  /\ UNCHANGED <<status, opened, owner, op, on, uiVars, cut, late, lost>>

\* async_connect closes whatever m_Socket had open and opens it anew.
ResolveDone(a) ==
  /\ Go(a, "resolving", "connecting")
  /\ sock' = a
  /\ UNCHANGED <<status, opened, owner, op, on, uiVars, cut, late, lost>>

\* A connect that completes after m_Socket was closed reports an error.
ConnectDone(a) ==
  /\ sock # NoSock
  /\ Go(a, "connecting", "okSet")
  /\ UNCHANGED <<status, chanVars, op, on, uiVars, cut, late, lost>>

ConnectFails(a) ==
  /\ Go(a, "connecting", "failSet")
  /\ CloseSocket \/ NothingToClose
  /\ UNCHANGED <<status, owner, op, on, uiVars, late, lost>>

\* StatusChanged(s) in a completion: it does not call the window when the
\* status is already s.
SetStatus(a, s, from, tell, skip) ==
  /\ chain[a] = from
  /\ status' = s
  /\ chain' = [chain EXCEPT ![a] = IF status = s THEN skip ELSE tell]

\* The lambda of Start: StatusChanged, PropertyChanged, ChannelConnected, SetOwner.
ReportConnected(a) ==
  /\ SetStatus(a, "Connected", "okSet", "okTell", "okAdd")
  /\ late' = (late \/ a \in cut)
  /\ UNCHANGED <<chanVars, op, on, uiVars, cut, lost>>

\* Variant: the error branch forgets StatusChanged(Disconnected).
ReportFailedSilently(a) ==
  /\ Go(a, "failSet", "failAdd")
  /\ UNCHANGED <<status, chanVars, op, on, uiVars, cut, late, lost>>

ReportFailed(a) ==
  /\ SetStatus(a, "Disconnected", "failSet", "failTell", "failAdd")
  /\ UNCHANGED <<chanVars, op, on, uiVars, cut, late, lost>>

\* m_OnStatusChanged(m_Status, ...) reads m_Status again after setting it, at
\* once or when another thread has changed it.
TellWindow(a) ==
  /\ ui = "idle"
  /\ \/ /\ Go(a, "okTell", "okAdd")
        /\ \E s \in {"Connected", status} : OnDeviceStatusChanged(s)
     \/ /\ Go(a, "failTell", "failAdd")
        /\ \E s \in {"Disconnected", status} : OnDeviceStatusChanged(s)
  /\ UNCHANGED <<owner, op, on, ui, late>>

\* OnDeviceChannelConnected lists the channel and begins ReadChannelData; the
\* lambda calls it for a failed connect too.
AddChannel(a) ==
  /\ ui = "idle"
  /\ Go(a, "okAdd", "okOwn") \/ Go(a, "failAdd", "done")
  /\ listed' = TRUE
  /\ op' = [op EXCEPT ![a] = "pending"]
  /\ on' = [on EXCEPT ![a] = sock]
  /\ UNCHANGED <<status, chanVars, ui, shown, button, popup, cut, late, lost>>

SetOwner(a) ==
  /\ Go(a, "okOwn", "done")
  /\ owner' = TRUE
  /\ UNCHANGED <<status, opened, sock, op, on, uiVars, cut, late, lost>>

-----------------------------------------------------------------------------
(* The completion of a read or a write.                                     *)

\* Data: ReadChannelData issues the next ReadSome; a write is over.
IoDone(o) ==
  /\ op[o] = "pending"
  /\ on[o] # NoSock
  /\ chain[on[o]] # "connecting"
  /\ \/ /\ o \in Attempts
        /\ on' = [on EXCEPT ![o] = sock]
        /\ UNCHANGED op
     \/ /\ o \in Sends
        /\ op' = [op EXCEPT ![o] = "idle"]
        /\ UNCHANGED on
  /\ UNCHANGED <<status, chanVars, chain, uiVars, cut, late, lost>>

\* operation_canceled: the socket it was issued on has been closed here.
IoCanceled(o) ==
  /\ op[o] = "pending"
  /\ on[o] # NoSock /\ sock # on[o]
  /\ op' = [op EXCEPT ![o] = "idle"]
  /\ UNCHANGED <<status, chanVars, chain, on, uiVars, cut, late, lost>>

\* Variant: a failed read or write ends without CloseSocket(ec).
IoFailsQuietly(o) ==
  /\ op[o] = "pending"
  /\ op' = [op EXCEPT ![o] = "idle"]
  /\ UNCHANGED <<status, chanVars, chain, on, uiVars, cut, late, lost>>

\* Any other error: CloseSocket(ec), which notifies the device if it is set.
IoFails(o) ==
  /\ op[o] = "pending"
  /\ \/ /\ CloseSocket
        /\ op' = [op EXCEPT ![o] = IF owner THEN "lostDel" ELSE "idle"]
        /\ lost' = (lost \/ ~owner)
     \/ /\ NothingToClose
        /\ op' = [op EXCEPT ![o] = "idle"]
        /\ UNCHANGED lost
  /\ UNCHANGED <<status, owner, chain, on, uiVars, late>>

\* Variant: NotifyChannelClose stops after ChannelDisconnected, as the one of
\* TCPMultipleClient does.
NotifyRemoveOnly(o) ==
  /\ ui = "idle"
  /\ op[o] = "lostDel"
  /\ op' = [op EXCEPT ![o] = "idle"]
  /\ listed' = FALSE
  /\ UNCHANGED <<status, chanVars, chain, on, ui, shown, button, popup, cut, late, lost>>

\* NotifyChannelClose: ChannelDisconnected, PropertyChanged, StatusChanged.
NotifyRemove(o) ==
  /\ ui = "idle"
  /\ op[o] = "lostDel"
  /\ op' = [op EXCEPT ![o] = "lostSet"]
  /\ listed' = FALSE
  /\ UNCHANGED <<status, chanVars, chain, on, ui, shown, button, popup, cut, late, lost>>

NotifyStatus(o) ==
  /\ op[o] = "lostSet"
  /\ status' = "Disconnected"
  /\ op' = [op EXCEPT ![o] = IF status = "Disconnected" THEN "idle" ELSE "lostTell"]
  /\ UNCHANGED <<chanVars, chain, on, uiVars, cut, late, lost>>

NotifyWindow(o) ==
  /\ ui = "idle"
  /\ op[o] = "lostTell"
  /\ op' = [op EXCEPT ![o] = "idle"]
  /\ \E s \in {"Disconnected", status} : OnDeviceStatusChanged(s)
  /\ UNCHANGED <<owner, chain, on, ui, late>>

-----------------------------------------------------------------------------

UIThread == ClickConnect \/ Connect \/ ClickDisconnect \/ ClosePopup \/ StopNotify

ConnectThread(a) ==
  \/ ResolveFails(a) \/ ResolveDone(a) \/ ConnectDone(a) \/ ConnectFails(a)
  \/ ReportConnected(a) \/ ReportFailed(a) \/ TellWindow(a)
  \/ AddChannel(a) \/ SetOwner(a)

IoThread(o) ==
  \/ IoDone(o) \/ IoCanceled(o) \/ IoFails(o)
  \/ NotifyRemove(o) \/ NotifyStatus(o) \/ NotifyWindow(o)

\* What a read or write must still do once its socket is closed.
ClosedIo(o) ==
  \/ IoCanceled(o)
  \/ on[o] = NoSock /\ IoFails(o)
  \/ NotifyRemove(o) \/ NotifyStatus(o) \/ NotifyWindow(o)

Next ==
  \/ UIThread
  \/ \E o \in Sends : Send(o)
  \/ \E a \in Attempts : ConnectThread(a)
  \/ \E o \in Ops : IoThread(o)

Spec == Init /\ [][Next]_vars

\* The io_context threads and the message loop run what is ready; a resolve
\* and a connect end; reads, writes and the user are under no obligation.
Fairness ==
  /\ WF_vars(Connect) /\ WF_vars(StopNotify)
  /\ \A a \in Attempts : WF_vars(ConnectThread(a))
  /\ \A o \in Ops : WF_vars(ClosedIo(o))

FairSpec == Spec /\ Fairness

-----------------------------------------------------------------------------
(* Properties.                                                              *)

\* m_Opened never stays set for a connection nobody serves: while it is set,
\* an attempt is still to complete or a read loop is on the socket (or on a
\* closed one, and will fail).  A later Connect is refused by the
\* compare-exchange only while somebody can still reset it.
OpenedIsServed ==
  opened => \/ \E a \in Attempts : chain[a] \in InFlight
            \/ \E a \in Attempts : op[a] = "pending" /\ on[a] \in {sock, NoSock}

\* Somebody is about to set the status, or Stop can still close the socket.
Recovers ==
  \/ opened
  \/ ui # "idle"
  \/ \E a \in Attempts : chain[a] \in Unreported
  \/ \E o \in Ops : op[o] \in {"lostDel", "lostSet"}

\* A device is stranded (started, nothing in flight, and Stop does nothing
\* because m_Opened is reset) for two reasons only: a connect that was closed
\* under way reported success, or the channel was closed before SetOwner.
StrandedHasCause ==
  status # "Disconnected" => Recovers \/ late \/ lost

\* A socket is never left open behind a reset m_Opened, where nothing would
\* close it, except by a connect that was closed under way.
OpenSocketIsOwned ==
  sock # NoSock => opened \/ sock \in cut

\* No thread has anything left to do.
Quiet ==
  /\ ui = "idle"
  /\ \A a \in Attempts : chain[a] \in {"idle", "done"}
  /\ \A o \in Ops : op[o] = "idle"

\* "Connecting" comes to an end, also when the new Connect was refused by an
\* m_Opened that a failed resolve left set (the read on that socket fails and
\* reports), unless m_Opened was reset before SetOwner.
ConnectingEnds == status = "Connecting" ~> status # "Connecting" \/ lost

\* "Connect or disconnect" (res/language.ini): when the button of a connected
\* device is pressed, the device is disconnected and the button comes back.
\* It is violated: Stop does nothing when m_Opened has been reset.
ButtonDisconnects == (shown = "Connected" /\ ~button) ~> button
=============================================================================
