------------------------------ MODULE SerialPort ------------------------------
(***************************************************************************)
(* The serial port device (SerialPort.cpp), which is its own and only       *)
(* channel, with the dialog's handlers it calls (NetDebuggerDlg.cpp).       *)
(*                                                                         *)
(* Start, Stop, Close and the user's writes run on the UI thread, which     *)
(* also runs every task another thread sends to the window; reads and       *)
(* writes complete on io_context threads.  One write is outstanding at a    *)
(* time: a write that finds m_Writing set spins, and after some time gives  *)
(* up and reports success for no bytes.                                     *)
(*                                                                         *)
(* The opens are numbered; a number stands for one Start, the handle it     *)
(* opens and the read loop on it.                                           *)
(***************************************************************************)
EXTENDS Naturals

CONSTANTS
  MaxOpens,  \* bound on the Starts of the run
  Writers    \* writes that may be made

Opens  == 1..MaxOpens
Closed == 0

ASSUME SerialAssumption ==
  /\ MaxOpens \in Nat
  /\ Writers \cap (Opens \cup {Closed}) = {}

VARIABLES
  status,   \* CommunicationDevice::m_Status
  port,     \* the open whose handle m_SerialPort has, or Closed
  writing,  \* m_Writing
  io,       \* per read loop and per write: where it is
  on,       \* the value of port when that read or write was issued; Closed when it is over
  ui,       \* where the UI thread is inside Start or Stop
  listed,   \* the port is in m_ChannelsMap
  shown,    \* the status the window last displayed
  button,   \* IDC_BUTTON_CONNECT is enabled
  cur,      \* the number of Starts so far
  crossed   \* history: an operation of an earlier open closed or reported a later one

winVars    == <<listed, shown, button>>
serialVars == <<status, port, writing, io, on, ui, winVars, cur, crossed>>

Ops      == Opens \cup Writers
Handles  == Opens \cup {Closed}
Statuses == {"Disconnected", "Connecting", "Connected"}

\* Steps of CloseSerialPort and its notifications, for the thread of an operation.
ClosePhases == {"test", "close", "remove", "set", "tell"}
\* "written" and "failed": in the completion handler of the write.
Phases      == ClosePhases \cup {"idle", "pending", "written", "failed", "done"}

SerialTypeOK ==
  /\ status \in Statuses /\ shown \in Statuses
  /\ port \in Handles
  /\ writing \in BOOLEAN
  /\ io \in [Ops -> Phases]
  /\ on \in [Ops -> Handles]
  /\ ui \in {"idle", "open", "set", "list", "remove", "stopped"}
  /\ listed \in BOOLEAN /\ button \in BOOLEAN
  /\ cur \in Handles
  /\ crossed \in BOOLEAN

SerialInit ==
  /\ status = "Disconnected" /\ shown = "Disconnected"
  /\ port = Closed
  /\ writing = FALSE
  /\ io = [o \in Ops |-> "idle"]
  /\ on = [o \in Ops |-> Closed]
  /\ ui = "idle"
  /\ listed = FALSE /\ button = TRUE
  /\ cur = Closed
  /\ crossed = FALSE

Goto(o, to) ==
  /\ io' = [io EXCEPT ![o] = to]
  /\ on' = [on EXCEPT ![o] = IF to = "done" THEN Closed ELSE @]

\* OnDeviceStatusChanged.  Disconnected closes the port if it is listed:
\* CloseSerialPort and its notifications are nested in the window's task.
OnDeviceStatusChanged(s) ==
  /\ shown' = s
  /\ button' = (s # "Connecting")
  /\ IF s = "Disconnected" /\ listed /\ port # Closed
     THEN port' = Closed /\ status' = "Disconnected"
     ELSE UNCHANGED <<port, status>>
  /\ listed' = (listed /\ s # "Disconnected")

-----------------------------------------------------------------------------
(* The UI thread.                                                           *)

\* Start: StatusChanged(Connecting).  Bound: MaxOpens.
ClickConnect ==
  /\ ui = "idle" /\ button
  /\ status = "Disconnected"
  /\ cur < MaxOpens
  /\ cur' = cur + 1
  /\ status' = "Connecting" /\ shown' = "Connecting" /\ button' = FALSE
  /\ ui' = "open"
  /\ UNCHANGED <<port, writing, io, on, listed, crossed>>

\* open and ApplyConfig.
Open ==
  /\ ui = "open"
  /\ port = Closed
  /\ port' = cur
  /\ ui' = "set"
  /\ UNCHANGED <<status, writing, io, on, winVars, cur, crossed>>

\* open fails, also because the port is still open; or ApplyConfig does, and
\* the port is closed again.
OpenFails ==
  /\ ui = "open"
  /\ ui' = "idle"
  /\ IF status = "Disconnected"
     THEN UNCHANGED <<status, port, winVars>>
     ELSE /\ status' = "Disconnected" /\ shown' = "Disconnected" /\ button' = TRUE
          /\ listed' = FALSE
          /\ port' = IF listed THEN Closed ELSE port
  /\ UNCHANGED <<writing, io, on, cur, crossed>>

SetConnected ==
  /\ ui = "set"
  /\ ui' = "list"
  /\ status' = "Connected" /\ shown' = "Connected" /\ button' = TRUE
  /\ UNCHANGED <<port, writing, io, on, listed, cur, crossed>>

\* ChannelConnected: the port is listed and its read loop begins.
ListChannel ==
  /\ ui = "list"
  /\ ui' = "idle"
  /\ listed' = TRUE
  /\ io' = [io EXCEPT ![cur] = "pending"]
  /\ on' = [on EXCEPT ![cur] = port]
  /\ UNCHANGED <<status, port, writing, shown, button, cur, crossed>>

\* Stop: the port is closed, open or not ...
ClickDisconnect ==
  /\ ui = "idle" /\ button
  /\ status # "Disconnected"
  /\ button' = FALSE
  /\ port' = Closed
  /\ ui' = "stopped"
  /\ UNCHANGED <<status, writing, io, on, listed, shown, cur, crossed>>

\* Variant: Stop forgets StatusChanged.
StopNotifyQuietly ==
  /\ ui = "stopped"
  /\ ui' = "idle"
  /\ listed' = FALSE
  /\ UNCHANGED <<status, shown, button, port, writing, io, on, cur, crossed>>

\* ... and ChannelDisconnected, StatusChanged.
StopNotify ==
  /\ ui = "stopped"
  /\ ui' = "idle"
  /\ listed' = FALSE
  /\ status' = "Disconnected"
  /\ IF status = "Disconnected"
     THEN UNCHANGED <<shown, button>>
     ELSE shown' = "Disconnected" /\ button' = TRUE
  /\ UNCHANGED <<port, writing, io, on, cur, crossed>>

-----------------------------------------------------------------------------
(* Write.                                                                   *)

BeginWrite(w) ==
  /\ ~writing
  /\ io' = [io EXCEPT ![w] = "pending"]
  /\ on' = [on EXCEPT ![w] = port]
  /\ writing' = TRUE

\* The spinning ends without the flag: the handler is called with success.
GiveUpWrite(w, handled) ==
  /\ writing
  /\ Goto(w, handled)
  /\ UNCHANGED writing

\* The user's write, whose handler does nothing.
Send(w) ==
  /\ ui = "idle"
  /\ listed /\ shown = "Connected"
  /\ io[w] = "idle"
  /\ BeginWrite(w) \/ GiveUpWrite(w, "done")
  /\ UNCHANGED <<status, port, ui, winVars, cur, crossed>>

WriteDone(w, handled) ==
  /\ io[w] = "pending"
  /\ on[w] # Closed
  /\ Goto(w, handled)
  /\ writing' = FALSE
  /\ UNCHANGED <<status, port, ui, winVars, cur, crossed>>

\* Any error, a cancel included; it closes the port after the handler.
WriteFails(w, handled) ==
  /\ io[w] = "pending"
  /\ Goto(w, handled)
  /\ writing' = FALSE
  /\ UNCHANGED <<status, port, ui, winVars, cur, crossed>>

-----------------------------------------------------------------------------
(* The read loop.                                                           *)

ReadData(g) ==
  /\ io[g] = "pending"
  /\ on[g] # Closed
  /\ on' = [on EXCEPT ![g] = port]
  /\ UNCHANGED <<status, port, writing, io, ui, winVars, cur, crossed>>

\* operation_canceled ends the loop and nothing else.
ReadCanceled(g) ==
  /\ io[g] = "pending"
  /\ on[g] # Closed /\ port # on[g]
  /\ Goto(g, "done")
  /\ UNCHANGED <<status, port, writing, ui, winVars, cur, crossed>>

-----------------------------------------------------------------------------
(* CloseSerialPort on the thread of a read or a write.                      *)

\* is_open, after a failed write, or as a read fails.
TestOpen(o) ==
  /\ io[o] = "test" \/ (io[o] = "pending" /\ o \in Opens)
  /\ Goto(o, IF port = Closed THEN "done" ELSE "close")
  /\ UNCHANGED <<status, port, writing, ui, winVars, cur, crossed>>

\* A step that concerns a later open than the operation's own.
Crosses(o) == crossed' = (crossed \/ on[o] # cur)

ClosePort(o) ==
  /\ io[o] = "close"
  /\ Goto(o, "remove")
  /\ port' = Closed
  /\ Crosses(o)
  /\ UNCHANGED <<status, writing, ui, winVars, cur>>

\* ChannelDisconnected.
RemoveChannel(o) ==
  /\ io[o] = "remove" /\ ui = "idle"
  /\ Goto(o, "set")
  /\ listed' = FALSE
  /\ Crosses(o)
  /\ UNCHANGED <<status, port, writing, ui, shown, button, cur>>

\* StatusChanged.
SetDisconnected(o) ==
  /\ io[o] = "set"
  /\ status' = "Disconnected"
  /\ Goto(o, IF status = "Disconnected" THEN "done" ELSE "tell")
  /\ Crosses(o)
  /\ UNCHANGED <<port, writing, ui, winVars, cur>>

\* m_Status is read again for the call, at once or later.
TellWindow(o) ==
  /\ io[o] = "tell" /\ ui = "idle"
  /\ Goto(o, "done")
  /\ \E s \in {"Disconnected", status} : OnDeviceStatusChanged(s)
  /\ Crosses(o)
  /\ UNCHANGED <<writing, ui, cur>>

-----------------------------------------------------------------------------

UIThread ==
  \/ ClickConnect \/ Open \/ OpenFails \/ SetConnected \/ ListChannel
  \/ ClickDisconnect \/ StopNotify

ReadLoop(g) == ReadData(g) \/ ReadCanceled(g)

CloseSerialPort(o) ==
  TestOpen(o) \/ ClosePort(o) \/ RemoveChannel(o) \/ SetDisconnected(o) \/ TellWindow(o)

-----------------------------------------------------------------------------
(* Properties.                                                              *)

\* No thread is inside Start, Stop, CloseSerialPort or a handler.
SerialQuiet ==
  ui = "idle" /\ \A o \in Ops : io[o] \in {"idle", "pending", "done"}

\* m_Writing keeps two writes from being outstanding at a time, and it is never
\* left set without one, whatever closes the port under a write.
OneWrite ==
  \A w \in Writers : io[w] = "pending" =>
    writing /\ \A v \in Writers : io[v] = "pending" => v = w
FlagIsServed == writing => \E w \in Writers : io[w] = "pending"
WritingFlag  == OneWrite /\ FlagIsServed

\* The port, the status, the channel list and the window agree whenever no
\* thread is at work, unless an operation that an earlier open left behind
\* closed or reported the port of a later one.
PortAgrees ==
  SerialQuiet /\ ~crossed =>
    /\ shown = status /\ button
    /\ status = IF port = Closed THEN "Disconnected" ELSE "Connected"
    /\ listed = (port # Closed)
=============================================================================
