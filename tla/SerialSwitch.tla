----------------------------- MODULE SerialSwitch -----------------------------
(***************************************************************************)
(* The devices of SerialPort.cpp that join two ends: SerialPortSwitch, two  *)
(* SerialPortStreams A and B, and SerialPortToTCPClient, a stream A and a   *)
(* TcpForwardClientChannel B.  What one end reads is written to the other,  *)
(* and an error of either closes both and reports both.                     *)
(*                                                                         *)
(* Both ends live as long as the device: a completion that was under way    *)
(* when they were closed finds them open again after a restart, and closes  *)
(* them.  What was forwarded is abstracted to the read that follows it.     *)
(***************************************************************************)
EXTENDS Device

CONSTANT Loops  \* bound: read loops of one end that are told apart

ASSUME LoopsAssumption == Loops \in Nat \ {0}

VARIABLES
  ends,      \* the ends whose m_Opened is set
  owned,     \* SetTarget was called: m_Device and m_Target of both ends
  shown,     \* the ends in m_ChannelsMap
  reads,     \* per end: outstanding reads
  forwards,  \* per end: reads whose data is being written to the other end
  sending,   \* the ends with a write of the user's outstanding
  late,      \* the ends with a completion that is about to close them
  closer,    \* per thread: where it is in ChannelDisconnectedNotify, or in the
             \* handler of the TCP connect
  conn,      \* the TCP resolve or connect
  up,        \* the TCP socket is connected
  left,      \* history: an end was left open by a Start that failed
  outrun     \* history: a successful connect was reported while its pair was closing

switchVars == <<ends, owned, shown, reads, forwards, sending, late, closer,
                conn, up, left, outrun>>

Ends         == {"A", "B"}
SwitchThreads == Ends \cup {"connect"}
CloserPhases == {"none", "both", "remove", "set", "tell"}
OkPhases      == {"okSet", "okTell", "okAdd"}
HandlerPhases == OkPhases \cup {"failSet", "failTell", "failAdd"}
ConnPhases   == {"none", "resolving", "connecting", "cut"}
IsTCP(e)     == class = "SerialPortToTCPClient" /\ e = "B"
OtherEnd(e)  == CHOOSE f \in Ends : f # e

SwitchTypeOK ==
  /\ ends \subseteq Ends /\ shown \subseteq Ends
  /\ sending \subseteq Ends /\ late \subseteq Ends
  /\ reads \in [Ends -> 0..Loops] /\ forwards \in [Ends -> 0..Loops]
  /\ closer \in [SwitchThreads -> CloserPhases \cup HandlerPhases]
  /\ conn \in ConnPhases
  /\ owned \in BOOLEAN /\ up \in BOOLEAN /\ left \in BOOLEAN /\ outrun \in BOOLEAN

SwitchInit ==
  /\ ends = {} /\ shown = {} /\ sending = {} /\ late = {}
  /\ reads = [e \in Ends |-> 0] /\ forwards = [e \in Ends |-> 0]
  /\ closer = [t \in SwitchThreads |-> "none"]
  /\ conn = "none"
  /\ owned = FALSE /\ up = FALSE /\ left = FALSE /\ outrun = FALSE

Quiet == conn = "none" /\ \A t \in SwitchThreads : closer[t] = "none"

-----------------------------------------------------------------------------
(* Shared steps.                                                            *)

More(n) == IF n < Loops THEN n + 1 ELSE n

\* An end closes: its read is canceled, which ends the loop; its writes are too,
\* and a serial port's canceled write goes on to close the port.
Canceled(E) ==
  {e \in E : ~IsTCP(e) /\ (e \in sending \/ forwards[OtherEnd(e)] > 0)}

CloseEnds(E) ==
  /\ ends' = ends \ E
  /\ reads' = [e \in Ends |-> IF e \in E \cap ends THEN 0 ELSE reads[e]]
  /\ sending' = sending \ (E \cap ends)
  /\ late' = late \cup Canceled(E \cap ends)
  /\ outrun' = (outrun \/ ("B" \in E \cap ends /\ closer["connect"] \in OkPhases))
  /\ IF "B" \in E \cap ends
     THEN /\ up' = FALSE
          /\ conn' = IF conn = "connecting" THEN "cut" ELSE conn
     ELSE UNCHANGED <<up, conn>>

\* ReadChannelData of some ends: the read of a port or socket that is not open,
\* or not connected, fails at once.
Readable(e) == IF IsTCP(e) THEN up ELSE e \in ends

ReadFrom(E) ==
  /\ reads' = [e \in Ends |-> IF e \in E /\ Readable(e) THEN More(reads[e])
                              ELSE reads[e]]
  /\ late' = late \cup {e \in E : ~Readable(e)}

\* OnDeviceStatusChanged(Disconnected): Close of each listed end; an open one
\* that has a device closes the other as well.
Swept == IF shown \cap ends = {} THEN {} ELSE IF owned THEN Ends ELSE shown

SweepEnds ==
  /\ CloseEnds(Swept)
  /\ shown' = {}
  /\ status' = IF shown \cap ends # {} /\ owned THEN "Disconnected" ELSE status

\* StatusChanged(Disconnected) on the UI thread, which has closed E.
Disconnected(E) ==
  /\ CloseEnds(E \cup Swept)
  /\ shown' = {}
  /\ StatusChanged("Disconnected")

-----------------------------------------------------------------------------
(* The UI thread.                                                           *)

\* Open of port A, which takes a port whose m_Opened is set as it is.
OpenFirst ==
  /\ ui = "start"
  /\ ui' = "second"
  /\ ends' = ends \cup {"A"}
  /\ UNCHANGED <<class, status, button, listed, owned, shown, reads, forwards,
                 sending, late, closer, conn, up, left, outrun>>

OpenFirstFails ==
  /\ ui = "start"
  /\ ui' = "idle"
  /\ "A" \notin ends
  /\ Disconnected({})
  /\ UNCHANGED <<class, listed, owned, forwards, closer, left>>

\* ApplyConfig of port A fails: the port stays open.
ConfigFirstFails ==
  /\ ui = "second"
  /\ ui' = "idle"
  /\ left' = TRUE
  /\ Disconnected({})
  /\ UNCHANGED <<class, listed, owned, forwards, closer>>

\* ApplyConfig of port A, and Open of port B; a TCP channel that is not open
\* starts to connect instead.
OpenSecond ==
  /\ ui = "second"
  /\ ui' = "third"
  /\ ends' = ends \cup {"B"}
  /\ conn' = IF IsTCP("B") /\ "B" \notin ends THEN "resolving" ELSE conn
  /\ UNCHANGED <<class, status, button, listed, owned, shown, reads, forwards,
                 sending, late, closer, up, left, outrun>>

\* Open or ApplyConfig of port B: both are closed.
OpenSecondFails ==
  /\ ui = "second" /\ ~IsTCP("B")
  /\ ui' = "idle"
  /\ Disconnected(Ends)
  /\ UNCHANGED <<class, listed, owned, forwards, closer, left>>

\* SetTarget, Connected, and both ends listed and read: of the TCP channel too,
\* whose connect may just have begun.
ReportEnds ==
  /\ ui = "third"
  /\ ui' = "idle"
  /\ owned' = TRUE
  /\ StatusChanged("Connected")
  /\ shown' = Ends
  /\ ReadFrom(Ends)
  /\ UNCHANGED <<class, listed, ends, forwards, sending, closer, conn, up, left, outrun>>

\* Stop: both are closed; B's Close of a socket notifies on the way, which comes
\* to the same.
StopSwitch ==
  /\ ui = "idle"
  /\ status # "Disconnected"
  /\ ui' = "stop"
  /\ CloseEnds(Ends)
  /\ UNCHANGED <<class, status, button, listed, owned, shown, forwards, closer,
                 left>>

StopReports ==
  /\ ui = "stop"
  /\ ui' = "idle"
  /\ Disconnected({})
  /\ UNCHANGED <<class, listed, owned, forwards, closer, left>>

\* The close button: ChannelDisconnectedNotify on the UI thread.
ClickCloseEnd(e) ==
  /\ ui = "idle"
  /\ e \in shown \cap ends
  /\ Disconnected(Ends)
  /\ UNCHANGED <<class, ui, listed, owned, forwards, closer, left>>

SendTo(e) ==
  /\ ui = "idle"
  /\ e \in shown \cap ends
  /\ status = "Connected"
  /\ sending' = sending \cup {e}
  /\ UNCHANGED <<deviceVars, ends, owned, shown, reads, forwards, late, closer,
                 conn, up, left, outrun>>

-----------------------------------------------------------------------------
(* Completions of reads and writes.                                         *)

\* Data: written to the target, if there is one.
ReadData(e) ==
  /\ reads[e] > 0
  /\ owned
  /\ forwards[e] < Loops
  /\ reads' = [reads EXCEPT ![e] = @ - 1]
  /\ forwards' = [forwards EXCEPT ![e] = @ + 1]
  /\ UNCHANGED <<deviceVars, ends, owned, shown, sending, late, closer, conn, up,
                 left, outrun>>

\* Variant: a write that gives up does not call its handler.
ForwardGivesUp(e) ==
  /\ forwards[e] > 0
  /\ forwards' = [forwards EXCEPT ![e] = @ - 1]
  /\ UNCHANGED <<deviceVars, ends, owned, shown, reads, sending, late, closer,
                 conn, up, left, outrun>>

\* The write ended, was given up after 8192 attempts at m_Writing, or failed,
\* which closes the target: its handler says true in each case, and the end is
\* read again.
ForwardDone(e) ==
  /\ forwards[e] > 0
  /\ forwards' = [forwards EXCEPT ![e] = @ - 1]
  /\ \E failed \in SUBSET {OtherEnd(e)} :
       /\ reads' = [reads EXCEPT ![e] = IF Readable(e) THEN More(@) ELSE @]
       /\ late' = late \cup failed \cup (IF Readable(e) THEN {} ELSE {e})
  /\ UNCHANGED <<deviceVars, ends, owned, shown, sending, closer, conn, up, left, outrun>>

\* A read that fails, and is not canceled, closes its end.
ReadFails(e) ==
  /\ reads[e] > 0
  /\ reads' = [reads EXCEPT ![e] = @ - 1]
  /\ late' = late \cup {e}
  /\ UNCHANGED <<deviceVars, ends, owned, shown, forwards, sending, closer, conn,
                 up, left, outrun>>

SendDone(e) ==
  /\ e \in sending
  /\ sending' = sending \ {e}
  /\ \E failed \in SUBSET {e} : late' = late \cup failed
  /\ UNCHANGED <<deviceVars, ends, owned, shown, reads, forwards, closer, conn,
                 up, left, outrun>>

\* Variant: the device is not told.
CloseSilently(e) ==
  /\ e \in late
  /\ closer[e] = "none"
  /\ late' = late \ {e}
  /\ ends' = ends \ {e}
  /\ UNCHANGED <<deviceVars, owned, shown, reads, forwards, sending, closer, conn,
                 up, left, outrun>>

\* CloseSerialPort or CloseChannel: the compare-exchange of m_Opened decides.
\* Bound: one thread per end is in ChannelDisconnectedNotify.
CloseEnd(e) ==
  /\ e \in late
  /\ closer[e] = "none"
  /\ IF e \in ends
     THEN /\ CloseEnds({e})
          /\ closer' = [closer EXCEPT ![e] = IF owned THEN "both" ELSE "none"]
     ELSE /\ late' = late \ {e}
          /\ UNCHANGED <<ends, reads, sending, closer, conn, up, outrun>>
  /\ UNCHANGED <<deviceVars, owned, shown, forwards, left>>

-----------------------------------------------------------------------------
(* ChannelDisconnectedNotify on an io_context thread.                       *)

CloserAt(t, from, to) ==
  /\ closer[t] = from
  /\ closer' = [closer EXCEPT ![t] = to]

CloseBoth(t) ==
  /\ CloserAt(t, "both", "remove")
  /\ CloseEnds(Ends)
  /\ UNCHANGED <<deviceVars, owned, shown, forwards, left>>

RemoveEnds(t) ==
  /\ ui = "idle"
  /\ CloserAt(t, "remove", "set")
  /\ shown' = {}
  /\ UNCHANGED <<deviceVars, ends, owned, reads, forwards, sending, late, conn,
                 up, left, outrun>>

\* After the notification a failed connect goes on to call its handler.
AfterNotify(t) == IF t = "connect" THEN "failSet" ELSE "none"

SetDisconnected(t) ==
  /\ CloserAt(t, "set", IF status = "Disconnected" THEN AfterNotify(t) ELSE "tell")
  /\ status' = "Disconnected"
  /\ UNCHANGED <<class, button, ui, listed, ends, owned, shown, reads, forwards,
                 sending, late, conn, up, left, outrun>>

\* StatusChanged(s) tells the window the status it reads again: s, or the one
\* that was set since.
ShowStatus(s) ==
  /\ ui = "idle"
  /\ \E now \in {s, status} :
       /\ button' = (now \in {"Connected", "Disconnected"})
       /\ IF now = "Disconnected"
          THEN SweepEnds
          ELSE UNCHANGED <<status, ends, shown, reads, sending, late, conn, up, outrun>>
  /\ UNCHANGED <<class, ui, listed, owned, forwards, left>>

TellDisconnected(t) ==
  /\ CloserAt(t, "tell", AfterNotify(t))
  /\ ShowStatus("Disconnected")

-----------------------------------------------------------------------------
(* The TCP connect of SerialPortToTCPClient.  Bound: a start waits until the *)
(* connect of the one before is over.                                       *)

ConnAt(from, to) == conn = from /\ conn' = to

\* A failed resolve is reported without closing: m_Opened stays set.
ResolveEndFails ==
  /\ ConnAt("resolving", "none")
  /\ closer' = [closer EXCEPT !["connect"] = "failSet"]
  /\ left' = TRUE
  /\ UNCHANGED <<deviceVars, ends, owned, shown, reads, forwards, sending, late, up, outrun>>

\* async_connect opens the socket, whether or not the channel was closed since.
ResolveEndDone ==
  /\ ConnAt("resolving", "connecting")
  /\ UNCHANGED <<deviceVars, ends, owned, shown, reads, forwards, sending, late,
                 closer, up, left, outrun>>

\* A completion that the close did not reach any more succeeds all the same; a
\* channel that was closed before the connect began is open without m_Opened.
ConnectEndDone ==
  /\ \/ ConnAt("connecting", "none") /\ up' = TRUE
     \/ ConnAt("cut", "none") /\ UNCHANGED up
  /\ closer' = [closer EXCEPT !["connect"] = "okSet"]
  /\ outrun' = (outrun \/ "B" \notin ends)
  /\ UNCHANGED <<deviceVars, ends, owned, shown, reads, forwards, sending, late, left>>

\* Close() first, which tells the device if it is known, then the handler.
ConnectEndFails ==
  /\ conn \in {"connecting", "cut"}
  /\ conn' = "none"
  /\ ends' = ends \ {"B"}
  /\ reads' = [reads EXCEPT !["B"] = 0]
  /\ sending' = sending \ {"B"}
  /\ up' = FALSE
  /\ closer' = [closer EXCEPT !["connect"] =
                  IF "B" \in ends /\ owned THEN "both" ELSE "failSet"]
  /\ left' = (left \/ ("B" \in ends /\ ~owned))
  /\ UNCHANGED <<deviceVars, owned, shown, forwards, late, outrun>>

\* The handler: StatusChanged, and ChannelConnected of the channel either way.
HandlerSets ==
  /\ \/ /\ CloserAt("connect", "okSet",
                    IF status = "Connected" THEN "okAdd" ELSE "okTell")
        /\ status' = "Connected"
        /\ outrun' = (outrun \/ ends # Ends \/ \E e \in Ends : closer[e] # "none")
     \/ /\ CloserAt("connect", "failSet",
                    IF status = "Disconnected" THEN "failAdd" ELSE "failTell")
        /\ status' = "Disconnected"
        /\ UNCHANGED outrun
  /\ UNCHANGED <<class, button, ui, listed, ends, owned, shown, reads, forwards,
                 sending, late, conn, up, left>>

HandlerTells ==
  \/ CloserAt("connect", "okTell", "okAdd") /\ ShowStatus("Connected")
  \/ CloserAt("connect", "failTell", "failAdd") /\ ShowStatus("Disconnected")

HandlerLists ==
  /\ ui = "idle"
  /\ CloserAt("connect", "okAdd", "none") \/ CloserAt("connect", "failAdd", "none")
  /\ shown' = shown \cup {"B"}
  /\ ReadFrom({"B"})
  /\ owned' = TRUE
  /\ UNCHANGED <<deviceVars, ends, forwards, sending, conn, up, left, outrun>>

-----------------------------------------------------------------------------
SwitchUI ==
  \/ /\ ClickConnect
     /\ conn = "none" /\ closer["connect"] = "none"
     /\ UNCHANGED switchVars
  \/ OpenFirst \/ OpenFirstFails \/ ConfigFirstFails \/ OpenSecond
  \/ OpenSecondFails \/ ReportEnds \/ StopSwitch \/ StopReports
  \/ \E e \in Ends : ClickCloseEnd(e) \/ SendTo(e)

SwitchConnect ==
  \/ ResolveEndFails \/ ResolveEndDone \/ ConnectEndDone \/ ConnectEndFails
  \/ HandlerSets \/ HandlerTells \/ HandlerLists

SwitchNext ==
  \/ SwitchUI
  \/ SwitchConnect
  \/ \E e \in Ends :
       \/ ReadData(e) \/ ForwardDone(e) \/ ReadFails(e) \/ SendDone(e) \/ CloseEnd(e)
  \/ \E t \in SwitchThreads :
       CloseBoth(t) \/ RemoveEnds(t) \/ SetDisconnected(t) \/ TellDisconnected(t)

-----------------------------------------------------------------------------
Joined == class \in {"SerialPortSwitch", "SerialPortToTCPClient"}

\* A joining device that says Connected has both ends open, or somebody is about
\* to say otherwise, except after a Start that failed left an end open or a TCP
\* connect outran the close of its channel (SerialPort.cpp:1034, :989).
ConnectedHasEnds ==
  Joined /\ status = "Connected" /\ ui = "idle" /\ Quiet =>
    ends = Ends \/ left \/ outrun

\* Forwarding never stops silently: an open end of a connected pair has a read
\* outstanding, data on its way to the other end, or an error about to close it
\* (SerialPort.cpp:1034).
ForwardingGoesOn ==
  Joined /\ status = "Connected" /\ ui = "idle" /\ Quiet /\ ~left /\ ~outrun =>
    \A e \in Ends : reads[e] + forwards[e] > 0 \/ e \in late
===============================================================================
