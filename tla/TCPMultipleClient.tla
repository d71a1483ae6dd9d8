--------------------------- MODULE TCPMultipleClient ---------------------------
(***************************************************************************)
(* The TCP client with many connections: TCPMultipleClient and its          *)
(* TCPClientChannels (TCPClient.cpp), with the status handler and the       *)
(* channel handlers of the dialog (NetDebuggerDlg.cpp).                     *)
(*                                                                         *)
(* Start and Stop run on the UI thread and post a task each to the          *)
(* io_context, whose threads run the two tasks, the completions of the      *)
(* connects and the read loops at the same time.  The completions share two *)
(* atomic counters and the last to count reports the device's status.       *)
(*                                                                         *)
(* An attempt is one TCPClientChannel::Connect that got past m_Opened; a    *)
(* channel object is named by its first attempt.                            *)
(***************************************************************************)
EXTENDS Naturals, Sequences, FiniteSets

CONSTANTS
  Canons,    \* the values the user gives to CanonsCount
  Attempts,  \* attempts the run may make
  None       \* the null pointer

ASSUME ClientAssumption ==
  /\ Canons \subseteq Nat
  /\ None \notin Attempts

VARIABLES
  status,    \* CommunicationDevice::m_Status
  shown,     \* the status the window displays; it decides the buttons
  ui,        \* where the UI thread is inside Start
  start,     \* the slot the task of Start connects next, 0 when it is over
  stop,      \* where the task of Stop is
  stopAt,    \* ... and at which slot
  slot,      \* m_Channels, as a sequence
  opened,    \* per channel: m_Opened
  sock,      \* per channel: m_Socket is open
  chain,     \* per attempt: where its resolve, connect and completion are
  ch,        \* per attempt: its channel
  rep,       \* per attempt: its report, due when it found that all had completed
  rd,        \* per attempt: its read loop
  listed,    \* channels in m_ChannelsMap
  connects,  \* m_ConnectConuter
  fails,     \* m_FailedConuter
  cur,       \* history: the attempts since the counters were reset
  cutShort,  \* history: a Stop came while the session was still connecting
  refused,   \* history: a Connect was refused because m_Opened was still set
  raced      \* history: a report was made between the two counts of another attempt

winVars  == <<shown, ui>>
taskVars == <<start, stop, stopAt, slot>>
chVars   == <<opened, sock>>
runVars  == <<chain, ch, rep, rd>>
cntVars  == <<connects, fails, cur>>
histVars == <<cutShort, refused, raced>>
vars     == <<status, winVars, taskVars, chVars, runVars, listed, cntVars, histVars>>

N == Len(slot)

Statuses == {"Disconnected", "Connecting", "Connected", "Disconnecting"}
Phases   == {"idle", "resolving", "connecting", "okCount", "okAdd", "failCount",
             "failAgain", "ok", "failed"}
Reports  == {"none", "due", "tellConnected", "tellDisconnected", "made"}

TypeOK ==
  /\ status \in Statuses /\ shown \in Statuses
  /\ ui \in {"idle", "resetConnects", "resetFails"}
  /\ start \in 0..N
  /\ stop \in {"none", "close", "erase", "resetConnects", "resetFails", "set", "tell"}
  /\ stopAt \in 0..N
  /\ slot \in Seq(Attempts \cup {None})
  /\ opened \in [Attempts -> BOOLEAN] /\ sock \in [Attempts -> BOOLEAN]
  /\ chain \in [Attempts -> Phases]
  /\ ch \in [Attempts -> Attempts \cup {None}]
  /\ rep \in [Attempts -> Reports]
  /\ rd \in [Attempts -> {"none", "pending", "notify"}]
  /\ listed \in SUBSET Attempts
  /\ connects \in Nat /\ fails \in Nat
  /\ cur \in SUBSET Attempts
  /\ cutShort \in BOOLEAN /\ refused \in BOOLEAN /\ raced \in BOOLEAN

Init ==
  /\ status = "Disconnected" /\ shown = "Disconnected"
  /\ ui = "idle"
  /\ start = 0 /\ stop = "none" /\ stopAt = 0
  /\ slot = <<>>
  /\ opened = [a \in Attempts |-> FALSE]
  /\ sock = [a \in Attempts |-> FALSE]
  /\ chain = [a \in Attempts |-> "idle"]
  /\ ch = [a \in Attempts |-> None]
  /\ rep = [a \in Attempts |-> "none"]
  /\ rd = [a \in Attempts |-> "none"]
  /\ listed = {}
  /\ connects = 0 /\ fails = 0
  /\ cur = {}
  /\ cutShort = FALSE /\ refused = FALSE /\ raced = FALSE

InFlight(a) ==
  chain[a] \notin {"idle", "ok", "failed"} \/ rep[a] \notin {"none", "made"}
Connecting  == start # 0 \/ \E a \in Attempts : InFlight(a)

-----------------------------------------------------------------------------
(* TCPClientChannel::CloseSocket and the window's handlers.                 *)

Closed(c) == ~opened[c]

CloseSocket(c) ==
  /\ opened[c]
  /\ opened' = [opened EXCEPT ![c] = FALSE]
  /\ sock' = [sock EXCEPT ![c] = FALSE]

\* OnDeviceStatusChanged: Disconnected closes every listed channel.
OnDeviceStatusChanged(s) ==
  /\ shown' = s
  /\ IF s = "Disconnected"
     THEN /\ opened' = [c \in Attempts |-> opened[c] /\ c \notin listed]
          /\ sock' = [c \in Attempts |-> sock[c] /\ ~(c \in listed /\ opened[c])]
          /\ listed' = {}
     ELSE UNCHANGED <<chVars, listed>>

-----------------------------------------------------------------------------
(* The UI thread.                                                           *)

\* UpdateCanonsCount, from the property panel of a device that is not started.
\* Bound: no task runs and no completion is between its count and its report.
SetCanonsCount(n) ==
  /\ ui = "idle" /\ status = "Disconnected"
  /\ start = 0 /\ stop = "none"
  /\ \A a \in Attempts : rep[a] # "due"
  /\ slot' = [i \in 1..n |-> IF i <= N THEN slot[i] ELSE None]
  /\ UNCHANGED <<status, winVars, start, stop, stopAt, chVars, runVars, listed, cntVars,
                 histVars>>

\* Start: StatusChanged(Connecting), then the two resets.
\* Bounds: as many attempts are left as there are slots, and the task of an
\* earlier Start is over.
ClickConnect ==
  /\ ui = "idle" /\ shown \in {"Disconnected", "Connected"}
  /\ status = "Disconnected"
  /\ start = 0
  /\ Cardinality({a \in Attempts : chain[a] = "idle"}) >= N
  /\ status' = "Connecting" /\ shown' = "Connecting"
  /\ ui' = "resetConnects"
  /\ UNCHANGED <<taskVars, chVars, runVars, listed, cntVars, histVars>>

StartResetConnects ==
  /\ ui = "resetConnects"
  /\ ui' = "resetFails"
  /\ connects' = 0
  /\ cur' = {}
  /\ UNCHANGED <<status, shown, taskVars, chVars, runVars, listed, fails, histVars>>

\* ... and the post of the task.
StartResetFails ==
  /\ ui = "resetFails"
  /\ ui' = "idle"
  /\ fails' = 0
  /\ start' = IF N = 0 THEN 0 ELSE 1
  /\ UNCHANGED <<status, shown, stop, stopAt, slot, chVars, runVars, listed, connects, cur,
                 histVars>>

\* Stop, from the button or from closing the "connecting" pop-up:
\* StatusChanged(Disconnecting) and the post.
\* Bound: the task of an earlier Stop is over.
ClickStop ==
  /\ ui = "idle" /\ shown \in {"Connected", "Disconnected", "Connecting"}
  /\ status \notin {"Disconnected", "Disconnecting"}
  /\ stop = "none"
  /\ status' = "Disconnecting" /\ shown' = "Disconnecting"
  /\ stop' = IF N = 0 THEN "resetConnects" ELSE "close"
  /\ stopAt' = IF N = 0 THEN 0 ELSE 1
  /\ cutShort' = (cutShort \/ Connecting)
  /\ UNCHANGED <<ui, start, slot, chVars, runVars, listed, cntVars, refused, raced>>

-----------------------------------------------------------------------------
(* The task of Start.                                                       *)

After(i) == IF i = N THEN 0 ELSE i + 1

\* ConnectChannel for the slot, with a new channel where it has none.
StartSlot(a) ==
  /\ start # 0
  /\ chain[a] = "idle"
  /\ LET c == IF slot[start] = None THEN a ELSE slot[start] IN
     /\ Closed(c)
     /\ slot' = [slot EXCEPT ![start] = c]
     /\ opened' = [opened EXCEPT ![c] = TRUE]
     /\ ch' = [ch EXCEPT ![a] = c]
  /\ chain' = [chain EXCEPT ![a] = "resolving"]
  /\ cur' = cur \cup {a}
  /\ start' = After(start)
  /\ UNCHANGED <<status, winVars, stop, stopAt, sock, rep, rd, listed, connects, fails, histVars>>

\* Connect is refused: the channel is still open, or its host did not resolve.
StartRefused ==
  /\ start # 0
  /\ slot[start] # None /\ opened[slot[start]]
  /\ start' = After(start)
  /\ refused' = TRUE
  /\ UNCHANGED <<status, winVars, stop, stopAt, slot, chVars, runVars, listed, cntVars,
                 cutShort, raced>>

-----------------------------------------------------------------------------
(* The task of Stop.                                                        *)

\* Variant: the slots are emptied and their sockets left open.
StopSlotOpen ==
  /\ stop = "close"
  /\ IF slot[stopAt] = None
     THEN /\ stop' = IF stopAt = N THEN "resetConnects" ELSE "close"
          /\ stopAt' = After(stopAt)
     ELSE stop' = "erase" /\ UNCHANGED stopAt
  /\ UNCHANGED <<status, winVars, start, slot, chVars, runVars, listed, cntVars, histVars>>

StopSlot ==
  /\ stop = "close"
  /\ IF slot[stopAt] = None
     THEN /\ stop' = IF stopAt = N THEN "resetConnects" ELSE "close"
          /\ stopAt' = After(stopAt)
          /\ UNCHANGED chVars
     ELSE /\ stop' = "erase"
          /\ UNCHANGED stopAt
          /\ CloseSocket(slot[stopAt]) \/ (Closed(slot[stopAt]) /\ UNCHANGED chVars)
  /\ UNCHANGED <<status, winVars, start, slot, runVars, listed, cntVars, histVars>>

\* ChannelDisconnected waits for the UI thread.
StopErase ==
  /\ stop = "erase" /\ ui = "idle"
  /\ listed' = listed \ {slot[stopAt]}
  /\ slot' = [slot EXCEPT ![stopAt] = None]
  /\ stop' = IF stopAt = N THEN "resetConnects" ELSE "close"
  /\ stopAt' = After(stopAt)
  /\ UNCHANGED <<status, winVars, start, chVars, runVars, cntVars, histVars>>

StopResetConnects ==
  /\ stop = "resetConnects"
  /\ stop' = "resetFails"
  /\ connects' = 0
  /\ cur' = {}
  /\ UNCHANGED <<status, winVars, start, stopAt, slot, chVars, runVars, listed, fails, histVars>>

StopResetFails ==
  /\ stop = "resetFails"
  /\ stop' = "set"
  /\ fails' = 0
  /\ UNCHANGED <<status, winVars, start, stopAt, slot, chVars, runVars, listed, connects, cur, histVars>>

\* StatusChanged(Disconnected), which calls the window if that is a change.
StopSetStatus ==
  /\ stop = "set"
  /\ status' = "Disconnected"
  /\ stop' = IF status = "Disconnected" THEN "none" ELSE "tell"
  /\ UNCHANGED <<winVars, start, stopAt, slot, chVars, runVars, listed, cntVars, histVars>>

\* m_Status is read again for the call, at once or later.
StopTell ==
  /\ stop = "tell" /\ ui = "idle"
  /\ stop' = "none"
  /\ \E s \in {"Disconnected", status} : OnDeviceStatusChanged(s)
  /\ UNCHANGED <<status, ui, start, stopAt, slot, runVars, cntVars, histVars>>

-----------------------------------------------------------------------------
(* The completion of an attempt.                                            *)

Go(a, from, to) ==
  /\ chain[a] = from
  /\ chain' = [chain EXCEPT ![a] = to]

\* Variant: the completion is not called when the host does not resolve.
ResolveFailsSilently(a) ==
  /\ Go(a, "resolving", "failed")
  /\ UNCHANGED <<status, winVars, taskVars, chVars, ch, rep, rd, listed, cntVars, histVars>>

\* m_Opened stays set when the host does not resolve.
ResolveFails(a) ==
  /\ Go(a, "resolving", "failCount")
  /\ UNCHANGED <<status, winVars, taskVars, chVars, ch, rep, rd, listed, cntVars, histVars>>

ResolveDone(a) ==
  /\ Go(a, "resolving", "connecting")
  /\ sock' = [sock EXCEPT ![ch[a]] = TRUE]
  /\ UNCHANGED <<status, winVars, taskVars, opened, ch, rep, rd, listed, cntVars, histVars>>

ConnectDone(a) ==
  /\ Go(a, "connecting", "okCount")
  /\ sock[ch[a]]
  /\ UNCHANGED <<status, winVars, taskVars, chVars, ch, rep, rd, listed, cntVars, histVars>>

ConnectFails(a) ==
  /\ Go(a, "connecting", "failCount")
  /\ CloseSocket(ch[a]) \/ (Closed(ch[a]) /\ UNCHANGED chVars)
  /\ UNCHANGED <<status, winVars, taskVars, ch, rep, rd, listed, cntVars, histVars>>

\* ++m_ConnectConuter >= count, one atomic step.
CountConnect(a) ==
  /\ Go(a, "okCount", "okAdd") \/ Go(a, "failCount", "failAgain")
  /\ connects' = connects + 1
  /\ rep' = [rep EXCEPT ![a] = IF connects + 1 >= N THEN "due" ELSE "none"]
  /\ UNCHANGED <<status, winVars, taskVars, chVars, ch, rd, listed, fails, cur, histVars>>

\* Variant: m_FailedConuter is not counted up.
CountFailNot(a) ==
  /\ Go(a, "failAgain", "failed")
  /\ UNCHANGED <<status, winVars, taskVars, chVars, ch, rep, rd, listed, cntVars, histVars>>

CountFail(a) ==
  /\ Go(a, "failAgain", "failed")
  /\ fails' = fails + 1
  /\ UNCHANGED <<status, winVars, taskVars, chVars, ch, rep, rd, listed, connects, cur, histVars>>

\* SetOwner and ChannelConnected: the channel is listed and read.
AddChannel(a) ==
  /\ ui = "idle"
  /\ Go(a, "okAdd", "ok")
  /\ listed' = listed \cup {ch[a]}
  /\ rd' = [rd EXCEPT ![a] = "pending"]
  /\ UNCHANGED <<status, winVars, taskVars, chVars, ch, rep, cntVars, histVars>>

\* The last completion reports what it finds in the counters.
Report(a) ==
  /\ rep[a] = "due" /\ chain[a] \in {"ok", "failed"}
  /\ raced' = (raced \/ \E b \in Attempts : chain[b] = "failAgain")
  /\ LET s == IF fails = N THEN "Disconnected" ELSE "Connected" IN
     /\ status' = s
     /\ rep' = [rep EXCEPT ![a] = IF status = s THEN "made"
                                 ELSE IF fails = N THEN "tellDisconnected"
                                 ELSE "tellConnected"]
  /\ UNCHANGED <<winVars, taskVars, chVars, chain, ch, rd, listed, cntVars, cutShort, refused>>

TellWindow(a) ==
  /\ ui = "idle"
  /\ \/ /\ rep[a] = "tellConnected"
        /\ \E s \in {"Connected", status} : OnDeviceStatusChanged(s)
     \/ /\ rep[a] = "tellDisconnected"
        /\ \E s \in {"Disconnected", status} : OnDeviceStatusChanged(s)
  /\ rep' = [rep EXCEPT ![a] = "made"]
  /\ UNCHANGED <<status, ui, taskVars, chain, ch, rd, cntVars, histVars>>

-----------------------------------------------------------------------------
(* The read loop of a listed channel.                                       *)

\* Data and the next read change nothing.  An error ends the loop; only the
\* one that closes the socket notifies the device.
ReadFails(a) ==
  /\ rd[a] = "pending"
  /\ \/ CloseSocket(ch[a]) /\ rd' = [rd EXCEPT ![a] = "notify"]
     \/ Closed(ch[a]) /\ UNCHANGED chVars /\ rd' = [rd EXCEPT ![a] = "none"]
  /\ UNCHANGED <<status, winVars, taskVars, chain, ch, rep, listed, cntVars, histVars>>

NotifyChannelClose(a) ==
  /\ rd[a] = "notify" /\ ui = "idle"
  /\ rd' = [rd EXCEPT ![a] = "none"]
  /\ listed' = listed \ {ch[a]}
  /\ UNCHANGED <<status, winVars, taskVars, chVars, chain, ch, rep, cntVars, histVars>>

\* The close button of the channel list.
ClickClose(c) ==
  /\ ui = "idle" /\ shown = "Connected"
  /\ c \in listed
  /\ CloseSocket(c)
  /\ listed' = listed \ {c}
  /\ UNCHANGED <<status, winVars, taskVars, runVars, cntVars, histVars>>

-----------------------------------------------------------------------------

UIThread ==
  \/ \E n \in Canons : SetCanonsCount(n)
  \/ ClickConnect \/ StartResetConnects \/ StartResetFails \/ ClickStop

StartTask == StartRefused \/ \E a \in Attempts : StartSlot(a)

StopTask ==
  \/ StopSlot \/ StopErase \/ StopResetConnects \/ StopResetFails
  \/ StopSetStatus \/ StopTell

Completion(a) ==
  \/ ResolveFails(a) \/ ResolveDone(a) \/ ConnectDone(a) \/ ConnectFails(a)
  \/ CountConnect(a) \/ CountFail(a) \/ AddChannel(a) \/ Report(a) \/ TellWindow(a)

Next ==
  \/ UIThread \/ StartTask \/ StopTask
  \/ \E a \in Attempts : Completion(a) \/ ReadFails(a) \/ NotifyChannelClose(a)
                        \/ ClickClose(a)

Spec == Init /\ [][Next]_vars

-----------------------------------------------------------------------------
(* Properties.                                                              *)

Counted(a) == chain[a] \in {"okAdd", "failAgain", "ok", "failed"}

\* As long as no Stop cuts a session short, the two counters are exact, however
\* the completions interleave: "Connections" shows attempts less failures.
CountersAgree ==
  ~cutShort /\ ui = "idle" /\ stop = "none" =>
    /\ connects = Cardinality({a \in cur : Counted(a)})
    /\ fails = Cardinality({a \in cur : chain[a] = "failed"})

\* ... and the session is reported at most once.
ReportedOnce ==
  ~cutShort => Cardinality({a \in cur : rep[a] # "none"}) <= 1

\* A device says Connected with no attempt that succeeded only if the last
\* completion reported between the two counts of another, or after a Stop that
\* cut the session short.
ConnectedHasChannel ==
  status = "Connected" /\ ~cutShort =>
    raced \/ \E a \in cur : chain[a] \in {"okAdd", "ok"}

\* All of a session hangs on the two counters, which the completions of any thread
\* count up: exact, they decide the one report, and that one says what is true.
SessionIsCounted == TypeOK /\ CountersAgree /\ ReportedOnce /\ ConnectedHasChannel

\* Nobody has anything left to do.
Quiet ==
  /\ ui = "idle" /\ start = 0 /\ stop = "none"
  /\ \A a \in Attempts : ~InFlight(a) /\ rd[a] # "notify"

\* A Stop that did not cut a session short leaves nothing open, and whatever
\* closes a channel, it leaves the list.
NothingSurvivesStop ==
  Quiet /\ ~cutShort =>
    /\ status = "Disconnected" => \A c \in Attempts : ~sock[c]
    /\ \A c \in listed : opened[c]

\* "Connecting" ends by itself: when every thread is done the device is no
\* longer connecting, also after a Stop and a new Start, unless it has no slot
\* or a Connect was refused (m_Opened is still set after a resolve that failed,
\* and m_ConnectConuter never reaches the number of slots).
ConnectingEnds ==
  Quiet /\ status = "Connecting" => N = 0 \/ refused

=============================================================================
