---------------------------- MODULE WebSocketClient ----------------------------
(***************************************************************************)
(* The WebSocket client devices of Websocket.cpp: WebSocketSingleClient,    *)
(* whose one channel lives as long as the device, and                       *)
(* WebSocketMultipleClient, which makes new channels after each Stop.       *)
(* Start and Stop of the latter post a loop each over m_Channels to the     *)
(* io_context, and the two may run at the same time.                        *)
(*                                                                         *)
(* A channel resolves, connects, sends the upgrade request and reads the    *)
(* answer; its handler then reports to the device.  Only a failed connect   *)
(* closes the channel: after a failed resolve or handshake m_Opened stays   *)
(* set, and the next Connect of that channel is ignored.                    *)
(***************************************************************************)
EXTENDS Device

CONSTANTS
  Slots,     \* m_Channels.size() of the multiple client
  NoChannel, \* an empty slot
  Clicks     \* bound: how often the user of a multiple client clicks

ASSUME WebSocketAssumption ==
  Slots \in Nat \ {0} /\ NoChannel \notin Channels /\ Clicks \in Nat

VARIABLES
  slot,      \* m_Channels; the single client's m_Channel is slot[1]
  open,      \* the channels whose m_Opened is set
  hs,        \* per channel: where its Connect and the handler of it are
  owned,     \* the channels that know the device (SetOwner)
  io,        \* the channels with a read outstanding
  note,      \* per channel: where the report of its close is
  startAt,   \* the slot the posted loop of Start is at, 0 without one
  starting,  \* the channel that loop has in hand
  stop,      \* where the posted loop of Stop is
  stopAt,    \* ... and at which slot
  connected, \* m_ConnectConuter
  failed,    \* m_FailedConuter
  clicks,    \* how often the user of a multiple client has clicked
  orphan,    \* history: the single client's channel was closed before it knew it
  refused,   \* history: a Connect was ignored
  cut,       \* history: channels whose Connect was under way when Stop closed them
  missed     \* history: channels opened after Stop had closed them or left their slot

startVars   == <<startAt, starting>>
stopVars    == <<stop, stopAt>>
countVars   == <<connected, failed>>
loopVars    == <<startVars, stopVars, countVars>>
historyVars == <<orphan, refused, cut, missed, clicks>>
chVars == <<slot, open, hs, owned, io, note>>
wsVars == <<chVars, loopVars, historyVars>>

Single  == class = "WebSocketSingleClient"
SlotIds == 1..Slots
HsPhases == {"none", "resolving", "connecting", "handshake", "ok", "fail",
             "okTell", "failTell", "okAdd", "failAdd", "okOwn",
             "add", "addLast", "miss", "missLast",
             "last", "lastTell"}
NotePhases == {"none", "remove", "set", "tell"}

WsTypeOK ==
  /\ slot \in [SlotIds -> Channels \cup {NoChannel}]
  /\ hs \in [Channels -> HsPhases]
  /\ open \subseteq Channels /\ owned \subseteq Channels /\ io \subseteq Channels
  /\ note \in [Channels -> NotePhases]
  /\ startAt \in 0..Slots /\ starting \in Channels \cup {NoChannel}
  /\ stop \in {"none", "close", "erase", "empty", "resetConnected", "resetFailed", "set",
               "tell"}
  /\ stopAt \in 0..Slots
  /\ connected \in Nat /\ failed \in Nat /\ clicks \in 0..Clicks
  /\ cut \subseteq Channels /\ missed \subseteq Channels
  /\ orphan \in BOOLEAN /\ refused \in BOOLEAN

\* WebSocketSingleClient makes its channel when it is constructed.
WsInit ==
  /\ slot \in [SlotIds -> Channels \cup {NoChannel}]
  /\ IF Single THEN slot[1] \in Channels ELSE slot[1] = NoChannel
  /\ \A i \in SlotIds \ {1} : slot[i] = NoChannel
  /\ open = {} /\ owned = {} /\ io = {} /\ cut = {} /\ missed = {}
  /\ hs = [c \in Channels |-> "none"]
  /\ note = [c \in Channels |-> "none"]
  /\ startAt = 0 /\ starting = NoChannel
  /\ stop = "none" /\ stopAt = 0
  /\ connected = 0 /\ failed = 0 /\ clicks = 0
  /\ orphan = FALSE /\ refused = FALSE

HsAt(c, from, to) ==
  /\ hs[c] = from
  /\ hs' = [hs EXCEPT ![c] = to]

NoteAt(c, from, to) ==
  /\ note[c] = from
  /\ note' = [note EXCEPT ![c] = to]

\* Bound: the clicks of a client with several channels are counted.
Click == IF Single THEN UNCHANGED clicks ELSE clicks < Clicks /\ clicks' = clicks + 1

Busy(c) == hs[c] # "none" \/ note[c] # "none"

-----------------------------------------------------------------------------
(* What the window does.                                                    *)

\* OnDeviceStatusChanged(Disconnected) closes every listed channel; the single
\* client, if that channel was open and knows it, reports Disconnected again.
Sweep ==
  /\ open' = open \ listed
  /\ listed' = {}
  /\ status' = IF Single /\ listed \cap open \cap owned # {}
               THEN "Disconnected" ELSE status

\* StatusChanged on an io_context thread shows the status it reads again.
ShowStatus(s) ==
  /\ ui = "idle"
  /\ \E now \in {s, status} :
       /\ button' = (now \in {"Connected", "Disconnected"})
       /\ IF now = "Disconnected" THEN Sweep ELSE UNCHANGED <<status, open, listed>>
  /\ UNCHANGED <<class, ui>>

\* ChannelConnected: listed, and read.
List(c) ==
  /\ ui = "idle"
  /\ listed' = listed \cup {c}
  /\ io' = io \cup {c}
  /\ UNCHANGED <<class, status, button, ui>>

\* TryOpen: a compare-exchange of m_Opened.  Bound: Connect of a channel waits
\* for the handler of its Connect before.
TryOpen(c) ==
  IF c \in open
  THEN refused' = TRUE /\ UNCHANGED <<open, hs>>
  ELSE /\ open' = open \cup {c}
       /\ HsAt(c, "none", "resolving")
       /\ UNCHANGED refused

-----------------------------------------------------------------------------
(* Start and Stop of the single client, on the UI thread.                   *)

StartSingle ==
  /\ Single /\ ui = "start"
  /\ ui' = "idle"
  /\ TryOpen(slot[1])
  /\ UNCHANGED <<class, status, button, listed, slot, owned, io, note, loopVars,
                 orphan, cut, missed, clicks>>

\* URLParse fails: the handler is called at once, and lists the channel.
StartBadAddress ==
  /\ Single /\ ui = "start"
  /\ ui' = "idle"
  /\ StatusChanged("Disconnected")
  /\ open' = open \ listed
  /\ listed' = {slot[1]}
  /\ io' = io \cup {slot[1]}
  /\ UNCHANGED <<class, slot, hs, owned, loopVars, historyVars, note>>

\* CloseSocket() decides whether this Stop does anything.
StopSingle ==
  /\ Single /\ ui = "idle"
  /\ status # "Disconnected"
  /\ slot[1] \in open
  /\ ui' = "stop"
  /\ open' = open \ {slot[1]}
  /\ cut' = IF hs[slot[1]] = "none" THEN cut ELSE cut \cup {slot[1]}
  /\ UNCHANGED <<class, status, button, listed, slot, hs, owned, io, note,
                 loopVars, orphan, refused, missed, clicks>>

StopSingleEnds ==
  /\ Single /\ ui = "stop"
  /\ ui' = "idle"
  /\ listed' = {}
  /\ StatusChanged("Disconnected")
  /\ UNCHANGED <<class, wsVars>>

-----------------------------------------------------------------------------
(* Start and Stop of the multiple client: a loop each, posted to a thread.  *)

StartMultiple ==
  /\ ~Single /\ ui = "start"
  /\ ui' = "second"
  /\ connected' = 0
  /\ UNCHANGED <<class, status, button, listed, slot, open, hs, owned, io, note,
                 startVars, stopVars, failed, historyVars>>

StartMultiplePosts ==
  /\ ~Single /\ ui = "second"
  /\ ui' = "idle"
  /\ failed' = 0
  /\ startAt' = 1
  /\ UNCHANGED <<class, status, button, listed, slot, open, hs, owned, io, note,
                 starting, stopVars, connected, historyVars>>

NextSlot(i) == IF i = Slots THEN 0 ELSE i + 1

\* The channel of a slot; an empty one gets a new channel, which is an object
\* nothing refers to any more.
Fresh(c) ==
  /\ ~Busy(c)
  /\ c \notin open \cup listed \cup io
  /\ \A i \in SlotIds : slot[i] # c

\* The slot is filled if it is empty, and its channel copied.  A Stop that empties
\* it between the two leaves a null pointer, and the program ends: no step.
TakeSlot(c) ==
  /\ startAt # 0 /\ starting = NoChannel
  /\ starting' = c
  /\ IF slot[startAt] = NoChannel
     THEN /\ Fresh(c)
          /\ slot' = [slot EXCEPT ![startAt] = c]
          /\ owned' = owned \ {c} /\ cut' = cut \ {c} /\ missed' = missed \ {c}
     ELSE c = slot[startAt] /\ UNCHANGED <<slot, owned, cut, missed>>
  /\ UNCHANGED <<deviceVars, open, hs, io, note, startAt, stopVars, countVars,
                 orphan, refused, clicks>>

\* The loop goes on with the next slot.
StartsAtNext(c) ==
  /\ starting = c
  /\ starting' = NoChannel
  /\ startAt' = NextSlot(startAt)

\* Stop has closed this slot's channel and is about to empty the slot, or has.
BehindStop(c) ==
  slot[startAt] # c \/ (stop \in {"erase", "empty"} /\ stopAt = startAt)

ConnectChannel(c) ==
  /\ StartsAtNext(c)
  /\ TryOpen(c)
  /\ missed' = IF c \notin open /\ BehindStop(c) THEN missed \cup {c} ELSE missed
  /\ UNCHANGED <<deviceVars, slot, owned, io, note, stopVars, countVars, orphan, cut,
                 clicks>>

\* Connect calls the handler at once when URLParse fails.
ConnectBadAddress(c) ==
  /\ StartsAtNext(c)
  /\ HsAt(c, "none", "fail")
  /\ UNCHANGED <<deviceVars, slot, open, owned, io, note, stopVars, countVars,
                 historyVars>>

\* Stop: Disconnecting, and the loop.  Bound: that of the Stop before is over.
StopMultiple ==
  /\ ~Single /\ ui = "idle"
  /\ status # "Disconnected"
  /\ stop = "none"
  /\ StatusChanged("Disconnecting")
  /\ Click
  /\ stop' = "close" /\ stopAt' = 1
  /\ UNCHANGED <<class, ui, listed, slot, open, hs, owned, io, note, startVars,
                 countVars, orphan, refused, cut, missed>>

StopsAtNext ==
  /\ stop' = IF stopAt = Slots THEN "resetConnected" ELSE "close"
  /\ stopAt' = NextSlot(stopAt)

\* Variant: the channel is dropped without being closed.
DropChannel ==
  /\ stop = "close"
  /\ IF slot[stopAt] = NoChannel THEN StopsAtNext ELSE stop' = "erase" /\ UNCHANGED stopAt
  /\ UNCHANGED <<deviceVars, slot, open, hs, owned, io, note, startVars, countVars,
                 historyVars>>

CloseSlot ==
  /\ stop = "close"
  /\ IF slot[stopAt] = NoChannel
     THEN StopsAtNext /\ UNCHANGED <<open, cut>>
     ELSE /\ stop' = "erase"
          /\ open' = open \ {slot[stopAt]}
          /\ cut' = cut \cup {c \in {slot[stopAt]} : hs[c] # "none"}
          /\ UNCHANGED stopAt
  /\ UNCHANGED <<deviceVars, slot, hs, owned, io, note, startVars, countVars,
                 orphan, refused, missed, clicks>>

\* ChannelDisconnected waits for the UI thread.
EraseSlot ==
  /\ stop = "erase" /\ ui = "idle"
  /\ stop' = "empty"
  /\ listed' = listed \ {slot[stopAt]}
  /\ UNCHANGED <<class, status, button, ui, slot, open, hs, owned, io, note, startVars,
                 stopAt, countVars, historyVars>>

EmptySlot ==
  /\ stop = "empty"
  /\ StopsAtNext
  /\ slot' = [slot EXCEPT ![stopAt] = NoChannel]
  /\ UNCHANGED <<deviceVars, open, hs, owned, io, note, startVars, countVars,
                 historyVars>>

\* The counters, one after the other.
StopResets ==
  /\ \/ stop = "resetConnected" /\ stop' = "resetFailed" /\ connected' = 0 /\ UNCHANGED failed
     \/ stop = "resetFailed" /\ stop' = "set" /\ failed' = 0 /\ UNCHANGED connected
  /\ UNCHANGED <<deviceVars, slot, open, hs, owned, io, note, startVars, stopAt,
                 historyVars>>

StopLoopEnds ==
  /\ stop = "set"
  /\ stop' = IF status = "Disconnected" THEN "none" ELSE "tell"
  /\ status' = "Disconnected"
  /\ UNCHANGED <<class, button, ui, listed, slot, open, hs, owned, io, note,
                 startVars, stopAt, countVars, historyVars>>

StopLoopTells ==
  /\ stop = "tell"
  /\ stop' = "none"
  /\ ShowStatus("Disconnected")
  /\ UNCHANGED <<slot, hs, owned, io, note, startVars, stopAt, countVars, historyVars>>

-----------------------------------------------------------------------------
(* WebSocketClientChannel::Connect.                                         *)

ConnectStep(c, from, to) ==
  /\ HsAt(c, from, to)
  /\ UNCHANGED <<deviceVars, slot, open, owned, io, note, loopVars, historyVars>>

\* The resolver is not canceled by a close, and neither is a completion that
\* was queued before it.
Connects(c) ==
  \/ ConnectStep(c, "resolving", "connecting")
  \/ ConnectStep(c, "connecting", "handshake")
  \/ ConnectStep(c, "handshake", "ok")

\* A failed resolve, request or answer, or a status other than 101.
Refused(c) ==
  ConnectStep(c, "resolving", "fail") \/ ConnectStep(c, "handshake", "fail")

\* A failed connect closes the channel, and tells nobody but the handler.
ConnectFails(c) ==
  /\ HsAt(c, "connecting", "fail")
  /\ open' = open \ {c}
  /\ UNCHANGED <<deviceVars, slot, owned, io, note, loopVars, historyVars>>

-----------------------------------------------------------------------------
(* The handler of the single client: StatusChanged, ChannelConnected,       *)
(* SetOwner; a failure lists the channel as well.                           *)

SetSingle(c) ==
  /\ Single
  /\ \/ /\ HsAt(c, "ok", IF status = "Connected" THEN "okAdd" ELSE "okTell")
        /\ status' = "Connected"
     \/ /\ HsAt(c, "fail", IF status = "Disconnected" THEN "failAdd" ELSE "failTell")
        /\ status' = "Disconnected"
  /\ orphan' = (orphan \/ (hs[c] = "ok" /\ c \notin open))
  /\ UNCHANGED <<class, button, ui, listed, slot, open, owned, io, note, loopVars,
                 refused, cut, missed, clicks>>

TellSingle(c) ==
  /\ \/ HsAt(c, "okTell", "okAdd") /\ ShowStatus("Connected")
     \/ HsAt(c, "failTell", "failAdd") /\ ShowStatus("Disconnected")
  /\ UNCHANGED <<slot, owned, io, note, loopVars, historyVars>>

ListSingle(c) ==
  /\ HsAt(c, "okAdd", "okOwn") \/ HsAt(c, "failAdd", "none")
  /\ List(c)
  /\ UNCHANGED <<slot, open, owned, loopVars, historyVars, note>>

SetOwner(c) ==
  /\ HsAt(c, "okOwn", "none")
  /\ owned' = owned \cup {c}
  /\ UNCHANGED <<deviceVars, slot, open, io, loopVars, historyVars, note>>

-----------------------------------------------------------------------------
(* The handler of the multiple client.                                      *)

\* Variant: a failed channel is counted as failed only.
CountSuccesses(c) ==
  /\ ~Single
  /\ \/ /\ HsAt(c, "ok", IF connected + 1 >= Slots THEN "addLast" ELSE "add")
        /\ connected' = connected + 1
     \/ HsAt(c, "fail", "miss") /\ UNCHANGED connected
  /\ UNCHANGED <<deviceVars, slot, open, owned, io, note, startVars, stopVars, failed,
                 historyVars>>

\* ++m_ConnectConuter decides which handler reports.
CountChannel(c) ==
  /\ ~Single
  /\ \/ HsAt(c, "ok", IF connected + 1 >= Slots THEN "addLast" ELSE "add")
     \/ HsAt(c, "fail", IF connected + 1 >= Slots THEN "missLast" ELSE "miss")
  /\ connected' = connected + 1
  /\ UNCHANGED <<deviceVars, slot, open, owned, io, note, startVars, stopVars, failed,
                 historyVars>>

CountFailed(c) ==
  /\ HsAt(c, "miss", "none") \/ HsAt(c, "missLast", "last")
  /\ failed' = failed + 1
  /\ UNCHANGED <<deviceVars, slot, open, owned, io, note, startVars, stopVars, connected,
                 historyVars>>

\* SetOwner, which nobody looks at before the channel is listed, and
\* ChannelConnected.
ListMultiple(c) ==
  /\ HsAt(c, "add", "none") \/ HsAt(c, "addLast", "last")
  /\ List(c)
  /\ owned' = owned \cup {c}
  /\ UNCHANGED <<slot, open, loopVars, historyVars, note>>

SetMultiple(c) ==
  LET s == IF failed = Slots THEN "Disconnected" ELSE "Connected" IN
  /\ HsAt(c, "last", IF status = s THEN "none" ELSE "lastTell")
  /\ status' = s
  /\ UNCHANGED <<class, button, ui, listed, slot, open, owned, io, note, loopVars,
                 historyVars>>

TellMultiple(c) ==
  /\ HsAt(c, "lastTell", "none")
  /\ ShowStatus(status)
  /\ UNCHANGED <<slot, owned, io, note, loopVars, historyVars>>

-----------------------------------------------------------------------------
(* Reads and the close button.                                              *)

\* A read that ends, canceled or not, closes the channel; an open channel that
\* knows the device tells it.  A failed write comes to the same.  Bound: this
\* waits for the report of the channel's close before.
IoFails(c) ==
  /\ c \in io
  /\ io' = io \ {c}
  /\ IF c \in open \cap owned THEN NoteAt(c, "none", "remove") ELSE UNCHANGED note
  /\ open' = open \ {c}
  /\ orphan' = (orphan \/ (Single /\ c \in open \ owned))
  /\ UNCHANGED <<deviceVars, slot, hs, owned, loopVars, refused, cut, missed,
                 clicks>>

\* NotifyChannelClose: ChannelDisconnected, and of a single client Disconnected.
NotifyRemove(c) ==
  /\ ui = "idle"
  /\ NoteAt(c, "remove", IF Single THEN "set" ELSE "none")
  /\ listed' = listed \ {c}
  /\ UNCHANGED <<class, status, button, ui, slot, open, hs, owned, io, loopVars,
                 historyVars>>

\* Variant: the single client's status is left as it is.
NotifyNoStatus(c) ==
  /\ NoteAt(c, "set", "none")
  /\ UNCHANGED <<deviceVars, slot, open, hs, owned, io, loopVars, historyVars>>

NotifyStatus(c) ==
  /\ NoteAt(c, "set", IF status = "Disconnected" THEN "none" ELSE "tell")
  /\ status' = "Disconnected"
  /\ UNCHANGED <<class, button, ui, listed, slot, open, hs, owned, io, loopVars,
                 historyVars>>

NotifyTells(c) ==
  /\ NoteAt(c, "tell", "none")
  /\ ShowStatus("Disconnected")
  /\ UNCHANGED <<slot, hs, owned, io, loopVars, historyVars>>

\* The close button, of a client with several channels.
ClickClose(c) ==
  /\ ~Single /\ ui = "idle"
  /\ c \in listed \cap open
  /\ Click
  /\ open' = open \ {c}
  /\ listed' = IF c \in owned THEN listed \ {c} ELSE listed
  /\ UNCHANGED <<class, status, button, ui, slot, hs, owned, io, note, loopVars,
                 orphan, refused, cut, missed>>

-----------------------------------------------------------------------------
\* Bound: a start waits for the loop of the start before it.
WsClickConnect ==
  /\ ClickConnect
  /\ startAt = 0
  /\ Single => hs[slot[1]] = "none"
  /\ Click
  /\ UNCHANGED <<chVars, loopVars, orphan, refused, cut, missed>>

WsDevice ==
  \/ WsClickConnect \/ StartSingle \/ StartBadAddress \/ StopSingle \/ StopSingleEnds
  \/ StartMultiple \/ StartMultiplePosts \/ StopMultiple
  \/ CloseSlot \/ EraseSlot \/ EmptySlot \/ StopResets \/ StopLoopEnds \/ StopLoopTells

WsChannel(c) ==
  \/ Connects(c) \/ Refused(c) \/ ConnectFails(c)
  \/ SetSingle(c) \/ TellSingle(c) \/ ListSingle(c) \/ SetOwner(c)
  \/ CountChannel(c) \/ CountFailed(c) \/ ListMultiple(c)
  \/ SetMultiple(c) \/ TellMultiple(c)
  \/ TakeSlot(c) \/ ConnectChannel(c) \/ ConnectBadAddress(c) \/ ClickClose(c) \/ IoFails(c)
  \/ NotifyRemove(c) \/ NotifyStatus(c) \/ NotifyTells(c)

Init == DeviceInit /\ WsInit
Next == WsDevice \/ \E c \in Channels : WsChannel(c)
Spec == Init /\ [][Next]_<<deviceVars, wsVars>>

-----------------------------------------------------------------------------
TypeOK == DeviceTypeOK /\ WsTypeOK

\* A single client that is not Disconnected can be stopped: its channel is open,
\* which is what Stop looks at, or a thread is about to report; except after the
\* channel was closed before it knew its device (Websocket.cpp:1114).
CanBeStopped ==
  Single /\ status # "Disconnected" /\ ui = "idle" /\ ~Busy(slot[1]) =>
    orphan \/ slot[1] \in open

\* A multiple client does not stay Connecting once its loops and its handlers are
\* done, unless a Connect was ignored because the channel of an earlier start was
\* still open (Websocket.cpp:1210).
ConnectingIsDecided ==
  ~Single /\ status = "Connecting" /\ ui = "idle" /\ startAt = 0 /\ stop \in {"none", "tell"} =>
    refused \/ \E c \in Channels : hs[c] # "none"

\* After Stop no channel of a multiple client has m_Opened set, and none is listed
\* but those whose connect was under way when Stop closed them; except the channels
\* that the loop of Start opened behind that of Stop, which go on without a slot
\* (Websocket.cpp:1199, 1252).
NothingSurvivesStop ==
  ~Single /\ status = "Disconnected" /\ ui = "idle" /\ startAt = 0 /\
  (\A i \in SlotIds : slot[i] = NoChannel) =>
    open \subseteq missed /\ listed \subseteq cut \cup missed
===============================================================================
