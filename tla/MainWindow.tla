------------------------------ MODULE MainWindow ------------------------------
(***************************************************************************)
(* The main window following the status of its device (NetDebuggerDlg.cpp, *)
(* OnDeviceStatusChanged), step by step.  The handler runs on the thread    *)
(* that changed the status: the UI thread inside Start, Stop and the combo  *)
(* box, an io_context thread otherwise; several may be inside it at once,   *)
(* and share m_ConnectStatusPop.  A call into a control from an io thread   *)
(* waits until the UI thread is idle.                                       *)
(*                                                                         *)
(* Of a device there is left what the window sees: "one" is a device of one *)
(* channel (TCPSingleClient), which Stop closes on the spot and whose loss  *)
(* ends it; "many" is one of many (TCPMultipleClient), whose Stop reports   *)
(* Disconnecting and leaves the rest to an io thread.                       *)
(***************************************************************************)
EXTENDS PopWindow, FiniteSets

CONSTANTS
  Devices,  \* 1..n: the devices the combo box makes, one after the other
  Threads,  \* the threads of io_context::run
  UI,       \* the UI thread
  Starts    \* bound: how often the user starts a device

ASSUME WindowAssumption ==
  /\ 1 \in Devices /\ Devices \subseteq Nat /\ UI \notin Threads
  /\ Looks = [what : {"connecting", "closing", "error", "saving", "saved"}, device : Devices]

VARIABLES
  current,  \* m_CDevice
  kind,     \* "one" or "many"
  status,   \* m_Status of each device
  opened,   \* of "one": the channel is open
  work,     \* what each device has an io thread do yet
  pc,       \* where each thread is in OnDeviceStatusChanged
  of,       \* the device it is about
  arg,      \* its status argument
  made,     \* the pop-up it has shown and not yet stored
  then,     \* what the thread does after the handler
  pop,      \* m_ConnectStatusPop
  listed,   \* m_ChannelsMap has the channel of the current "one"
  combo,    \* the box that exchanges the device is enabled
  button,   \* IDC_BUTTON_CONNECT is enabled
  panel,    \* m_DevicePropertyPanel shows a started device
  closed,   \* m_Closed
  closing,  \* how far OnClose has come
  saving,   \* the pop-up of SaveReadHistory while the file is written
  starts,   \* bound: the starts so far
  missed,   \* history: a Close missed its pop-up
  vain      \* history: the Stop of OnClose had nothing to do

deviceVars  == <<current, kind, status, opened, work>>
handlerVars == <<pc, of, arg, made, then>>
shownVars   == <<pop, listed, combo, button, panel, starts>>
closingVars == <<closed, closing, saving, vain>>
windowVars  == <<popVars, deviceVars, handlerVars, shownVars, closingVars, missed>>

Statuses == {"Disconnected", "Connecting", "Connected", "Disconnecting"}
Actors   == Threads \cup {UI}

MainWindowTypeOK ==
  /\ PopWindowTypeOK
  /\ current \in Devices
  /\ kind \in [Devices -> {"one", "many"}]
  /\ status \in [Devices -> Statuses]
  /\ opened \in [Devices -> BOOLEAN]
  /\ work \in [Devices -> SUBSET {"connect", "loss", "stop"}]
  /\ pc \in [Actors -> {"idle", "read", "pop", "assign", "controls", "sweep",
                        "nested", "panel", "then", "spin"}]
  /\ of \in [Actors -> Devices]
  /\ arg \in [Actors -> Statuses]
  /\ made \in [Actors -> WindowIds \cup {NoWindow}]
  /\ then \in [Actors -> {"nothing", "connect", "stop", "list"}]
  /\ pop \in WindowIds \cup {NoWindow}
  /\ listed \in BOOLEAN
  /\ combo \in BOOLEAN
  /\ button \in BOOLEAN
  /\ panel \in BOOLEAN
  /\ closed \in BOOLEAN
  /\ closing \in {"no", "asking", "waiting", "over"}
  /\ saving \in WindowIds \cup {NoWindow}
  /\ starts \in 0..Starts
  /\ missed \in BOOLEAN
  /\ vain \in BOOLEAN

WindowInit ==
  /\ PopWindowInit
  /\ current = 1
  /\ kind \in [Devices -> {"one", "many"}]
  /\ \A g \in Devices : g # 1 => kind[g] # kind[g - 1]
  /\ status = [g \in Devices |-> "Disconnected"]
  /\ opened = [g \in Devices |-> FALSE]
  /\ work = [g \in Devices |-> {}]
  /\ pc = [a \in Actors |-> "idle"]
  /\ of = [a \in Actors |-> 1]
  /\ arg = [a \in Actors |-> "Disconnected"]
  /\ made = [a \in Actors |-> NoWindow]
  /\ then = [a \in Actors |-> "nothing"]
  /\ pop = NoWindow
  /\ listed = FALSE
  /\ combo = TRUE
  /\ button = TRUE
  /\ panel = FALSE
  /\ closed = TRUE
  /\ closing = "no"
  /\ saving = NoWindow
  /\ starts = 0
  /\ missed = FALSE
  /\ vain = FALSE

Started(g) == status[g] # "Disconnected"

\* The UI thread takes messages; the box of OnClose takes them as well.
UIIdle == pc[UI] = "idle" /\ closing # "over"

\* Input and timers come after the messages that were posted.
UIInput == UIIdle /\ posted = <<>>

\* A step of the handler that calls into a control.
UIServes(a) == a = UI \/ UIIdle

\* The identifiers for the next pop-up.
FreshId == NewWindowId({pop, saving} \cup {made[a] : a \in Actors})

Look(what) == [what |-> what, device |-> current]

-----------------------------------------------------------------------------
(* OnDeviceStatusChanged.                                                   *)

After(a) == IF then[a] = "nothing" THEN "idle" ELSE "then"

\* CommunicationDevice::StatusChanged of device g, on the idle thread a, which
\* goes on with next.
StatusChanged(a, g, s, next) ==
  /\ status' = [status EXCEPT ![g] = s]
  /\ of' = [of EXCEPT ![a] = g]
  /\ then' = [then EXCEPT ![a] = next]
  /\ pc' = [pc EXCEPT ![a] = IF status[g] # s THEN "read"
                             ELSE IF next = "nothing" THEN "idle" ELSE "then"]
  /\ UNCHANGED <<arg, made>>

\* m_Status is read again for the handler's argument.
ReadStatus(a) ==
  /\ pc[a] = "read"
  /\ arg' = [arg EXCEPT ![a] = status[of[a]]]
  /\ pc' = [pc EXCEPT ![a] = "pop"]
  /\ UNCHANGED <<popVars, deviceVars, of, made, then, shownVars, closingVars, missed>>

\* Connecting, Disconnecting: the pop-up, whose identifier is stored later.
ShowPop(a) ==
  /\ pc[a] = "pop" /\ arg[a] \in {"Connecting", "Disconnecting"}
  /\ \E id \in FreshId :
       /\ Show(id, Look(IF arg[a] = "Connecting" THEN "connecting" ELSE "closing"), FALSE)
       /\ made' = [made EXCEPT ![a] = id]
  /\ pc' = [pc EXCEPT ![a] = "assign"]
  /\ UNCHANGED <<deviceVars, of, arg, then, shownVars, closingVars, missed>>

\* A pop-up that is there, or will be, and has not been told to close.
Open(id) ==
  /\ id # NoWindow
  /\ map[id] # Free
  /\ \A k \in DOMAIN posted : posted[k].msg = "delete" => posted[k].id # id

AssignPop(a) ==
  /\ pc[a] = "assign"
  /\ pop' = made[a]
  /\ made' = [made EXCEPT ![a] = NoWindow]
  /\ missed' = (missed \/ Open(pop))
  /\ pc' = [pc EXCEPT ![a] = "controls"]
  /\ UNCHANGED <<popVars, deviceVars, of, arg, then, listed, combo, button, panel, starts,
                 closingVars>>

Showing(b) == pc[b] \in {"pop", "assign"} /\ arg[b] \in {"Connecting", "Disconnecting"}

\* Variant: only Disconnected closes the pop-up.
ClosePopAtEnd(a) ==
  /\ pc[a] = "pop" /\ arg[a] \in {"Connected", "Disconnected"}
  /\ IF arg[a] = "Disconnected" THEN Close(pop) ELSE UNCHANGED popVars
  /\ missed' = (missed \/ \E b \in Actors \ {a} : Showing(b))
  /\ pc' = [pc EXCEPT ![a] = "controls"]
  /\ UNCHANGED <<deviceVars, of, arg, made, then, shownVars, closingVars>>

\* Connected, Disconnected: PopWindow::Close(m_ConnectStatusPop).  (The pop-up
\* that tells of an error stands alone, and is left out.)
ClosePop(a) ==
  /\ pc[a] = "pop" /\ arg[a] \in {"Connected", "Disconnected"}
  /\ Close(pop)
  /\ missed' = (missed \/ \E b \in Actors \ {a} : Showing(b))
  /\ pc' = [pc EXCEPT ![a] = "controls"]
  /\ UNCHANGED <<deviceVars, of, arg, made, then, shownVars, closingVars>>

\* The controls, taken as one.
SetControls(a) ==
  /\ pc[a] = "controls" /\ UIServes(a)
  /\ combo' = (arg[a] = "Disconnected")
  /\ button' = (arg[a] \in {"Connected", "Disconnected"})
  /\ pc' = [pc EXCEPT ![a] = IF arg[a] = "Disconnected" THEN "sweep" ELSE "panel"]
  /\ UNCHANGED <<popVars, deviceVars, of, arg, made, then, pop, listed, panel, starts,
                 closingVars, missed>>

\* The task closes every listed channel, and m_Closed is set.  Closing the channel of a "one" that
\* was started again meanwhile ends it, and the handler runs within the task.
SweepTask(a) ==
  /\ pc[a] = "sweep" /\ UIServes(a)
  /\ listed' = FALSE
  /\ \/ /\ a # UI /\ listed /\ opened[current] /\ Started(current)
        /\ opened' = [opened EXCEPT ![current] = FALSE]
        /\ work' = [work EXCEPT ![current] = @ \ {"loss"}]
        /\ status' = [status EXCEPT ![current] = "Disconnected"]
        /\ pc' = [pc EXCEPT ![a] = "nested", ![UI] = "read"]
        /\ of' = [of EXCEPT ![UI] = current]
        /\ then' = [then EXCEPT ![UI] = "nothing"]
        /\ UNCHANGED closed
     \/ /\ a = UI \/ ~listed \/ ~opened[current] \/ ~Started(current)
        /\ closed' = TRUE
        /\ pc' = [pc EXCEPT ![a] = "panel"]
        /\ UNCHANGED <<opened, work, status, of, then>>
  /\ UNCHANGED <<popVars, current, kind, arg, made, pop, combo, button, panel, starts, closing, saving, vain, missed>>

\* m_Closed = true, after a task within which the handler ran again.
SetClosed(a) ==
  /\ pc[a] = "nested" /\ UIIdle
  /\ closed' = TRUE
  /\ pc' = [pc EXCEPT ![a] = "panel"]
  /\ UNCHANGED <<popVars, deviceVars, of, arg, made, then, shownVars, closing, saving, vain,
                 missed>>

\* Variant: the task shows the status the handler was told of.
PanelTaskTold(a) ==
  /\ pc[a] = "panel" /\ UIServes(a)
  /\ panel' = (arg[a] # "Disconnected")
  /\ pc' = [pc EXCEPT ![a] = After(a)]
  /\ UNCHANGED <<popVars, deviceVars, of, arg, made, then, pop, listed, combo, button, starts,
                 closingVars, missed>>

\* The task reads the state of the device that is current when it runs.
PanelTask(a) ==
  /\ pc[a] = "panel" /\ UIServes(a)
  /\ panel' = Started(current)
  /\ pc' = [pc EXCEPT ![a] = After(a)]
  /\ UNCHANGED <<popVars, deviceVars, of, arg, made, then, pop, listed, combo, button, starts,
                 closingVars, missed>>

\* What the caller of StatusChanged does next: Start hands the connect to the
\* io threads, unless the channel is open already; Stop of a "many" posts its
\* task; a connect that ended lists the channel, whose reading begins.
Continue(a) ==
  LET g == of[a] IN
  /\ pc[a] = "then"
  /\ \/ /\ then[a] = "connect" /\ ~opened[g]
        /\ opened' = [opened EXCEPT ![g] = (kind[g] = "one")]
        /\ work' = [work EXCEPT ![g] = @ \cup {"connect"}]
        /\ UNCHANGED listed
     \/ then[a] = "connect" /\ opened[g] /\ UNCHANGED <<opened, work, listed>>
     \/ /\ then[a] = "stop"
        /\ work' = [work EXCEPT ![g] = @ \cup {"stop"}]
        /\ UNCHANGED <<opened, listed>>
     \/ /\ then[a] = "list" /\ UIServes(a)
        /\ listed' = TRUE
        /\ work' = [work EXCEPT ![g] = IF opened[g] THEN @ \cup {"loss"} ELSE @]
        /\ UNCHANGED opened
  /\ pc' = [pc EXCEPT ![a] = "idle"]
  /\ UNCHANGED <<popVars, current, kind, status, of, arg, made, then, pop, combo, button,
                 panel, starts, closingVars, missed>>

Handler(a) ==
  \/ ReadStatus(a) \/ ShowPop(a) \/ AssignPop(a) \/ ClosePop(a)
  \/ SetControls(a) \/ SweepTask(a) \/ SetClosed(a) \/ PanelTask(a) \/ Continue(a)

-----------------------------------------------------------------------------
(* The UI thread.                                                           *)

StopDoesNothing(g) == IF kind[g] = "one" THEN ~opened[g] ELSE ~Started(g)

\* Stop of the device, on the UI thread.
Stop(g) ==
  \/ /\ StopDoesNothing(g)
     /\ UNCHANGED <<deviceVars, handlerVars, listed>>
  \/ /\ ~StopDoesNothing(g)
     /\ IF kind[g] = "one"
        THEN /\ opened' = [opened EXCEPT ![g] = FALSE]
             /\ work' = [work EXCEPT ![g] = @ \ {"loss"}]
             /\ listed' = FALSE
             /\ StatusChanged(UI, g, "Disconnected", "nothing")
        ELSE /\ StatusChanged(UI, g, "Disconnecting", "stop")
             /\ UNCHANGED <<opened, work, listed>>
     /\ UNCHANGED <<current, kind>>

\* OnBnClickedButtonConnect: the button is disabled first.
\* Bound: a device is started again only when its last connect has ended, and
\* not once a pop-up was missed.
OnBnClickedButtonConnect ==
  /\ UIInput /\ closing # "asking" /\ button
  /\ button' = FALSE
  /\ \/ Started(current) /\ Stop(current) /\ UNCHANGED starts
     \/ /\ ~Started(current) /\ "connect" \notin work[current] /\ ~missed
        /\ StatusChanged(UI, current, "Connecting", "connect")
        /\ starts < Starts /\ (starts = 0 => visible = {} /\ saving = NoWindow) /\ starts' = starts + 1
        /\ UNCHANGED <<current, kind, opened, work, listed>>
  /\ UNCHANGED <<popVars, pop, combo, panel, closingVars, missed>>

\* OnCbnSelchangeCmbNetType: the new device's OnStatusChanged calls the handler
\* with the status it has.
\* Bound: a device is exchanged only when each has been started once.
OnCbnSelchangeCmbNetType ==
  /\ UIInput /\ closing # "asking" /\ combo
  /\ current + 1 \in Devices /\ starts = current
  /\ current' = current + 1
  /\ pc' = [pc EXCEPT ![UI] = "pop"]
  /\ of' = [of EXCEPT ![UI] = current + 1]
  /\ arg' = [arg EXCEPT ![UI] = status[current + 1]]
  /\ then' = [then EXCEPT ![UI] = "nothing"]
  /\ UNCHANGED <<popVars, kind, status, opened, work, made, shownVars, closingVars, missed>>

\* The "X" of a pop-up.  The one of a connect stops the device it was made for,
\* and the one of a closing refuses.  (It is destroyed once Stop has returned,
\* which no other thread can tell.)
ClosePopUp(id) ==
  /\ UIInput /\ id \in visible
  /\ map[id].what # "closing"
  /\ Closed(id)
  /\ IF map[id].what = "connecting"
     THEN Stop(map[id].device)
     ELSE UNCHANGED <<deviceVars, handlerVars, listed>>
  /\ UNCHANGED <<pop, combo, button, panel, starts, closingVars, missed>>

PopUpTimer(id) ==
  /\ UIInput /\ OnTimer(id)
  /\ UNCHANGED <<deviceVars, handlerVars, shownVars, closingVars, missed>>

PopUpMessage ==
  /\ UIIdle /\ HookWndProc
  /\ UNCHANGED <<deviceVars, handlerVars, shownVars, closingVars, missed>>

\* OnClose: a box asks first while the device is started.
OnClose ==
  /\ UIInput /\ closing = "no"
  /\ closing' = IF Started(current) THEN "asking" ELSE "over"
  /\ UNCHANGED <<popVars, deviceVars, handlerVars, shownVars, closed, saving, vain, missed>>

Cancelled ==
  /\ UIInput /\ closing = "asking"
  /\ closing' = "no"
  /\ UNCHANGED <<popVars, deviceVars, handlerVars, shownVars, closed, saving, vain, missed>>

\* m_Closed = false, Stop, and the task that waits is posted.
Agreed ==
  /\ UIInput /\ closing = "asking"
  /\ closing' = "waiting"
  /\ closed' = FALSE
  /\ vain' = (StopDoesNothing(current) \/ ~Started(current))
  /\ Stop(current)
  /\ UNCHANGED <<popVars, pop, combo, button, panel, starts, saving, missed>>

\* SaveReadHistory on a thread of its own, of which only the pop-up is left: an
\* error for a while, or the progress and in the end the result.
\* Bound: before the first start.
SaveFails ==
  /\ UIInput /\ closing = "no" /\ starts = 0 /\ visible = {}
  /\ \E id \in FreshId : Show(id, Look("error"), TRUE)
  /\ UNCHANGED <<deviceVars, handlerVars, shownVars, closingVars, missed>>

SaveStarts ==
  /\ UIInput /\ closing = "no" /\ starts = 0 /\ saving = NoWindow /\ visible = {}
  /\ \E id \in FreshId :
       /\ Show(id, Look("saving"), FALSE)
       /\ saving' = id
  /\ UNCHANGED <<deviceVars, handlerVars, shownVars, closed, closing, vain, missed>>

SaveEnds ==
  /\ saving # NoWindow /\ closing # "over"
  /\ Update(saving, Look("saved"), FALSE)
  /\ saving' = NoWindow
  /\ UNCHANGED <<deviceVars, handlerVars, shownVars, closed, closing, vain, missed>>

-----------------------------------------------------------------------------
(* The io_context threads.                                                  *)

Runs(t) == pc[t] = "idle" /\ closing # "over"

\* The connect of a device ends.  A failure leaves m_Opened of a "one" set when
\* it was the name that could not be resolved.
ConnectEnds(t) ==
  /\ Runs(t)
  /\ \E g \in Devices, ok, left \in BOOLEAN :
       LET next == IF kind[g] = "one" THEN "list" ELSE "nothing" IN
       /\ "connect" \in work[g]
       /\ work' = [work EXCEPT ![g] = @ \ {"connect"}]
       /\ opened' = [opened EXCEPT ![g] = @ /\ (ok \/ left)]
       /\ StatusChanged(t, g, IF ok THEN "Connected" ELSE "Disconnected", next)
  /\ UNCHANGED <<popVars, current, kind, shownVars, closingVars, missed>>

\* A read fails: NotifyChannelClose takes the channel off the list, and reports.
Lost(t) ==
  /\ Runs(t) /\ UIIdle
  /\ \E g \in Devices :
       /\ "loss" \in work[g]
       /\ work' = [work EXCEPT ![g] = @ \ {"loss"}]
       /\ opened' = [opened EXCEPT ![g] = FALSE]
       /\ StatusChanged(t, g, "Disconnected", "nothing")
  /\ listed' = FALSE
  /\ UNCHANGED <<popVars, current, kind, pop, combo, button, panel, starts, closingVars, missed>>

\* The task Stop of a "many" posted.
StopTask(t) ==
  /\ Runs(t)
  /\ \E g \in Devices :
       /\ "stop" \in work[g]
       /\ work' = [work EXCEPT ![g] = @ \ {"stop"}]
       /\ StatusChanged(t, g, "Disconnected", "nothing")
  /\ UNCHANGED <<popVars, current, kind, opened, shownVars, closingVars, missed>>

\* Variant: m_Closed is reset only by the task that waits for it.
SpinResets(t) ==
  /\ Runs(t) /\ UIIdle /\ closing = "waiting"
  /\ \A u \in Threads : pc[u] # "spin"
  /\ pc' = [pc EXCEPT ![t] = "spin"]
  /\ closed' = FALSE
  /\ UNCHANGED <<popVars, deviceVars, of, arg, made, then, shownVars, closing, saving, vain,
                 missed>>

\* The task OnClose posted keeps a thread until m_Closed.
Spin(t) ==
  /\ Runs(t) /\ UIIdle /\ closing = "waiting"
  /\ \A u \in Threads : pc[u] # "spin"
  /\ pc' = [pc EXCEPT ![t] = "spin"]
  /\ UNCHANGED <<popVars, deviceVars, of, arg, made, then, shownVars, closingVars, missed>>

\* OnOK ends the dialog and with it the program.
SpinEnds(t) ==
  /\ pc[t] = "spin" /\ closed /\ UIIdle
  /\ closing' = "over"
  /\ UNCHANGED <<popVars, deviceVars, handlerVars, shownVars, closed, saving, vain, missed>>

\* No other thread can tell the last steps of the handler on the UI thread apart,
\* and they are taken without another's between.
Serving == pc[UI] \in {"controls", "sweep", "panel", "then"}

WindowNext ==
  \/ closing # "over" /\ Handler(UI)
  \/ \E t \in Threads : closing # "over" /\ ~Serving /\ Handler(t)
  \/ OnBnClickedButtonConnect \/ OnCbnSelchangeCmbNetType
  \/ \E id \in WindowIds : ClosePopUp(id) \/ PopUpTimer(id)
  \/ PopUpMessage \/ OnClose \/ Cancelled \/ Agreed \/ SaveFails \/ SaveStarts \/ SaveEnds
  \/ \E t \in Threads :
       ~Serving /\ (ConnectEnds(t) \/ Lost(t) \/ StopTask(t) \/ Spin(t) \/ SpinEnds(t))

-----------------------------------------------------------------------------
(* What the window shows once nothing is under way.                         *)

Quiet ==
  /\ pc[UI] = "idle" /\ closing # "over"
  /\ \A t \in Threads : pc[t] \in {"idle", "spin"}
  /\ posted = <<>>
  /\ \A g \in Devices : work[g] \cap {"connect", "stop"} = {}

\* Once the device is connected or disconnected, no pop-up says that it is being
\* connected or closed: each is closed by the report that follows, although two
\* threads may be in the handler at once.  Only a Close that came while another
\* thread had its pop-up still to store may miss one, and so may one whose pop-up
\* another has taken the place of.
NoStatusPopLeft ==
  Quiet /\ ~missed /\ status[current] \in {"Connected", "Disconnected"}
    => \A id \in visible : map[id].what \notin {"connecting", "closing"}

\* The property panel shows the device that is current as started or not, in
\* whatever order the reports of this device and of the last one came: settings
\* that may only change while it is stopped are not left open, or closed.
PanelAgrees == Quiet => (panel <=> Started(current))

\* The program ends once the user has agreed to it: the task that waits for
\* m_Closed is not left waiting by a device that has ended, unless the Stop of
\* OnClose found nothing to stop.
ExitIsReached ==
  Quiet /\ closing = "waiting" => closed \/ Started(current) \/ vain
===============================================================================
