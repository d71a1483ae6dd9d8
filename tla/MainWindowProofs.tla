--------------------------- MODULE MainWindowProofs ---------------------------
(*****************************************************************************)
(* Proofs about the main window, for every set of devices, threads and       *)
(* identifiers of pop-ups: its property panel, its pop-ups and its end       *)
(* (MainWindow, PopWindow), and the settings that the panel edits            *)
(* (DeviceProperties).                                                       *)
(*****************************************************************************)
EXTENDS MainWindow, DeviceProperties, SequenceTheorems, TLAPS

-------------------------------------------------------------------------------
(* The panel and the end of the program.                                       *)

WindowSpec == WindowInit /\ [][WindowNext]_windowVars

\* A thread that has yet to give the panel its last word.
Reporting == {"read", "pop", "assign", "controls", "sweep", "nested", "panel"}

\* A thread whose report is going to set m_Closed.
WillClose(a) ==
    \/ pc[a] = "read" /\ of[a] = current /\ ~Started(current)
    \/ pc[a] \in {"pop", "controls", "sweep"} /\ arg[a] = "Disconnected"
    \/ pc[a] = "nested"

WindowFrame ==
    /\ current \in Devices /\ panel \in BOOLEAN
    /\ pc = [a \in Actors |-> pc[a]]
    /\ of = [a \in Actors |-> of[a]]
    /\ arg = [a \in Actors |-> arg[a]]
    /\ status = [g \in Devices |-> status[g]]

\* While nobody reports, the panel is right.
PanelFollows ==
    (\A a \in Actors : pc[a] \notin Reporting) => (panel <=> Started(current))

\* While OnClose waits, the device runs on or its end is being reported.
ExitFollows ==
    closing = "waiting" /\ ~closed /\ ~vain =>
        Started(current) \/ \E a \in Actors : WillClose(a)

WindowIInv == WindowFrame /\ PanelFollows /\ ExitFollows

\* What a step on thread a does to the two: it changes the status of at most one
\* device, and then reports it.
LEMMA Reports ==
    ASSUME WindowIInv, NEW a \in Actors, NEW g, NEW s, NEW n,
           pc[a] = "idle", StatusChanged(a, g, s, n),
           UNCHANGED <<current, panel, closing, closed, vain>>
    PROVE  WindowIInv'
<1>1. WindowFrame'
    BY DEF WindowIInv, WindowFrame, StatusChanged
<1>2. /\ \A b \in Actors : b # a => pc'[b] = pc[b] /\ of'[b] = of[b] /\ arg'[b] = arg[b]
      /\ of'[a] = g
      /\ status'[current] = IF g = current THEN s ELSE status[current]
      /\ pc'[a] = "read" \/ (status[g] = s /\ pc'[a] \in {"idle", "then"})
    BY DEF WindowIInv, WindowFrame, StatusChanged
<1>3. PanelFollows'
    <2>1. CASE pc'[a] = "read"
        BY <2>1 DEF PanelFollows, Reporting
    <2>2. CASE status[g] = s /\ pc'[a] \in {"idle", "then"}
        <3>1. Started(current)' <=> Started(current)
            BY <1>2, <2>2 DEF Started, WindowIInv, WindowFrame
        <3> QED BY <1>2, <2>2, <3>1 DEF PanelFollows, Reporting, WindowIInv
    <2> QED BY <1>2, <2>1, <2>2
<1>4. ExitFollows'
    <2> SUFFICES ASSUME closing = "waiting", ~closed, ~vain, ~Started(current)'
                 PROVE  \E b \in Actors : WillClose(b)'
        BY DEF ExitFollows
    <2>1. CASE Started(current)
        <3>1. g = current /\ pc'[a] = "read"
            BY <1>2, <2>1 DEF Started, WindowIInv, WindowFrame
        <3> QED BY <1>2, <3>1 DEF WillClose
    <2>2. CASE ~Started(current)
        <3>1. PICK b \in Actors : WillClose(b)
            BY <2>2 DEF WindowIInv, ExitFollows
        <3>2. b # a
            BY <3>1 DEF WillClose
        <3> QED BY <1>2, <3>1, <3>2 DEF WillClose
    <2> QED BY <2>1, <2>2
<1> QED BY <1>1, <1>3, <1>4 DEF WindowIInv

\* A thread that moves on: nothing is lost that the panel or the exit waits for.
LEMMA MovesOn ==
    ASSUME WindowIInv, NEW a \in Actors, NEW q, pc' = [pc EXCEPT ![a] = q],
           UNCHANGED <<current, status, of, closing, vain>>,
           panel' \in BOOLEAN, arg' = [arg EXCEPT ![a] = arg'[a]],
           closed' = closed \/ closed' = TRUE,
           panel' = panel \/ panel' = Started(current),
           q \in Reporting \/ panel' = Started(current)
             \/ (panel' = panel /\ pc[a] \notin Reporting),
           WillClose(a) => WillClose(a)' \/ closed' = TRUE
    PROVE  WindowIInv'
<1>1. WindowFrame'
    BY DEF WindowIInv, WindowFrame
<1>2. pc'[a] = q /\ \A b \in Actors : b # a => pc'[b] = pc[b] /\ arg'[b] = arg[b]
    BY DEF WindowIInv, WindowFrame
<1>3. Started(current)' <=> Started(current)
    BY DEF Started
<1>4. PanelFollows'
    BY <1>2, <1>3 DEF PanelFollows, WindowIInv
<1>5. ExitFollows'
    <2>1. \A b \in Actors : b # a => (WillClose(b)' <=> WillClose(b))
        BY <1>2, <1>3 DEF WillClose
    <2> QED BY <1>3, <2>1 DEF ExitFollows, WindowIInv
<1> QED BY <1>1, <1>4, <1>5 DEF WindowIInv

\* Nothing of what the two are about changes.
LEMMA NothingMoves ==
    ASSUME WindowIInv, UNCHANGED <<current, status, pc, of, arg, panel>>,
           \/ UNCHANGED <<closing, closed, vain>>
           \/ closing' # "waiting"
    PROVE  WindowIInv'
BY DEF WindowIInv, WindowFrame, PanelFollows, ExitFollows, WillClose, Started

\* Stop on the UI thread: it does nothing, or it changes the status.
LEMMA StopKeeps ==
    ASSUME WindowIInv, NEW g, pc[UI] = "idle", Stop(g),
           UNCHANGED <<panel, closing, closed, vain>>
    PROVE  WindowIInv'
<1>0. UI \in Actors
    BY DEF Actors
<1>1. CASE StatusChanged(UI, g, "Disconnected", "nothing") /\ UNCHANGED current
    BY <1>0, <1>1, Reports
<1>2. CASE StatusChanged(UI, g, "Disconnecting", "stop") /\ UNCHANGED current
    BY <1>0, <1>2, Reports
<1>3. CASE UNCHANGED <<deviceVars, handlerVars>>
    BY <1>3, NothingMoves DEF deviceVars, handlerVars
<1> QED BY <1>1, <1>2, <1>3 DEF Stop

\* At the start nobody reports, and the panel shows a device that is not started.
LEMMA WindowStarts == WindowInit => WindowIInv
<1> SUFFICES ASSUME WindowInit PROVE WindowIInv
    OBVIOUS
<1>1. current \in Devices /\ status[current] = "Disconnected"
    BY WindowAssumption DEF WindowInit
<1>2. WindowFrame
    BY <1>1 DEF WindowInit, WindowFrame
<1>3. PanelFollows
    BY <1>1 DEF WindowInit, PanelFollows, Started
<1>4. ExitFollows
    BY DEF WindowInit, ExitFollows
<1> QED BY <1>2, <1>3, <1>4 DEF WindowIInv

\* The handler: each step of it but the report within a sweep is a move.
LEMMA HandlerKeeps ==
    ASSUME WindowIInv, NEW a \in Actors, Handler(a)
    PROVE  WindowIInv'
<1> USE DEF deviceVars, shownVars, closingVars
<1>0. WindowFrame /\ panel \in BOOLEAN
    BY DEF WindowIInv, WindowFrame
<1>1. CASE ReadStatus(a)
    <2>1. pc[a] = "read" /\ pc' = [pc EXCEPT ![a] = "pop"] /\ arg' = [arg EXCEPT ![a] = arg'[a]]
          /\ UNCHANGED <<current, status, of, panel, closing, closed, vain>>
          /\ arg'[a] = status[of[a]] /\ pc'[a] = "pop"
        BY <1>0, <1>1 DEF ReadStatus, WindowFrame
    <2>2. WillClose(a) => WillClose(a)'
        BY <2>1 DEF WillClose, Started
    <2> QED BY <1>0, <2>1, <2>2, MovesOn DEF Reporting
<1>2. CASE ShowPop(a)
    <2>1. pc[a] = "pop" /\ pc' = [pc EXCEPT ![a] = "assign"] /\ arg[a] # "Disconnected"
          /\ UNCHANGED <<current, status, of, arg, panel, closing, closed, vain>>
        BY <1>2 DEF ShowPop
    <2> QED BY <1>0, <2>1, MovesOn DEF Reporting, WillClose, WindowFrame
<1>3. CASE AssignPop(a)
    <2>1. pc[a] = "assign" /\ pc' = [pc EXCEPT ![a] = "controls"]
          /\ UNCHANGED <<current, status, of, arg, panel, closing, closed, vain>>
        BY <1>3 DEF AssignPop
    <2> QED BY <1>0, <2>1, MovesOn DEF Reporting, WillClose, WindowFrame
<1>4. CASE ClosePop(a)
    <2>1. pc[a] = "pop" /\ pc' = [pc EXCEPT ![a] = "controls"] /\ pc'[a] = "controls"
          /\ UNCHANGED <<current, status, of, arg, panel, closing, closed, vain>>
        BY <1>0, <1>4 DEF ClosePop, WindowFrame
    <2> QED BY <1>0, <2>1, MovesOn DEF Reporting, WillClose, WindowFrame
<1>5. CASE SetControls(a)
    <2> DEFINE q == IF arg[a] = "Disconnected" THEN "sweep" ELSE "panel"
    <2>1. pc[a] = "controls" /\ pc' = [pc EXCEPT ![a] = q] /\ pc'[a] = q
          /\ UNCHANGED <<current, status, of, arg, panel, closing, closed, vain>>
        BY <1>0, <1>5 DEF SetControls, WindowFrame
    <2>2. q \in Reporting /\ (WillClose(a) => WillClose(a)')
        BY <2>1 DEF Reporting, WillClose
    <2> QED BY <1>0, <2>1, <2>2, MovesOn DEF WindowFrame
<1>6. CASE SweepTask(a)
    <2>1. pc[a] = "sweep" /\ UNCHANGED <<current, arg, panel, closing, vain>>
        BY <1>6 DEF SweepTask
    <2>2. CASE closed' = TRUE /\ pc' = [pc EXCEPT ![a] = "panel"] /\ UNCHANGED <<status, of>>
        BY <1>0, <2>1, <2>2, MovesOn DEF Reporting, WindowFrame
    <2>3. CASE /\ status' = [status EXCEPT ![current] = "Disconnected"]
               /\ pc' = [pc EXCEPT ![a] = "nested", ![UI] = "read"] /\ a # UI
               /\ of' = [of EXCEPT ![UI] = current] /\ closed' = closed
        <3>1. UI \in Actors /\ a \in Actors
            BY DEF Actors
        <3>2. pc'[a] = "nested" /\ pc'[UI] = "read"
            BY <1>0, <2>3, <3>1 DEF WindowFrame
        <3>3. WindowFrame'
            BY <1>0, <2>1, <2>3 DEF WindowFrame
        <3>4. PanelFollows'
            BY <3>1, <3>2 DEF PanelFollows, Reporting
        <3>5. ExitFollows'
            BY <3>1, <3>2 DEF ExitFollows, WillClose
        <3> QED BY <3>3, <3>4, <3>5 DEF WindowIInv
    <2> QED BY <1>6, <2>2, <2>3 DEF SweepTask
<1>7. CASE SetClosed(a)
    <2>1. pc[a] = "nested" /\ closed' = TRUE /\ pc' = [pc EXCEPT ![a] = "panel"]
          /\ UNCHANGED <<current, status, of, arg, panel, closing, vain>>
        BY <1>7 DEF SetClosed
    <2> QED BY <1>0, <2>1, MovesOn DEF Reporting, WindowFrame
<1>8. CASE PanelTask(a)
    <2>1. pc[a] = "panel" /\ panel' = Started(current) /\ pc' = [pc EXCEPT ![a] = After(a)]
          /\ UNCHANGED <<current, status, of, arg, closing, closed, vain>>
        BY <1>8 DEF PanelTask
    <2>2. panel' \in BOOLEAN
        BY <2>1 DEF Started
    <2> QED BY <1>0, <2>1, <2>2, MovesOn DEF WillClose, WindowFrame
<1>9. CASE Continue(a)
    <2>1. pc[a] = "then" /\ pc' = [pc EXCEPT ![a] = "idle"]
          /\ UNCHANGED <<current, status, of, arg, panel, closing, closed, vain>>
        BY <1>9 DEF Continue
    <2> QED BY <1>0, <2>1, MovesOn DEF Reporting, WillClose, WindowFrame
<1> QED BY <1>1, <1>2, <1>3, <1>4, <1>5, <1>6, <1>7, <1>8, <1>9 DEF Handler

\* A click on the button, and a new device: the UI thread reports.
LEMMA ButtonKeeps ==
    ASSUME WindowIInv, OnBnClickedButtonConnect
    PROVE  WindowIInv'
<1>1. UNCHANGED <<panel, closing, closed, vain>> /\ pc[UI] = "idle" /\ UI \in Actors
    BY DEF OnBnClickedButtonConnect, closingVars, UIInput, UIIdle, Actors
<1>2. CASE Stop(current)
    BY <1>1, <1>2, StopKeeps
<1>3. CASE StatusChanged(UI, current, "Connecting", "connect") /\ UNCHANGED current
    BY <1>1, <1>3, Reports
<1> QED BY <1>2, <1>3 DEF OnBnClickedButtonConnect

\* A new device: the UI thread reports its status, which the panel follows.
LEMMA ExchangeKeeps ==
    ASSUME WindowIInv, OnCbnSelchangeCmbNetType
    PROVE  WindowIInv'
<1>1. /\ UNCHANGED <<status, panel, closing, closed, vain>> /\ UI \in Actors
      /\ current' \in Devices /\ WindowFrame
      /\ pc' = [pc EXCEPT ![UI] = "pop"] /\ arg' = [arg EXCEPT ![UI] = status[current']]
      /\ of' = [of EXCEPT ![UI] = current']
    BY DEF OnCbnSelchangeCmbNetType, closingVars, shownVars, Actors, WindowIInv
<1>2. WindowFrame'
    BY <1>1 DEF WindowFrame
<1>3. pc'[UI] = "pop" /\ arg'[UI] = status[current']
    BY <1>1 DEF WindowFrame
<1>4. PanelFollows'
    BY <1>1, <1>3 DEF PanelFollows, Reporting
<1>5. ExitFollows'
    BY <1>1, <1>3 DEF ExitFollows, WillClose, Started
<1> QED BY <1>2, <1>4, <1>5 DEF WindowIInv

\* OnClose waits from here on: for a device that it stops, or that has not ended.
LEMMA AgreedKeeps ==
    ASSUME WindowIInv, Agreed
    PROVE  WindowIInv'
<1>1. /\ vain' = (StopDoesNothing(current) \/ ~Started(current)) /\ panel' = panel
      /\ Stop(current) /\ pc[UI] = "idle" /\ UI \in Actors /\ closing' = "waiting"
      /\ WindowFrame
    BY DEF Agreed, UIInput, UIIdle, Actors, WindowIInv
<1>2. CASE StopDoesNothing(current)
    <2>1. UNCHANGED <<deviceVars, handlerVars>>
        BY <1>1, <1>2 DEF Stop
    <2> QED BY <1>1, <1>2, <2>1 DEF deviceVars, handlerVars, WindowIInv, WindowFrame,
               PanelFollows, ExitFollows, Started
<1>3. CASE ~StopDoesNothing(current)
    <2>1. PICK s \in {"Disconnected", "Disconnecting"}, n \in {"nothing", "stop"} :
            StatusChanged(UI, current, s, n) /\ UNCHANGED current
        BY <1>1, <1>3 DEF Stop
    <2>2. /\ status'[current] = s /\ of'[UI] = current
          /\ pc'[UI] = "read" \/ (status[current] = s /\ pc'[UI] \in {"idle", "then"})
          /\ \A b \in Actors : b # UI => pc'[b] = pc[b]
        BY <1>1, <2>1 DEF StatusChanged, WindowFrame
    <2>3. WindowFrame'
        BY <1>1, <2>1 DEF StatusChanged, WindowFrame
    <2>4. PanelFollows'
        BY <1>1, <2>1, <2>2 DEF PanelFollows, Reporting, Started, WindowIInv
    <2>5. ExitFollows'
        BY <1>1, <2>1, <2>2 DEF ExitFollows, WillClose, Started
    <2> QED BY <2>3, <2>4, <2>5 DEF WindowIInv
<1> QED BY <1>2, <1>3

\* The io_context threads.
LEMMA ThreadKeeps ==
    ASSUME WindowIInv, NEW t \in Threads,
           ConnectEnds(t) \/ Lost(t) \/ StopTask(t) \/ Spin(t) \/ SpinEnds(t)
    PROVE  WindowIInv'
<1> USE DEF shownVars, closingVars, deviceVars, handlerVars, Runs
<1>0. t \in Actors /\ WindowFrame /\ panel \in BOOLEAN
    BY DEF Actors, WindowIInv, WindowFrame
<1>1. CASE ConnectEnds(t)
    <2>1. PICK g \in Devices, ok \in BOOLEAN :
            \E next : StatusChanged(t, g, IF ok THEN "Connected" ELSE "Disconnected", next)
        BY <1>1 DEF ConnectEnds
    <2>2. pc[t] = "idle" /\ UNCHANGED <<current, panel, closing, closed, vain>>
        BY <1>1 DEF ConnectEnds
    <2> QED BY <1>0, <2>1, <2>2, Reports
<1>2. CASE Lost(t)
    BY <1>0, <1>2, Reports DEF Lost
<1>3. CASE StopTask(t)
    BY <1>0, <1>3, Reports DEF StopTask
<1>4. CASE Spin(t)
    <2>1. pc[t] = "idle" /\ pc' = [pc EXCEPT ![t] = "spin"]
          /\ UNCHANGED <<current, status, of, arg, panel, closing, closed, vain>>
        BY <1>4 DEF Spin
    <2> QED BY <1>0, <2>1, MovesOn DEF Reporting, WillClose, WindowFrame
<1>5. CASE SpinEnds(t)
    BY <1>5, NothingMoves DEF SpinEnds
<1> QED BY <1>1, <1>2, <1>3, <1>4, <1>5

\* Every step keeps the invariant.
LEMMA WindowStep == WindowIInv /\ [WindowNext]_windowVars => WindowIInv'
<1> SUFFICES ASSUME WindowIInv, [WindowNext]_windowVars
             PROVE  WindowIInv'
    OBVIOUS
<1>1. ASSUME NEW a \in Actors, Handler(a) PROVE WindowIInv'
    BY <1>1, HandlerKeeps
<1>2. CASE OnBnClickedButtonConnect
    BY <1>2, ButtonKeeps
<1>3. CASE OnCbnSelchangeCmbNetType
    BY <1>3, ExchangeKeeps
<1>4. ASSUME NEW id \in WindowIds, ClosePopUp(id) PROVE WindowIInv'
    <2>1. UNCHANGED <<panel, closing, closed, vain>> /\ pc[UI] = "idle"
        BY <1>4 DEF ClosePopUp, closingVars, UIInput, UIIdle
    <2>2. CASE Stop(map[id].device)
        BY <2>1, <2>2, StopKeeps
    <2>3. CASE UNCHANGED <<deviceVars, handlerVars>>
        BY <2>1, <2>3, NothingMoves DEF deviceVars, handlerVars
    <2> QED BY <1>4, <2>2, <2>3 DEF ClosePopUp
<1>5. CASE \/ \E id \in WindowIds : PopUpTimer(id)
           \/ PopUpMessage \/ SaveFails \/ SaveStarts \/ SaveEnds
    <2>1. UNCHANGED <<current, status, pc, of, arg, panel, closing, closed, vain>>
        BY <1>5 DEF PopUpTimer, PopUpMessage, SaveFails, SaveStarts, SaveEnds, deviceVars,
           handlerVars, shownVars, closingVars
    <2> QED BY <2>1, NothingMoves
<1>6. CASE OnClose \/ Cancelled
    <2>1. UNCHANGED <<current, status, pc, of, arg, panel>> /\ closing' # "waiting"
        BY <1>6 DEF OnClose, Cancelled, deviceVars, handlerVars, shownVars
    <2> QED BY <2>1, NothingMoves
<1>7. CASE Agreed
    BY <1>7, AgreedKeeps
<1>8. ASSUME NEW t \in Threads,
             ConnectEnds(t) \/ Lost(t) \/ StopTask(t) \/ Spin(t) \/ SpinEnds(t)
      PROVE  WindowIInv'
    BY <1>8, ThreadKeeps
<1>9. CASE UNCHANGED windowVars
    BY <1>9, NothingMoves DEF windowVars, deviceVars, handlerVars, shownVars, closingVars
<1>10. UI \in Actors /\ Threads \subseteq Actors
    BY DEF Actors
<1> QED BY <1>1, <1>2, <1>3, <1>4, <1>5, <1>6, <1>7, <1>8, <1>9, <1>10 DEF WindowNext

\* The invariant of the panel and of the end, with any number of devices and threads.
THEOREM WindowInvariant == WindowSpec => []WindowIInv
BY WindowStarts, WindowStep, PTL DEF WindowSpec

\* Once nothing is under way nobody reports.
LEMMA QuietRests == Quiet => \A a \in Actors : pc[a] \notin Reporting /\ ~WillClose(a)
BY DEF Quiet, Actors, Reporting, WillClose

\* Once the reports are through, the panel shows whether the current device is started,
\* in whatever order the threads went through OnDeviceStatusChanged.
THEOREM WindowPanel == WindowSpec => []PanelAgrees
<1>1. WindowIInv => PanelAgrees
    BY QuietRests DEF WindowIInv, PanelFollows, PanelAgrees
<1> QED BY <1>1, WindowInvariant, PTL

\* OnClose does not wait for a device that has ended: m_Closed is set by its report,
\* unless the Stop of OnClose had found nothing to stop.
THEOREM WindowExits == WindowSpec => []ExitIsReached
<1>1. WindowIInv => ExitIsReached
    BY QuietRests DEF WindowIInv, ExitFollows, ExitIsReached
<1> QED BY <1>1, WindowInvariant, PTL

-------------------------------------------------------------------------------
(* The devices: which of them the user has started, and who will report.       *)

\* A device the user has started, and one that is being started or stopped.
Touched(g) == g < current \/ (g = current /\ starts >= current)
InTransit(g) == status[g] \in {"Connecting", "Disconnecting"}

\* Something is still to come that settles its status.
Busy(g) ==
    \/ work[g] \cap {"connect", "stop"} # {}
    \/ pc[UI] # "idle" /\ of[UI] = g /\ then[UI] \in {"connect", "stop"}

DevicesFrame ==
    /\ current \in Devices /\ starts \in Nat /\ starts + 1 >= current
    /\ of \in [Actors -> Devices]
    /\ opened \in [Devices -> BOOLEAN]
    /\ work = [g \in Devices |-> work[g]]
    /\ then = [a \in Actors |-> then[a]]
    /\ \A t \in Threads : then[t] \in {"nothing", "list"}

\* What a handler goes on to is for a device that was started.
GoesOn ==
    /\ \A a \in Actors : pc[a] # "idle" /\ then[a] # "nothing" => Touched(of[a]) \/ pc[a] = "spin"
    /\ pc[UI] # "idle" /\ then[UI] = "connect" =>
         of[UI] = current /\ (starts = current => ~opened[current])

UntouchedRests ==
    \A g \in Devices : ~Touched(g) =>
        status[g] = "Disconnected" /\ ~opened[g] /\ work[g] = {}

\* Only a device that was started again may be left in between.
TransitEnds ==
    \A g \in Devices : InTransit(g) => Busy(g) \/ (g = current /\ starts > current)

DevicesInv == DevicesFrame /\ GoesOn /\ UntouchedRests /\ TransitEnds

-------------------------------------------------------------------------------
(* The pop-ups.                                                                *)

StatusLook(l) == l.what \in {"connecting", "closing"}

\* Window id tells of a status, or will.
StatusPop(id) ==
    \/ id \in visible /\ StatusLook(map[id])
    \/ \E k \in DOMAIN posted :
         posted[k].id = id /\ posted[k].msg # "delete" /\ StatusLook(posted[k].look)

PopFrame ==
    /\ map = [i \in WindowIds |-> map[i]] /\ visible \subseteq WindowIds /\ timed \subseteq visible
    /\ posted \in Seq(Messages)
    /\ pop \in WindowIds \cup {NoWindow} /\ saving \in WindowIds \cup {NoWindow}
    /\ made \in [Actors -> WindowIds \cup {NoWindow}]
    /\ \A i \in visible : map[i] \in Looks

\* An identifier is reserved until its window is made, which is the first message for it.
CreatedFirst ==
    \A k \in DOMAIN posted : posted[k].msg = "create" =>
        /\ map[posted[k].id] = Reserved
        /\ \A j \in 1..k - 1 : posted[j].id # posted[k].id

\* No window that tells of a status is forgotten.
PopsKnown ==
    ~missed => \A id \in WindowIds : StatusPop(id) /\ Open(id) =>
        id = pop \/ \E a \in Actors : pc[a] = "assign" /\ made[a] = id

ArgShown == \A a \in Actors : pc[a] = "assign" => arg[a] \in {"Connecting", "Disconnecting"}

PopsInv == PopFrame /\ CreatedFirst /\ PopsKnown /\ ArgShown

\* A thread that is going to close the pop-up of the status.
Closer(a) ==
    \/ pc[a] = "read" /\ ~InTransit(of[a])
    \/ pc[a] = "pop" /\ arg[a] \notin {"Connecting", "Disconnecting"}

\* While there is a pop-up of a status, or there will be, someone is to close it.
PopsEnd ==
    ~missed /\ (Open(pop) \/ \E b \in Actors : Showing(b)) =>
        (\E g \in Devices : InTransit(g)) \/ \E a \in Actors : Closer(a)


PopsIInv == WindowIInv /\ DevicesInv /\ PopsInv /\ PopsEnd

\* A thread that moves on within the handler, or comes to wait for the end.
LEMMA DevicesMove ==
    ASSUME WindowIInv, WindowIInv', DevicesInv, NEW a \in Actors, NEW q,
           pc' = [pc EXCEPT ![a] = q],
           UNCHANGED <<current, starts, status, opened, work, of, then>>,
           \/ pc[a] \notin {"idle", "spin"} /\ (q # "idle" \/ then[a] = "nothing")
           \/ a \in Threads /\ q = "spin"
    PROVE  DevicesInv'
<1>0. UI \in Actors /\ UI \notin Threads /\ WindowFrame /\ WindowFrame' /\ DevicesFrame
    BY WindowAssumption DEF Actors, WindowIInv, DevicesInv
<1>1. pc'[a] = q /\ \A b \in Actors : b # a => pc'[b] = pc[b]
    BY <1>0 DEF WindowFrame
<1>2. \A g \in Devices : (Touched(g)' <=> Touched(g)) /\ (InTransit(g)' <=> InTransit(g))
    BY DEF Touched, InTransit
<1>3. DevicesFrame'
    BY <1>0 DEF DevicesFrame
<1>4. GoesOn'
    <2>1. \A b \in Actors : pc'[b] # "idle" /\ then[b] # "nothing" =>
              Touched(of[b]) \/ pc'[b] = "spin"
        BY <1>1 DEF DevicesInv, GoesOn
    <2>2. pc'[UI] # "idle" => pc[UI] # "idle"
        BY <1>0, <1>1
    <2> QED BY <1>0, <1>2, <2>1, <2>2 DEF DevicesInv, GoesOn, DevicesFrame
<1>5. UntouchedRests'
    BY <1>2 DEF DevicesInv, UntouchedRests
<1>6. TransitEnds'
    <2>1. \A g \in Devices : Busy(g) => Busy(g)'
        BY <1>0, <1>1 DEF Busy
    <2> QED BY <1>2, <2>1 DEF DevicesInv, TransitEnds
<1> QED BY <1>3, <1>4, <1>5, <1>6 DEF DevicesInv

\* Nothing happens to the devices.
LEMMA DevicesRest ==
    ASSUME DevicesInv, UNCHANGED <<current, starts, status, opened, work, of, then, pc>>
    PROVE  DevicesInv'
BY DEF DevicesInv, DevicesFrame, GoesOn, UntouchedRests, TransitEnds, Touched, InTransit, Busy

\* A device that has been started settles.
LEMMA DevicesSettle ==
    ASSUME WindowIInv, DevicesInv, NEW a \in Actors, NEW g \in Devices,
           NEW s \in {"Connected", "Disconnected"}, NEW n \in {"nothing", "list"},
           pc[a] = "idle", StatusChanged(a, g, s, n), Touched(g),
           UNCHANGED <<current, starts>>,
           NEW w, w \subseteq work[g], work' = [work EXCEPT ![g] = w],
           NEW o \in BOOLEAN, o => opened[g], opened' = [opened EXCEPT ![g] = o]
    PROVE  DevicesInv'
<1>0. UI \in Actors /\ UI \notin Threads /\ WindowFrame /\ DevicesFrame
    BY WindowAssumption DEF Actors, WindowIInv, DevicesInv
<1>1. /\ \A b \in Actors : b # a => pc'[b] = pc[b] /\ of'[b] = of[b] /\ then'[b] = then[b]
      /\ of'[a] = g /\ then'[a] = n
    BY <1>0 DEF WindowFrame, DevicesFrame, StatusChanged
<1>2. \A h \in Devices : h # g =>
         status'[h] = status[h] /\ work'[h] = work[h] /\ opened'[h] = opened[h]
    BY <1>0 DEF WindowFrame, DevicesFrame, StatusChanged
<1>3. status'[g] = s /\ work'[g] \subseteq work[g] /\ (opened'[g] => opened[g])
    BY <1>0 DEF WindowFrame, DevicesFrame, StatusChanged
<1>4. \A h : Touched(h)' <=> Touched(h)
    BY DEF Touched
<1>5. DevicesFrame'
    <2>1. opened' \in [Devices -> BOOLEAN]
        BY <1>0 DEF DevicesFrame
    <2>2. of' \in [Actors -> Devices] /\ then' = [b \in Actors |-> then'[b]]
          /\ work' = [h \in Devices |-> work'[h]]
        BY <1>0 DEF DevicesFrame, StatusChanged
    <2>3. \A t \in Threads : then'[t] \in {"nothing", "list"}
        BY <1>0, <1>1 DEF DevicesFrame, Actors
    <2> QED BY <1>0, <2>1, <2>2, <2>3 DEF DevicesFrame
<1>6. GoesOn'
    <2>1. \A b \in Actors : pc'[b] # "idle" /\ then'[b] # "nothing" =>
              Touched(of'[b]) \/ pc'[b] = "spin"
        BY <1>1 DEF DevicesInv, GoesOn
    <2>2. pc'[UI] # "idle" /\ then'[UI] = "connect" => a # UI
        BY <1>1
    <2>3. current \in Devices /\ (opened'[current] => opened[current])
        BY <1>0, <1>2, <1>3 DEF WindowFrame
    <2> QED BY <1>0, <1>1, <1>4, <2>1, <2>2, <2>3 DEF DevicesInv, GoesOn
<1>7. UntouchedRests'
    BY <1>2, <1>4 DEF DevicesInv, UntouchedRests
<1>8. TransitEnds'
    <2>1. \A h \in Devices : h # g /\ Busy(h) => Busy(h)'
        BY <1>0, <1>1, <1>2 DEF Busy
    <2>2. ~InTransit(g)' /\ \A h \in Devices : h # g => (InTransit(h)' <=> InTransit(h))
        BY <1>2, <1>3 DEF InTransit
    <2> QED BY <2>1, <2>2 DEF DevicesInv, TransitEnds
<1> QED BY <1>5, <1>6, <1>7, <1>8 DEF DevicesInv

\* Stop on the UI thread.
LEMMA DevicesStop ==
    ASSUME WindowIInv, WindowIInv', DevicesInv, NEW g \in Devices, pc[UI] = "idle", Stop(g),
           UNCHANGED starts
    PROVE  DevicesInv'
<1>0. UI \in Actors /\ UI \notin Threads /\ WindowFrame /\ WindowFrame' /\ DevicesFrame
    BY WindowAssumption DEF Actors, WindowIInv, DevicesInv
<1>1. CASE UNCHANGED <<deviceVars, handlerVars>>
    BY <1>1, DevicesRest DEF deviceVars, handlerVars
<1>2. CASE /\ ~StopDoesNothing(g) /\ kind[g] = "one" /\ UNCHANGED current
           /\ opened' = [opened EXCEPT ![g] = FALSE]
           /\ work' = [work EXCEPT ![g] = @ \ {"loss"}]
           /\ StatusChanged(UI, g, "Disconnected", "nothing")
    <2>1. Touched(g)
        BY <1>2 DEF StopDoesNothing, DevicesInv, UntouchedRests
    <2>2. work[g] \ {"loss"} \subseteq work[g] /\ (FALSE => opened[g])
        OBVIOUS
    <2>3. work' = [work EXCEPT ![g] = work[g] \ {"loss"}]
        BY <1>2
    <2> QED BY <1>0, <1>2, <2>1, <2>2, <2>3, DevicesSettle
<1>3. CASE /\ ~StopDoesNothing(g) /\ kind[g] # "one"
           /\ StatusChanged(UI, g, "Disconnecting", "stop")
           /\ UNCHANGED <<opened, work, current>>
    <2>1. Touched(g)
        BY <1>3 DEF StopDoesNothing, Started, DevicesInv, UntouchedRests
    <2>2. /\ \A b \in Actors : b # UI => pc'[b] = pc[b] /\ of'[b] = of[b] /\ then'[b] = then[b]
          /\ of'[UI] = g /\ then'[UI] = "stop" /\ pc'[UI] \in {"read", "then"}
        BY <1>0, <1>3 DEF WindowFrame, DevicesFrame, StatusChanged
    <2>3. \A h \in Devices : h # g => status'[h] = status[h]
        BY <1>0, <1>3 DEF WindowFrame, StatusChanged
    <2>4. \A h : Touched(h)' <=> Touched(h)
        BY <1>3 DEF Touched
    <2>5. DevicesFrame'
        BY <1>0, <1>3, <2>2 DEF DevicesFrame, StatusChanged
    <2>6. GoesOn'
        BY <2>1, <2>2, <2>4 DEF DevicesInv, GoesOn
    <2>7. UntouchedRests'
        BY <1>3, <2>1, <2>3, <2>4 DEF DevicesInv, UntouchedRests
    <2>8. TransitEnds'
        <3>1. Busy(g)' /\ \A h \in Devices : h # g /\ Busy(h) => Busy(h)'
            BY <1>0, <1>3, <2>2 DEF Busy
        <3> QED BY <1>3, <2>3, <3>1 DEF DevicesInv, TransitEnds, InTransit
    <2> QED BY <2>5, <2>6, <2>7, <2>8 DEF DevicesInv
<1> QED BY <1>1, <1>2, <1>3 DEF Stop

\* What the caller of StatusChanged goes on to.
LEMMA DevicesContinue ==
    ASSUME WindowIInv, WindowIInv', DevicesInv, NEW a \in Actors, Continue(a)
    PROVE  DevicesInv'
<1> DEFINE g == of[a]
<1>0. UI \in Actors /\ UI \notin Threads /\ WindowFrame /\ WindowFrame' /\ DevicesFrame
    BY WindowAssumption DEF Actors, WindowIInv, DevicesInv
<1>1. /\ pc[a] = "then" /\ pc' = [pc EXCEPT ![a] = "idle"] /\ pc'[a] = "idle"
      /\ \A b \in Actors : b # a => pc'[b] = pc[b]
      /\ UNCHANGED <<current, starts, status, of, then>> /\ g \in Devices
    BY <1>0 DEF Continue, WindowFrame, DevicesFrame, shownVars
<1>2. \A h : (Touched(h)' <=> Touched(h)) /\ (InTransit(h)' <=> InTransit(h))
    BY <1>1 DEF Touched, InTransit
<1>3. then[a] # "nothing" => Touched(g)
    BY <1>1 DEF DevicesInv, GoesOn
<1>4. \A h \in Devices : Busy(h) /\ ~Busy(h)' =>
         (a = UI /\ h = g /\ then[a] \in {"connect", "stop"})
            \/ ~(work[h] \cap {"connect", "stop"} \subseteq work'[h])
    BY <1>1 DEF Busy
<1>5. then[a] \in {"connect", "stop"} => a = UI
    BY <1>0 DEF DevicesFrame, Actors
<1>6. ASSUME NEW w, opened' \in [Devices -> BOOLEAN],
             \A h \in Devices : h # g => opened'[h] = opened[h],
             a # UI => opened' = opened,
             work' = [work EXCEPT ![g] = w], work[g] \subseteq w, then[a] # "nothing",
             then[a] \in {"connect", "stop"} => w \cap {"connect", "stop"} # {}
      PROVE  DevicesInv'
    <2>1. DevicesFrame'
        BY <1>0, <1>1, <1>6 DEF DevicesFrame
    <2>2. /\ \A h \in Devices : h # g => work'[h] = work[h] /\ opened'[h] = opened[h]
          /\ work'[g] = w
        BY <1>0, <1>1, <1>6 DEF DevicesFrame
    <2>3. GoesOn'
        <3>1. pc'[UI] # "idle" => a # UI
            BY <1>1
        <3>2. pc'[UI] # "idle" /\ then[UI] = "connect" /\ starts = current => ~opened'[current]
            BY <1>0, <1>1, <1>6, <3>1 DEF DevicesInv, GoesOn
        <3> QED BY <1>1, <1>2, <3>1, <3>2 DEF DevicesInv, GoesOn
    <2>4. UntouchedRests'
        BY <1>1, <1>2, <1>3, <1>6, <2>2 DEF DevicesInv, UntouchedRests
    <2>5. TransitEnds'
        <3>1. \A h \in Devices : Busy(h) => Busy(h)'
            BY <1>1, <1>4, <1>6, <2>2 DEF Busy
        <3> QED BY <1>1, <1>2, <3>1 DEF DevicesInv, TransitEnds
    <2> QED BY <2>1, <2>3, <2>4, <2>5 DEF DevicesInv
<1>7. CASE then[a] = "connect" /\ opened[g] /\ UNCHANGED <<opened, work>>
    <2>1. g = current /\ starts # current
        BY <1>1, <1>5, <1>7 DEF DevicesInv, GoesOn
    <2>a. starts >= current /\ starts \in Nat /\ current \in Nat
        BY <1>0, <1>3, <1>7, <2>1, WindowAssumption DEF Touched, DevicesFrame
    <2>b. starts > current
        BY <2>1, <2>a
    <2>2. DevicesFrame'
        BY <1>0, <1>1, <1>7 DEF DevicesFrame
    <2>3. GoesOn'
        BY <1>1, <1>2, <1>7 DEF DevicesInv, GoesOn
    <2>4. UntouchedRests'
        BY <1>1, <1>2, <1>7 DEF DevicesInv, UntouchedRests
    <2>5. TransitEnds'
        BY <1>1, <1>2, <1>4, <1>7, <2>1, <2>b DEF DevicesInv, TransitEnds
    <2> QED BY <2>2, <2>3, <2>4, <2>5 DEF DevicesInv
<1>8. CASE /\ then[a] = "connect" /\ opened' = [opened EXCEPT ![g] = (kind[g] = "one")]
           /\ work' = [work EXCEPT ![g] = @ \cup {"connect"}]
    <2>1. opened' \in [Devices -> BOOLEAN] /\ \A h \in Devices : h # g => opened'[h] = opened[h]
        BY <1>0, <1>8 DEF DevicesFrame
    <2>2. a = UI /\ work[g] \subseteq work[g] \cup {"connect"}
        BY <1>5, <1>8
    <2> QED BY <1>6, <1>8, <2>1, <2>2
<1>9. CASE then[a] = "stop" /\ work' = [work EXCEPT ![g] = @ \cup {"stop"}] /\ opened' = opened
    <2>1. opened' \in [Devices -> BOOLEAN] /\ \A h \in Devices : h # g => opened'[h] = opened[h]
        BY <1>0, <1>9 DEF DevicesFrame
    <2> QED BY <1>9, <2>1, <1>6
<1>10. CASE /\ then[a] = "list" /\ opened' = opened
            /\ work' = [work EXCEPT ![g] = IF opened[g] THEN @ \cup {"loss"} ELSE @]
    <2> DEFINE w == IF opened[g] THEN work[g] \cup {"loss"} ELSE work[g]
    <2>1. opened' \in [Devices -> BOOLEAN] /\ \A h \in Devices : h # g => opened'[h] = opened[h]
        BY <1>0, <1>10 DEF DevicesFrame
    <2>2. work' = [work EXCEPT ![g] = w] /\ work[g] \subseteq w
        BY <1>10
    <2> QED BY <1>10, <2>1, <2>2, <1>6
<1> QED BY <1>7, <1>8, <1>9, <1>10 DEF Continue

\* The sweep that ends a device which was started again.
LEMMA DevicesSweep ==
    ASSUME WindowIInv, WindowIInv', DevicesInv, NEW a \in Actors, SweepTask(a)
    PROVE  DevicesInv'
<1>0. UI \in Actors /\ UI \notin Threads /\ WindowFrame /\ WindowFrame' /\ DevicesFrame
    BY WindowAssumption DEF Actors, WindowIInv, DevicesInv
<1>1. pc[a] = "sweep" /\ UNCHANGED <<current, starts>>
    BY DEF SweepTask
<1>2. CASE pc' = [pc EXCEPT ![a] = "panel"] /\ UNCHANGED <<opened, work, status, of, then>>
    BY <1>1, <1>2, DevicesMove
<1>3. CASE /\ opened[current] /\ opened' = [opened EXCEPT ![current] = FALSE]
           /\ work' = [work EXCEPT ![current] = @ \ {"loss"}] /\ a # UI /\ UIIdle
           /\ status' = [status EXCEPT ![current] = "Disconnected"]
           /\ pc' = [pc EXCEPT ![a] = "nested", ![UI] = "read"]
           /\ of' = [of EXCEPT ![UI] = current] /\ then' = [then EXCEPT ![UI] = "nothing"]
    <2>1. /\ pc[UI] = "idle" /\ pc'[a] = "nested" /\ of'[UI] = current /\ then'[UI] = "nothing"
          /\ \A b \in Actors : b # UI => of'[b] = of[b] /\ then'[b] = then[b]
          /\ \A b \in Actors : b # UI /\ b # a => pc'[b] = pc[b]
        BY <1>0, <1>3 DEF WindowFrame, DevicesFrame, UIIdle
    <2>2. /\ \A h \in Devices : h # current =>
               status'[h] = status[h] /\ work'[h] = work[h] /\ opened'[h] = opened[h]
          /\ status'[current] = "Disconnected" /\ ~opened'[current]
          /\ work'[current] = work[current] \ {"loss"}
        BY <1>0, <1>3 DEF WindowFrame, DevicesFrame
    <2>3. \A h : Touched(h)' <=> Touched(h)
        BY <1>1 DEF Touched
    <2>4. DevicesFrame'
        <3>1. of' \in [Actors -> Devices] /\ opened' \in [Devices -> BOOLEAN]
            BY <1>0, <1>3 DEF DevicesFrame, WindowFrame
        <3>2. \A t \in Threads : then'[t] \in {"nothing", "list"}
            BY <1>0, <2>1 DEF DevicesFrame, Actors
        <3> QED BY <1>0, <1>1, <1>3, <3>1, <3>2 DEF DevicesFrame
    <2>5. GoesOn'
        BY <1>1, <2>1, <2>3 DEF DevicesInv, GoesOn
    <2>6. UntouchedRests'
        BY <2>2, <2>3 DEF DevicesInv, UntouchedRests
    <2>7. TransitEnds'
        <3>1. \A h \in Devices : Busy(h) => Busy(h)'
            BY <2>1, <2>2 DEF Busy
        <3>2. \A h \in Devices : InTransit(h)' => InTransit(h)
            BY <2>2 DEF InTransit
        <3> QED BY <1>1, <3>1, <3>2 DEF DevicesInv, TransitEnds
    <2> QED BY <2>4, <2>5, <2>6, <2>7 DEF DevicesInv
<1> QED BY <1>2, <1>3 DEF SweepTask, UIServes

\* The handler, and what its caller goes on to.
LEMMA DevicesHandler ==
    ASSUME WindowIInv, WindowIInv', DevicesInv, NEW a \in Actors, Handler(a)
    PROVE  DevicesInv'
<1> USE DEF deviceVars, shownVars, closingVars
<1>1. CASE ReadStatus(a)
    BY <1>1, DevicesMove DEF ReadStatus
<1>2. CASE ShowPop(a)
    BY <1>2, DevicesMove DEF ShowPop
<1>3. CASE AssignPop(a)
    BY <1>3, DevicesMove DEF AssignPop
<1>4. CASE ClosePop(a)
    BY <1>4, DevicesMove DEF ClosePop
<1>5. CASE SetControls(a)
    <2> DEFINE q == IF arg[a] = "Disconnected" THEN "sweep" ELSE "panel"
    <2>1. pc[a] = "controls" /\ pc' = [pc EXCEPT ![a] = q] /\ q # "idle"
          /\ UNCHANGED <<current, starts, status, opened, work, of, then>>
        BY <1>5 DEF SetControls
    <2> HIDE DEF q
    <2> QED BY <2>1, DevicesMove
<1>6. CASE SweepTask(a)
    BY <1>6, DevicesSweep
<1>7. CASE SetClosed(a)
    BY <1>7, DevicesMove DEF SetClosed
<1>8. CASE PanelTask(a)
    <2>1. pc[a] = "panel" /\ pc' = [pc EXCEPT ![a] = After(a)]
          /\ UNCHANGED <<current, starts, status, opened, work, of, then>>
        BY <1>8 DEF PanelTask
    <2>2. After(a) # "idle" \/ then[a] = "nothing"
        BY DEF After
    <2> QED BY <2>1, <2>2, DevicesMove
<1>9. CASE Continue(a)
    BY <1>9, DevicesContinue
<1> QED BY <1>1, <1>2, <1>3, <1>4, <1>5, <1>6, <1>7, <1>8, <1>9 DEF Handler

\* A click on the button: the device is stopped, or started.
LEMMA DevicesButton ==
    ASSUME WindowIInv, WindowIInv', DevicesInv, OnBnClickedButtonConnect
    PROVE  DevicesInv'
<1>0. UI \in Actors /\ UI \notin Threads /\ WindowFrame /\ WindowFrame' /\ DevicesFrame
      /\ current \in Devices /\ pc[UI] = "idle"
    BY WindowAssumption DEF Actors, WindowIInv, DevicesInv, WindowFrame,
       OnBnClickedButtonConnect, UIInput, UIIdle
<1>1. CASE Stop(current) /\ UNCHANGED starts
    BY <1>0, <1>1, DevicesStop
<1>2. CASE /\ ~Started(current) /\ StatusChanged(UI, current, "Connecting", "connect")
           /\ starts' = starts + 1 /\ UNCHANGED <<current, opened, work>>
    <2>1. /\ \A b \in Actors : b # UI => pc'[b] = pc[b] /\ of'[b] = of[b] /\ then'[b] = then[b]
          /\ of'[UI] = current /\ then'[UI] = "connect" /\ pc'[UI] = "read"
        BY <1>0, <1>2 DEF WindowFrame, DevicesFrame, StatusChanged, Started
    <2>2. \A h \in Devices : h # current => status'[h] = status[h]
        BY <1>0, <1>2 DEF WindowFrame, StatusChanged
    <2>3. starts \in Nat /\ current \in Nat /\ starts + 1 >= current
        BY <1>0, WindowAssumption DEF DevicesFrame
    <2>4. Touched(current)' /\ (starts' = current => ~Touched(current))
        BY <1>2, <2>3 DEF Touched
    <2>5. \A h \in Devices : Touched(h) => Touched(h)'
        BY <1>2, <2>3 DEF Touched
    <2>6. DevicesFrame'
        <3>1. of' \in [Actors -> Devices] /\ then' = [b \in Actors |-> then'[b]]
            BY <1>0, <1>2 DEF DevicesFrame, StatusChanged
        <3>2. \A t \in Threads : then'[t] \in {"nothing", "list"}
            BY <1>0, <2>1 DEF DevicesFrame, Actors
        <3>3. starts' \in Nat /\ starts' + 1 >= current'
            BY <1>2, <2>3
        <3> QED BY <1>0, <1>2, <3>1, <3>2, <3>3 DEF DevicesFrame
    <2>7. GoesOn'
        <3>1. \A b \in Actors : pc'[b] # "idle" /\ then'[b] # "nothing" =>
                  Touched(of[b])' \/ pc'[b] = "spin"
            <4> SUFFICES ASSUME NEW b \in Actors, pc'[b] # "idle", then'[b] # "nothing",
                                pc'[b] # "spin"
                         PROVE  Touched(of[b])'
                OBVIOUS
            <4>1. CASE b = UI
                BY <1>2, <2>1, <2>4, <4>1 DEF Touched
            <4>2. CASE b # UI
                <5>1. of[b] \in Devices /\ Touched(of[b]) /\ of'[b] = of[b]
                    BY <1>0, <2>1, <4>2 DEF DevicesInv, GoesOn, DevicesFrame
                <5> QED BY <1>2, <2>3, <5>1 DEF Touched
            <4> QED BY <4>1, <4>2
        <3>2. starts' = current' => ~opened'[current']
            BY <1>0, <1>2, <2>4 DEF DevicesInv, UntouchedRests
        <3> QED BY <1>2, <2>1, <3>1, <3>2 DEF GoesOn
    <2>8. UntouchedRests'
        BY <1>2, <2>2, <2>4, <2>5 DEF DevicesInv, UntouchedRests
    <2>9. TransitEnds'
        <3>1. Busy(current)' /\ \A h \in Devices : Busy(h) => Busy(h)'
            BY <1>0, <1>2, <2>1 DEF Busy
        <3> QED BY <1>2, <2>2, <3>1 DEF DevicesInv, TransitEnds, InTransit
    <2> QED BY <2>6, <2>7, <2>8, <2>9 DEF DevicesInv
<1> QED BY <1>1, <1>2 DEF OnBnClickedButtonConnect

\* The next device takes the place of one that was started once.
LEMMA DevicesExchange ==
    ASSUME WindowIInv, WindowIInv', DevicesInv, OnCbnSelchangeCmbNetType
    PROVE  DevicesInv'
<1>0. UI \in Actors /\ UI \notin Threads /\ WindowFrame /\ WindowFrame' /\ DevicesFrame
      /\ current \in Nat /\ pc[UI] = "idle"
    BY WindowAssumption DEF Actors, WindowIInv, DevicesInv, WindowFrame,
       OnCbnSelchangeCmbNetType, UIInput, UIIdle
<1>1. /\ current + 1 \in Devices /\ starts = current /\ current' = current + 1
      /\ of' = [of EXCEPT ![UI] = current + 1] /\ then' = [then EXCEPT ![UI] = "nothing"]
      /\ UNCHANGED <<status, opened, work, starts>>
    BY DEF OnCbnSelchangeCmbNetType, shownVars
<1>2. /\ \A b \in Actors : b # UI => pc'[b] = pc[b] /\ of'[b] = of[b] /\ then'[b] = then[b]
      /\ then'[UI] = "nothing"
    BY <1>0, <1>1 DEF WindowFrame, DevicesFrame, OnCbnSelchangeCmbNetType
<1>3. \A h \in Devices : Touched(h)' <=> Touched(h)
    BY <1>0, <1>1, WindowAssumption DEF Touched
<1>4. DevicesFrame'
    <2>1. \A t \in Threads : then'[t] \in {"nothing", "list"}
        BY <1>0, <1>2 DEF DevicesFrame, Actors
    <2> QED BY <1>0, <1>1, <2>1 DEF DevicesFrame
<1>5. GoesOn'
    BY <1>0, <1>2, <1>3 DEF DevicesInv, GoesOn, DevicesFrame
<1>6. UntouchedRests'
    BY <1>1, <1>3 DEF DevicesInv, UntouchedRests
<1>7. TransitEnds'
    <2>1. \A h \in Devices : Busy(h) => Busy(h)'
        BY <1>0, <1>1 DEF Busy
    <2> QED BY <1>0, <1>1, <2>1 DEF DevicesInv, TransitEnds, InTransit
<1> QED BY <1>4, <1>5, <1>6, <1>7 DEF DevicesInv

\* The io_context threads settle devices that were started.
LEMMA DevicesThread ==
    ASSUME WindowIInv, WindowIInv', DevicesInv, NEW t \in Threads,
           ConnectEnds(t) \/ Lost(t) \/ StopTask(t) \/ Spin(t) \/ SpinEnds(t)
    PROVE  DevicesInv'
<1> USE DEF shownVars, closingVars, deviceVars, handlerVars, Runs
<1>0. t \in Actors /\ WindowFrame /\ DevicesFrame
    BY DEF Actors, WindowIInv, DevicesInv
<1>1. CASE ConnectEnds(t)
    <2>1. PICK g \in Devices, ok \in BOOLEAN, left \in BOOLEAN :
            /\ "connect" \in work[g] /\ work' = [work EXCEPT ![g] = @ \ {"connect"}]
            /\ opened' = [opened EXCEPT ![g] = @ /\ (ok \/ left)]
            /\ StatusChanged(t, g, IF ok THEN "Connected" ELSE "Disconnected",
                             IF kind[g] = "one" THEN "list" ELSE "nothing")
        BY <1>1 DEF ConnectEnds
    <2> DEFINE s == IF ok THEN "Connected" ELSE "Disconnected"
               n == IF kind[g] = "one" THEN "list" ELSE "nothing"
               w == work[g] \ {"connect"}
               o == opened[g] /\ (ok \/ left)
    <2>2. s \in {"Connected", "Disconnected"} /\ n \in {"nothing", "list"} /\ w \subseteq work[g]
        OBVIOUS
    <2>3. o \in BOOLEAN /\ (o => opened[g]) /\ opened' = [opened EXCEPT ![g] = o]
        BY <1>0, <2>1 DEF DevicesFrame
    <2>4. StatusChanged(t, g, s, n) /\ work' = [work EXCEPT ![g] = w]
        BY <2>1
    <2>5. Touched(g)
        BY <2>1 DEF DevicesInv, UntouchedRests
    <2>6. pc[t] = "idle" /\ UNCHANGED <<current, starts>>
        BY <1>1 DEF ConnectEnds
    <2> HIDE DEF s, n, w, o
    <2> QED BY <1>0, <2>2, <2>3, <2>4, <2>5, <2>6, DevicesSettle
<1>2. CASE Lost(t)
    <2>1. PICK g \in Devices :
            /\ "loss" \in work[g] /\ work' = [work EXCEPT ![g] = @ \ {"loss"}]
            /\ opened' = [opened EXCEPT ![g] = FALSE]
            /\ StatusChanged(t, g, "Disconnected", "nothing")
        BY <1>2 DEF Lost
    <2> DEFINE w == work[g] \ {"loss"}
    <2>2. w \subseteq work[g] /\ work' = [work EXCEPT ![g] = w] /\ (FALSE => opened[g])
        BY <2>1
    <2>3. Touched(g)
        BY <2>1 DEF DevicesInv, UntouchedRests
    <2>4. pc[t] = "idle" /\ UNCHANGED <<current, starts>>
        BY <1>2 DEF Lost
    <2> HIDE DEF w
    <2> QED BY <1>0, <2>1, <2>2, <2>3, <2>4, DevicesSettle
<1>3. CASE StopTask(t)
    <2>1. PICK g \in Devices :
            /\ "stop" \in work[g] /\ work' = [work EXCEPT ![g] = @ \ {"stop"}]
            /\ StatusChanged(t, g, "Disconnected", "nothing")
        BY <1>3 DEF StopTask
    <2> DEFINE w == work[g] \ {"stop"}
               o == opened[g]
    <2>2. w \subseteq work[g] /\ work' = [work EXCEPT ![g] = w]
        BY <2>1
    <2>3. o \in BOOLEAN /\ (o => opened[g]) /\ opened' = [opened EXCEPT ![g] = o]
        BY <1>0, <1>3 DEF DevicesFrame, StopTask
    <2>4. Touched(g)
        BY <2>1 DEF DevicesInv, UntouchedRests
    <2>5. pc[t] = "idle" /\ UNCHANGED <<current, starts>>
        BY <1>3 DEF StopTask
    <2> HIDE DEF w, o
    <2> QED BY <1>0, <2>1, <2>2, <2>3, <2>4, <2>5, DevicesSettle
<1>4. CASE Spin(t)
    BY <1>0, <1>4, DevicesMove DEF Spin
<1>5. CASE SpinEnds(t)
    BY <1>5, DevicesRest DEF SpinEnds
<1> QED BY <1>1, <1>2, <1>3, <1>4, <1>5

\* Every step keeps what is said of the devices; the "X" of a pop-up stops one of them.
LEMMA DevicesStep ==
    ASSUME WindowIInv, WindowIInv', DevicesInv, PopFrame, [WindowNext]_windowVars
    PROVE  DevicesInv'
<1>1. ASSUME NEW a \in Actors, Handler(a) PROVE DevicesInv'
    BY <1>1, DevicesHandler
<1>2. CASE OnBnClickedButtonConnect
    BY <1>2, DevicesButton
<1>3. CASE OnCbnSelchangeCmbNetType
    BY <1>3, DevicesExchange
<1>4. ASSUME NEW id \in WindowIds, ClosePopUp(id) PROVE DevicesInv'
    <2>1. pc[UI] = "idle" /\ starts' = starts /\ id \in visible
        BY <1>4 DEF ClosePopUp, UIInput, UIIdle
    <2>2. map[id].device \in Devices
        BY <2>1, WindowAssumption DEF PopFrame
    <2>3. CASE Stop(map[id].device)
        BY <2>1, <2>2, <2>3, DevicesStop
    <2>4. CASE UNCHANGED <<deviceVars, handlerVars>>
        BY <2>1, <2>4, DevicesRest DEF deviceVars, handlerVars
    <2> QED BY <1>4, <2>3, <2>4 DEF ClosePopUp
<1>5. CASE Agreed
    <2>1. pc[UI] = "idle" /\ starts' = starts /\ Stop(current) /\ current \in Devices
        BY <1>5 DEF Agreed, UIInput, UIIdle, WindowIInv, WindowFrame
    <2> QED BY <2>1, DevicesStop
<1>6. CASE \/ \E id \in WindowIds : PopUpTimer(id)
           \/ PopUpMessage \/ OnClose \/ Cancelled \/ SaveFails \/ SaveStarts \/ SaveEnds
           \/ UNCHANGED windowVars
    <2>1. UNCHANGED <<current, starts, status, opened, work, of, then, pc>>
        BY <1>6 DEF PopUpTimer, PopUpMessage, OnClose, Cancelled, SaveFails, SaveStarts,
           SaveEnds, deviceVars, handlerVars, shownVars, windowVars
    <2> QED BY <2>1, DevicesRest
<1>7. ASSUME NEW t \in Threads,
             ConnectEnds(t) \/ Lost(t) \/ StopTask(t) \/ Spin(t) \/ SpinEnds(t)
      PROVE  DevicesInv'
    BY <1>7, DevicesThread
<1>8. UI \in Actors /\ Threads \subseteq Actors
    BY DEF Actors
<1> QED BY <1>1, <1>2, <1>3, <1>4, <1>5, <1>6, <1>7, <1>8 DEF WindowNext


-------------------------------------------------------------------------------
\* A sequence with one more element.
LEMMA Appended ==
    ASSUME NEW S, NEW s \in Seq(S), NEW e \in S
    PROVE  /\ Append(s, e) \in Seq(S)
           /\ DOMAIN s = 1..Len(s) /\ Len(s) \in Nat
           /\ DOMAIN Append(s, e) = 1..Len(s) + 1
           /\ \A k \in DOMAIN s : Append(s, e)[k] = s[k]
           /\ Append(s, e)[Len(s) + 1] = e
OBVIOUS

\* The rest of a sequence is the sequence from its second element.
LEMMA Shifted ==
    ASSUME NEW S, NEW s \in Seq(S), s # <<>>
    PROVE  /\ Tail(s) \in Seq(S) /\ Len(s) \in Nat /\ Len(s) >= 1
           /\ DOMAIN s = 1..Len(s) /\ 1 \in DOMAIN s
           /\ DOMAIN Tail(s) = 1..Len(s) - 1
           /\ \A k \in DOMAIN Tail(s) : k + 1 \in DOMAIN s /\ Tail(s)[k] = s[k + 1]
           /\ Head(s) = s[1] /\ Head(s) \in S
           /\ \A k \in DOMAIN s : k = 1 \/ \E j \in DOMAIN Tail(s) : Tail(s)[j] = s[k]
<1>1. /\ Tail(s) \in Seq(S) /\ Len(s) \in Nat /\ Len(s) >= 1
      /\ DOMAIN s = 1..Len(s) /\ 1 \in DOMAIN s
      /\ DOMAIN Tail(s) = 1..Len(s) - 1
      /\ \A k \in DOMAIN Tail(s) : k + 1 \in DOMAIN s /\ Tail(s)[k] = s[k + 1]
      /\ Head(s) = s[1] /\ Head(s) \in S
    OBVIOUS
<1>2. ASSUME NEW k \in DOMAIN s, k # 1
      PROVE  \E j \in DOMAIN Tail(s) : Tail(s)[j] = s[k]
    <2>1. k - 1 \in DOMAIN Tail(s) /\ (k - 1) + 1 = k
        BY <1>1, <1>2
    <2>2. Tail(s)[k - 1] = s[(k - 1) + 1]
        BY <1>1, <2>1
    <2> QED BY <2>1, <2>2
<1> QED BY <1>1, <1>2

\* No window comes to tell of a status, and none is opened.
Falls ==
    /\ \A i \in WindowIds : StatusPop(i)' /\ Open(i)' => StatusPop(i) /\ Open(i)
    /\ Open(pop)' => Open(pop)

\* The windows of the pop-ups, after a step that is Falls.
WindowsFall == PopFrame' /\ CreatedFirst' /\ Falls

\* The windows and their messages are left alone.
LEMMA PopWindowsRest ==
    ASSUME PopsInv, UNCHANGED <<popVars, pop>>, saving' \in WindowIds \cup {NoWindow},
           made' \in [Actors -> WindowIds \cup {NoWindow}]
    PROVE  WindowsFall
BY DEF PopsInv, WindowsFall, Falls, PopFrame, CreatedFirst, StatusPop, Open, popVars

\* A window is destroyed.
LEMMA DestroyFalls ==
    ASSUME PopsInv, NEW id \in WindowIds, map[id] \in Looks, Destroy(id),
           UNCHANGED <<posted, pop, saving, made>>
    PROVE  WindowsFall
<1>1. PopFrame /\ CreatedFirst
    BY DEF PopsInv
<1>2. /\ map'[id] = Free /\ \A i \in WindowIds : i # id => map'[i] = map[i]
      /\ visible' = visible \ {id}
    BY <1>1 DEF PopFrame, Destroy
<1>3. PopFrame'
    BY <1>1, <1>2 DEF PopFrame, Destroy
<1>4. \A k \in DOMAIN posted : posted[k] \in Messages /\ posted[k].id \in WindowIds \cup {NoWindow}
    BY <1>1 DEF PopFrame, Messages
<1>5. CreatedFirst'
    <2>1. ASSUME NEW k \in DOMAIN posted, posted[k].msg = "create"
          PROVE  map'[posted[k].id] = Reserved
        <3>1. posted[k].id \in WindowIds
            BY <1>4, <2>1 DEF Messages
        <3>2. posted[k].id # id
            BY <1>1, <2>1, PopWindowAssumption DEF CreatedFirst
        <3> QED BY <1>1, <1>2, <2>1, <3>1, <3>2 DEF CreatedFirst
    <2> QED BY <1>1, <2>1 DEF CreatedFirst
<1>6. \A i \in WindowIds : (StatusPop(i)' => StatusPop(i)) /\ (Open(i)' => Open(i))
    BY <1>2 DEF StatusPop, Open
<1>7. Open(pop)' => Open(pop)
    BY <1>1, <1>2 DEF Open, PopFrame
<1> QED BY <1>3, <1>5, <1>6, <1>7 DEF WindowsFall, Falls

\* The window procedure takes the next message.
LEMMA HookFalls ==
    ASSUME PopsInv, HookWndProc, UNCHANGED <<pop, saving, made>>
    PROVE  WindowsFall
<1> DEFINE m == Head(posted)
<1>1. PopFrame /\ CreatedFirst /\ posted # <<>> /\ posted' = Tail(posted)
    BY DEF PopsInv, HookWndProc
<1>2. /\ posted' \in Seq(Messages) /\ 1 \in DOMAIN posted /\ m = posted[1] /\ m \in Messages
      /\ \A k \in DOMAIN posted' : k \in Nat /\ k >= 1 /\ k + 1 \in DOMAIN posted
                                     /\ posted'[k] = posted[k + 1]
    BY <1>1, Shifted DEF PopFrame
<1> HIDE DEF m
<1>3. \A k \in DOMAIN posted' : posted'[k].msg = "create" =>
         posted'[k].id # m.id /\ map[posted'[k].id] = Reserved
    BY <1>1, <1>2 DEF CreatedFirst
<1>4. \A k \in DOMAIN posted' : posted'[k].msg = "create" => posted'[k].id \in WindowIds
    BY <1>2 DEF Messages
<1>5. \A i : (\E k \in DOMAIN posted' : posted'[k].id = i /\ posted'[k].msg # "delete"
                                         /\ StatusLook(posted'[k].look)) => StatusPop(i)
    BY <1>2 DEF StatusPop
<1>6. \A i \in WindowIds : i # m.id => map'[i] = map[i] /\ (i \in visible' <=> i \in visible)
    BY <1>1 DEF HookWndProc, NewPopWindow, ChangePopWindow, ClosePopWindow, Destroy, PopFrame, m
<1>7. CreatedFirst'
    <2>1. ASSUME NEW k \in DOMAIN posted', posted'[k].msg = "create"
          PROVE  map'[posted'[k].id] = Reserved
        BY <1>3, <1>4, <1>6, <2>1
    <2>2. ASSUME NEW k \in DOMAIN posted', posted'[k].msg = "create", NEW j \in 1..k - 1
          PROVE  posted'[j].id # posted'[k].id
        <3>1. DOMAIN posted' = 1..Len(posted') /\ Len(posted') \in Nat
            BY <1>2
        <3>2. j \in DOMAIN posted' /\ j + 1 \in 1..(k + 1) - 1
            BY <3>1, <2>2
        <3> QED BY <1>1, <1>2, <2>2, <3>2 DEF CreatedFirst
    <2> QED BY <2>1, <2>2 DEF CreatedFirst
<1>8. CASE m.msg = "create" /\ NewPopWindow(m)
    <2>1. m.id \in WindowIds /\ m.look \in Looks /\ map[m.id] = Reserved
        BY <1>1, <1>2, <1>8 DEF Messages, CreatedFirst
    <2>2. map'[m.id] = m.look /\ visible' = visible \cup {m.id}
        BY <1>1, <1>8, <2>1 DEF NewPopWindow, PopFrame
    <2>3. PopFrame'
        BY <1>1, <1>2, <1>6, <1>8, <2>1, <2>2 DEF PopFrame, NewPopWindow, SetTimer
    <2>4. \A i \in WindowIds : StatusPop(i)' => StatusPop(i)
        <3>1. StatusLook(m.look) => StatusPop(m.id)
            BY <1>2, <1>8 DEF StatusPop
        <3> QED BY <1>5, <1>6, <2>2, <3>1 DEF StatusPop
    <2>5. \A i \in WindowIds : Open(i)' => Open(i)
        <3>1. \A k \in DOMAIN posted : k = 1 \/ \E j \in DOMAIN posted' : posted'[j] = posted[k]
            BY <1>1, Shifted DEF PopFrame
        <3>2. \A k \in DOMAIN posted : posted[k].msg = "delete" =>
                 \E j \in DOMAIN posted' : posted'[j] = posted[k]
            BY <1>2, <1>8, <3>1
        <3> QED BY <1>6, <2>1, <3>2, PopWindowAssumption DEF Open
    <2>6. Open(pop)' => Open(pop)
        BY <1>1, <2>5 DEF Open, PopFrame
    <2> QED BY <1>7, <2>3, <2>4, <2>5, <2>6 DEF WindowsFall, Falls
<1>9. CASE m.msg = "update" /\ ChangePopWindow(m)
    <2>1. m.id \in WindowIds /\ m.look \in Looks
        BY <1>2, <1>9 DEF Messages
    <2>2. /\ visible' = visible /\ (m.id \in visible => map'[m.id] = m.look /\ map[m.id] \in Looks)
          /\ (m.id \notin visible => map'[m.id] = map[m.id])
        BY <1>1, <1>9, <2>1 DEF ChangePopWindow, PopFrame
    <2>3. PopFrame'
        BY <1>1, <1>2, <1>6, <1>9, <2>1, <2>2 DEF PopFrame, ChangePopWindow, SetTimer
    <2>4. \A i \in WindowIds : StatusPop(i)' => StatusPop(i)
        <3>1. StatusLook(m.look) => StatusPop(m.id)
            BY <1>2, <1>9 DEF StatusPop
        <3> QED BY <1>5, <1>6, <2>2, <3>1 DEF StatusPop
    <2>5. \A i \in WindowIds : Open(i)' => Open(i)
        <3>1. \A k \in DOMAIN posted : k = 1 \/ \E j \in DOMAIN posted' : posted'[j] = posted[k]
            BY <1>1, Shifted DEF PopFrame
        <3>2. \A k \in DOMAIN posted : posted[k].msg = "delete" =>
                 \E j \in DOMAIN posted' : posted'[j] = posted[k]
            BY <1>2, <1>9, <3>1
        <3> QED BY <1>6, <2>1, <2>2, <3>2, PopWindowAssumption DEF Open
    <2>6. Open(pop)' => Open(pop)
        BY <1>1, <2>5 DEF Open, PopFrame
    <2> QED BY <1>7, <2>3, <2>4, <2>5, <2>6 DEF WindowsFall, Falls
<1>10. CASE m.msg = "delete" /\ ClosePopWindow(m)
    <2>1. /\ visible' \subseteq visible
          /\ m.id \in WindowIds => map'[m.id] = Free
          /\ m.id \in visible' => map[m.id] \in Looks
        BY <1>1, <1>10 DEF ClosePopWindow, Destroy, PopFrame
    <2>2. m.id \notin visible' \/ map'[m.id] = map[m.id]
        BY <1>1, <1>10 DEF ClosePopWindow, Destroy, PopFrame
    <2>3. PopFrame'
        BY <1>1, <1>2, <1>6, <1>10, <2>1, <2>2 DEF PopFrame, ClosePopWindow, Destroy
    <2>4. \A i \in WindowIds : StatusPop(i)' => StatusPop(i)
        BY <1>5, <1>6, <2>1, <2>2 DEF StatusPop
    <2>5. \A i \in WindowIds : Open(i)' => Open(i)
        <3>1. \A k \in DOMAIN posted : k = 1 \/ \E j \in DOMAIN posted' : posted'[j] = posted[k]
            BY <1>1, Shifted DEF PopFrame
        <3>2. \A k \in DOMAIN posted : posted[k].msg = "delete" =>
                 posted[k].id = m.id \/ \E j \in DOMAIN posted' : posted'[j] = posted[k]
            BY <1>2, <3>1
        <3>3. ASSUME NEW i \in WindowIds, Open(i)' PROVE Open(i)
            <4>1. i # m.id
                BY <2>1, <3>3 DEF Open
            <4> QED BY <1>6, <3>2, <3>3, <4>1 DEF Open
        <3> QED BY <3>3
    <2>6. Open(pop)' => Open(pop)
        BY <1>1, <2>5 DEF Open, PopFrame
    <2> QED BY <1>7, <2>3, <2>4, <2>5, <2>6 DEF WindowsFall, Falls
<1> QED BY <1>8, <1>9, <1>10 DEF HookWndProc, m

\* What a message at the end of the queue does: a new window is made for a
\* reserved identifier, whose window is not there and which no message names.
LEMMA ShowFalls ==
    ASSUME PopsInv, NEW held, {pop, saving} \subseteq held,
           NEW id \in NewWindowId(held), NEW look \in Looks, NEW timer \in BOOLEAN,
           Show(id, look, timer), UNCHANGED pop,
           saving' \in WindowIds \cup {NoWindow},
           made' \in [Actors -> WindowIds \cup {NoWindow}]
    PROVE  /\ PopFrame' /\ CreatedFirst' /\ (Open(pop)' => Open(pop))
           /\ \A i \in WindowIds : i # id =>
                  (StatusPop(i)' => StatusPop(i)) /\ (Open(i)' => Open(i))
           /\ StatusPop(id)' => StatusLook(look)
<1> DEFINE m == [msg |-> "create", id |-> id, look |-> look, timer |-> timer]
<1>1. PopFrame /\ CreatedFirst
    BY DEF PopsInv
<1>2. /\ id \in WindowIds /\ id # pop /\ map[id] = Free
      /\ \A k \in DOMAIN posted : posted[k].id # id
    BY DEF NewWindowId
<1>3. m \in Messages /\ posted' = Append(posted, m)
    BY <1>2 DEF Messages, Show
<1>4. m.msg = "create" /\ m.id = id /\ m.look = look
    OBVIOUS
<1> HIDE DEF m
<1>5. /\ posted' \in Seq(Messages) /\ DOMAIN posted = 1..Len(posted) /\ Len(posted) \in Nat
      /\ DOMAIN posted' = 1..Len(posted) + 1 /\ posted'[Len(posted) + 1] = m
      /\ \A k \in DOMAIN posted : posted'[k] = posted[k]
    BY <1>1, <1>3, Appended DEF PopFrame
<1>6. \A k \in DOMAIN posted' : k \in DOMAIN posted \/ (k = Len(posted) + 1 /\ posted'[k] = m)
    BY <1>5
<1>7. /\ map' = [map EXCEPT ![id] = Reserved] /\ UNCHANGED <<visible, timed>>
      /\ map'[id] = Reserved /\ \A i \in WindowIds : i # id => map'[i] = map[i]
    BY <1>1, <1>2 DEF Show, PopFrame
<1>8. id \notin visible
    BY <1>1, <1>2, PopWindowAssumption DEF PopFrame
<1>9. PopFrame'
    BY <1>1, <1>5, <1>7, <1>8 DEF PopFrame
<1>10. CreatedFirst'
    <2>1. ASSUME NEW k \in DOMAIN posted', posted'[k].msg = "create"
          PROVE  /\ map'[posted'[k].id] = Reserved
                 /\ \A j \in 1..k - 1 : posted'[j].id # posted'[k].id
        <3>1. CASE k \in DOMAIN posted
            <4>1. posted[k].id \in WindowIds /\ posted[k].id # id
                BY <1>1, <1>2, <1>5, <2>1, <3>1 DEF PopFrame, Messages
            <4>2. \A j \in 1..k - 1 : j \in DOMAIN posted
                BY <1>5, <3>1
            <4> QED BY <1>1, <1>5, <1>7, <2>1, <3>1, <4>1, <4>2 DEF CreatedFirst
        <3>2. CASE k = Len(posted) + 1 /\ posted'[k] = m
            <4>1. \A j \in 1..k - 1 : j \in DOMAIN posted
                BY <1>5, <3>2
            <4> QED BY <1>2, <1>4, <1>5, <1>7, <3>2, <4>1
        <3> QED BY <1>6, <3>1, <3>2
    <2> QED BY <2>1 DEF CreatedFirst
<1>11. \A i \in WindowIds : i # id => (StatusPop(i)' => StatusPop(i)) /\ (Open(i)' => Open(i))
    <2>1. ASSUME NEW i \in WindowIds, i # id PROVE StatusPop(i)' => StatusPop(i)
        BY <1>4, <1>5, <1>6, <1>7, <2>1 DEF StatusPop
    <2>2. ASSUME NEW i \in WindowIds, i # id PROVE Open(i)' => Open(i)
        BY <1>5, <1>7, <2>2 DEF Open
    <2> QED BY <2>1, <2>2
<1>12. StatusPop(id)' => StatusLook(look)
    BY <1>2, <1>4, <1>5, <1>6, <1>7, <1>8 DEF StatusPop
<1>13. Open(pop)' => Open(pop)
    BY <1>1, <1>2, <1>11 DEF Open, PopFrame
<1> QED BY <1>9, <1>10, <1>11, <1>12, <1>13

\* A pop-up that tells of something else.
LEMMA SaveFalls ==
    ASSUME PopsInv, current \in Devices, SaveFails \/ SaveStarts \/ SaveEnds
    PROVE  WindowsFall
<1>1. PopFrame /\ CreatedFirst
    BY DEF PopsInv
<1>2. ASSUME NEW id \in FreshId, NEW what \in {"error", "saving"}, NEW timer \in BOOLEAN,
             Show(id, Look(what), timer), UNCHANGED <<pop, made>>,
             saving' \in WindowIds \cup {NoWindow}
      PROVE  WindowsFall
    <2>1. Look(what) \in Looks /\ ~StatusLook(Look(what))
        BY <1>2, WindowAssumption DEF Look, StatusLook
    <2>2. made' \in [Actors -> WindowIds \cup {NoWindow}]
        BY <1>1, <1>2 DEF PopFrame
    <2> DEFINE held == {pop, saving} \cup {made[a] : a \in Actors}
    <2>3. id \in NewWindowId(held) /\ {pop, saving} \subseteq held
        BY <1>2 DEF FreshId
    <2> HIDE DEF held
    <2>4. /\ PopFrame' /\ CreatedFirst' /\ (Open(pop)' => Open(pop))
          /\ \A i \in WindowIds : i # id => (StatusPop(i)' => StatusPop(i)) /\ (Open(i)' => Open(i))
          /\ StatusPop(id)' => StatusLook(Look(what))
        BY <1>2, <2>1, <2>2, <2>3, ShowFalls
    <2> QED BY <2>1, <2>4 DEF WindowsFall, Falls
<1>3. CASE SaveFails
    <2>1. PICK id \in FreshId : Show(id, Look("error"), TRUE)
        BY <1>3 DEF SaveFails
    <2>2. UNCHANGED <<pop, made>> /\ saving' \in WindowIds \cup {NoWindow}
        BY <1>1, <1>3 DEF SaveFails, handlerVars, shownVars, closingVars, PopFrame
    <2> QED BY <1>2, <2>1, <2>2
<1>4. CASE SaveStarts
    <2>1. PICK id \in FreshId : Show(id, Look("saving"), FALSE) /\ saving' = id
        BY <1>4 DEF SaveStarts
    <2>2. UNCHANGED <<pop, made>> /\ saving' \in WindowIds \cup {NoWindow}
        BY <1>4, <2>1 DEF SaveStarts, handlerVars, shownVars, FreshId, NewWindowId
    <2> QED BY <1>2, <2>1, <2>2
<1>5. CASE SaveEnds
    <2> DEFINE m == [msg |-> "update", id |-> saving, look |-> Look("saved"), timer |-> FALSE]
    <2>1. saving \in WindowIds /\ Look("saved") \in Looks /\ ~StatusLook(Look("saved"))
        BY <1>1, <1>5, WindowAssumption DEF SaveEnds, PopFrame, Look, StatusLook
    <2>2. m \in Messages /\ m.msg = "update" /\ ~StatusLook(m.look)
        BY <2>1 DEF Messages
    <2>3. /\ posted' = Append(posted, m) /\ UNCHANGED <<map, visible, timed, pop, made>>
          /\ saving' = NoWindow
        BY <1>5 DEF SaveEnds, Update, handlerVars, shownVars
    <2> HIDE DEF m
    <2>4. /\ posted' \in Seq(Messages) /\ DOMAIN posted \subseteq DOMAIN posted'
          /\ \A k \in DOMAIN posted : posted'[k] = posted[k]
          /\ \A k \in DOMAIN posted' : k \in DOMAIN posted \/ posted'[k] = m
        BY <1>1, <2>2, <2>3, Appended DEF PopFrame
    <2>5. PopFrame'
        BY <1>1, <2>3, <2>4 DEF PopFrame
    <2>6. CreatedFirst'
        <3>1. ASSUME NEW k \in DOMAIN posted', posted'[k].msg = "create"
              PROVE  /\ map'[posted'[k].id] = Reserved
                     /\ \A j \in 1..k - 1 : posted'[j].id # posted'[k].id
            <4>1. k \in DOMAIN posted /\ posted'[k] = posted[k]
                BY <2>2, <2>4, <3>1
            <4>2. \A j \in 1..k - 1 : j \in DOMAIN posted
                BY <1>1, <4>1 DEF PopFrame
            <4> QED BY <1>1, <2>3, <2>4, <3>1, <4>1, <4>2 DEF CreatedFirst
        <3> QED BY <3>1 DEF CreatedFirst
    <2>7. \A i : (StatusPop(i)' => StatusPop(i)) /\ (Open(i)' => Open(i))
        BY <2>2, <2>3, <2>4 DEF StatusPop, Open
    <2>8. Open(pop)' => Open(pop)
        BY <2>3, <2>7 DEF Open
    <2> QED BY <2>5, <2>6, <2>7, <2>8 DEF WindowsFall, Falls
<1> QED BY <1>3, <1>4, <1>5

\* PopWindow::Close of the pop-up of the status: it is not open any more.
LEMMA CloseFalls ==
    ASSUME PopsInv, Close(pop), UNCHANGED <<pop, saving, made>>
    PROVE  WindowsFall /\ ~Open(pop)'
<1> DEFINE m == [msg |-> "delete", id |-> pop]
<1>1. PopFrame /\ CreatedFirst
    BY DEF PopsInv
<1>2. m \in Messages /\ m.msg = "delete" /\ m.id = pop
    BY <1>1 DEF Messages, PopFrame
<1>3. posted' = Append(posted, m) /\ UNCHANGED <<map, visible, timed>>
    BY DEF Close
<1> HIDE DEF m
<1>4. /\ posted' \in Seq(Messages) /\ DOMAIN posted \subseteq DOMAIN posted'
      /\ \A k \in DOMAIN posted : posted'[k] = posted[k]
      /\ \A k \in DOMAIN posted' : k \in DOMAIN posted \/ posted'[k] = m
      /\ \E k \in DOMAIN posted' : posted'[k] = m
    <2>1. Len(posted) + 1 \in DOMAIN posted' /\ posted'[Len(posted) + 1] = m
        BY <1>1, <1>2, <1>3, Appended DEF PopFrame
    <2> QED BY <1>1, <1>2, <1>3, <2>1, Appended DEF PopFrame
<1>5. PopFrame'
    BY <1>1, <1>3, <1>4 DEF PopFrame
<1>6. CreatedFirst'
    <2>1. ASSUME NEW k \in DOMAIN posted', posted'[k].msg = "create"
          PROVE  /\ map'[posted'[k].id] = Reserved
                 /\ \A j \in 1..k - 1 : posted'[j].id # posted'[k].id
        <3>1. k \in DOMAIN posted /\ posted'[k] = posted[k]
            BY <1>2, <1>4, <2>1
        <3>2. \A j \in 1..k - 1 : j \in DOMAIN posted
            BY <1>1, <3>1 DEF PopFrame
        <3> QED BY <1>1, <1>3, <1>4, <2>1, <3>1, <3>2 DEF CreatedFirst
    <2> QED BY <2>1 DEF CreatedFirst
<1>7. \A i : (StatusPop(i)' => StatusPop(i)) /\ (Open(i)' => Open(i))
    BY <1>2, <1>3, <1>4 DEF StatusPop, Open
<1>8. ~Open(pop)'
    BY <1>2, <1>4 DEF Open
<1> QED BY <1>5, <1>6, <1>7, <1>8 DEF WindowsFall, Falls

\* A step that makes no window, and of whose threads none comes to have one to store.
LEMMA PopsMove ==
    ASSUME PopsInv, WindowsFall, UNCHANGED <<pop, made>>, missed => missed',
           \A a \in Actors : pc[a] = "assign" <=> pc'[a] = "assign",
           \A a \in Actors : pc[a] = "assign" => arg'[a] = arg[a]
    PROVE  PopsInv'
<1>1. PopsKnown'
    BY DEF PopsInv, WindowsFall, Falls, PopsKnown
<1>2. ArgShown'
    BY DEF PopsInv, ArgShown
<1> QED BY <1>1, <1>2 DEF PopsInv, WindowsFall

\* A step that changes no window, and of whose threads none comes to show one.
LEMMA EndsMove ==
    ASSUME PopsEnd, Open(pop)' => Open(pop), missed => missed',
           status' = status,
           \A a \in Actors :
               pc'[a] \in {"read", "pop", "assign"} \/ pc[a] \in {"read", "pop", "assign"}
                   => pc'[a] = pc[a] /\ arg'[a] = arg[a] /\ of'[a] = of[a]
    PROVE  PopsEnd'
<1>1. ASSUME NEW b \in Actors, Showing(b)' PROVE Showing(b)
    BY <1>1 DEF Showing
<1>2. ASSUME NEW b \in Actors, Closer(b) PROVE Closer(b)'
    BY <1>2 DEF Closer, InTransit
<1>3. \A g : InTransit(g) <=> InTransit(g)'
    BY DEF InTransit
<1> QED BY <1>1, <1>2, <1>3 DEF PopsEnd

\* A report: the thread is to show a pop-up, or to close it.
LEMMA PopsReport ==
    ASSUME WindowFrame, PopsInv, PopsEnd, WindowsFall, NEW a \in Actors, NEW g \in Devices,
           NEW s, NEW n, pc[a] = "idle", StatusChanged(a, g, s, n), UNCHANGED <<pop, missed>>
    PROVE  PopsInv' /\ PopsEnd'
<1>1. /\ \A b \in Actors : b # a => pc'[b] = pc[b] /\ of'[b] = of[b]
      /\ UNCHANGED <<arg, made>> /\ of'[a] = g /\ status'[g] = s
      /\ pc'[a] = "read" \/ (status' = status /\ pc'[a] \in {"idle", "then"})
    BY DEF WindowFrame, StatusChanged
<1>2. PopsInv'
    BY <1>1, PopsMove
<1>3. PopsEnd'
    <2>1. CASE pc'[a] = "read"
        <3>1. InTransit(g)' \/ Closer(a)'
            BY <1>1, <2>1 DEF InTransit, Closer
        <3> QED BY <3>1 DEF PopsEnd
    <2>2. CASE status' = status /\ pc'[a] \in {"idle", "then"}
        BY <1>1, <2>2, EndsMove DEF WindowsFall, Falls
    <2> QED BY <1>1, <2>1, <2>2
<1> QED BY <1>2, <1>3

\* Nothing happens to the threads.
LEMMA PopsRest ==
    ASSUME PopsInv, PopsEnd, WindowsFall, UNCHANGED <<status, pc, of, arg, made, pop, missed>>
    PROVE  PopsInv' /\ PopsEnd'
BY PopsMove, EndsMove DEF WindowsFall, Falls

\* A thread moves on behind the pop-up.
LEMMA PopsPass ==
    ASSUME WindowFrame, PopsInv, PopsEnd, NEW a \in Actors, NEW q,
           pc[a] \notin {"read", "pop", "assign"}, q \notin {"read", "pop", "assign"},
           pc' = [pc EXCEPT ![a] = q],
           UNCHANGED <<popVars, status, of, arg, made, pop, saving, missed>>
    PROVE  PopsInv' /\ PopsEnd'
<1>1. WindowsFall
    <2>1. saving \in WindowIds \cup {NoWindow} /\ made \in [Actors -> WindowIds \cup {NoWindow}]
        BY DEF PopsInv, PopFrame
    <2> QED BY <2>1, PopWindowsRest
<1>2. pc'[a] = q /\ \A b \in Actors : b # a => pc'[b] = pc[b]
    BY DEF WindowFrame
<1>3. PopsInv'
    BY <1>1, <1>2, PopsMove
<1>4. PopsEnd'
    BY <1>1, <1>2, EndsMove DEF WindowsFall, Falls
<1> QED BY <1>3, <1>4

\* The handler shows the pop-up, stores it and closes it.
LEMMA PopsHandler ==
    ASSUME WindowFrame, DevicesFrame, PopsInv, PopsEnd, NEW a \in Actors, Handler(a)
    PROVE  PopsInv' /\ PopsEnd'
<1> USE DEF deviceVars, shownVars, closingVars
<1>0. saving \in WindowIds \cup {NoWindow} /\ made \in [Actors -> WindowIds \cup {NoWindow}]
      /\ pop \in WindowIds \cup {NoWindow} /\ UI \in Actors
    BY DEF PopsInv, PopFrame, Actors
<1>1. CASE ReadStatus(a)
    <2>1. WindowsFall
        BY <1>0, <1>1, PopWindowsRest DEF ReadStatus
    <2>2. /\ pc[a] = "read" /\ pc'[a] = "pop" /\ arg'[a] = status[of[a]] /\ of[a] \in Devices
          /\ \A b \in Actors : b # a => pc'[b] = pc[b] /\ arg'[b] = arg[b]
          /\ UNCHANGED <<status, of, pop, made, missed>>
        BY <1>1 DEF ReadStatus, WindowFrame, DevicesFrame
    <2>3. PopsInv'
        BY <2>1, <2>2, PopsMove
    <2>4. InTransit(of[a])' \/ Closer(a)'
        BY <2>2 DEF InTransit, Closer
    <2>5. PopsEnd'
        BY <2>2, <2>4 DEF PopsEnd
    <2> QED BY <2>3, <2>5
<1>2. CASE ShowPop(a)
    <2> DEFINE look == Look(IF arg[a] = "Connecting" THEN "connecting" ELSE "closing")
    <2>1. PICK id \in FreshId : Show(id, look, FALSE) /\ made' = [made EXCEPT ![a] = id]
        BY <1>2 DEF ShowPop
    <2>2. /\ pc[a] = "pop" /\ arg[a] \in {"Connecting", "Disconnecting"} /\ pc'[a] = "assign"
          /\ \A b \in Actors : b # a => pc'[b] = pc[b]
          /\ UNCHANGED <<current, status, of, arg, pop, missed, saving>>
        BY <1>2 DEF ShowPop, WindowFrame
    <2>3. look \in Looks
        BY WindowAssumption DEF Look, WindowFrame
    <2> DEFINE held == {pop, saving} \cup {made[b] : b \in Actors}
    <2>4. id \in NewWindowId(held) /\ {pop, saving} \subseteq held /\ id \in WindowIds
        BY <2>1 DEF FreshId, NewWindowId
    <2>5. made' \in [Actors -> WindowIds \cup {NoWindow}] /\ made'[a] = id
          /\ \A b \in Actors : b # a => made'[b] = made[b]
        BY <1>0, <2>1, <2>4
    <2> HIDE DEF held, look
    <2>6. /\ PopFrame' /\ CreatedFirst' /\ (Open(pop)' => Open(pop))
          /\ \A i \in WindowIds : i # id => (StatusPop(i)' => StatusPop(i)) /\ (Open(i)' => Open(i))
        BY <1>0, <2>1, <2>2, <2>3, <2>4, <2>5, ShowFalls
    <2>7. PopsKnown'
        <3> SUFFICES ASSUME ~missed, NEW i \in WindowIds, StatusPop(i)', Open(i)', i # pop
                     PROVE  \E b \in Actors : pc'[b] = "assign" /\ made'[b] = i
            BY <2>2 DEF PopsKnown
        <3>1. CASE i = id
            BY <2>2, <2>5, <3>1
        <3>2. CASE i # id
            <4>1. PICK b \in Actors : pc[b] = "assign" /\ made[b] = i
                BY <2>6, <3>2 DEF PopsInv, PopsKnown
            <4> QED BY <2>2, <2>5, <4>1
        <3> QED BY <3>1, <3>2
    <2>8. ArgShown'
        BY <2>2 DEF PopsInv, ArgShown
    <2>9. PopsEnd'
        <3>1. Showing(a)
            BY <2>2 DEF Showing
        <3>2. \A b \in Actors : Closer(b) => Closer(b)'
            <4>1. ~Closer(a)
                BY <2>2 DEF Closer
            <4>2. ASSUME NEW b \in Actors, Closer(b) PROVE Closer(b)'
                <5>1. b # a
                    BY <4>1, <4>2
                <5> QED BY <2>2, <4>2, <5>1 DEF Closer, InTransit
            <4> QED BY <4>2
        <3>3. \A g : InTransit(g) <=> InTransit(g)'
            BY <2>2 DEF InTransit
        <3> QED BY <2>2, <3>1, <3>2, <3>3 DEF PopsEnd
    <2> QED BY <2>6, <2>7, <2>8, <2>9 DEF PopsInv
<1>3. CASE AssignPop(a)
    <2>1. /\ pc[a] = "assign" /\ pc'[a] = "controls" /\ pop' = made[a]
          /\ missed' = (missed \/ Open(pop)) /\ made' = [made EXCEPT ![a] = NoWindow]
          /\ \A b \in Actors : b # a => pc'[b] = pc[b] /\ made'[b] = made[b]
          /\ UNCHANGED <<popVars, status, of, arg, saving>>
        BY <1>0, <1>3 DEF AssignPop, WindowFrame
    <2>2. PopFrame' /\ CreatedFirst'
        BY <1>0, <2>1 DEF PopsInv, PopFrame, CreatedFirst, popVars
    <2>3. \A i : (StatusPop(i)' <=> StatusPop(i)) /\ (Open(i)' <=> Open(i))
        BY <2>1 DEF StatusPop, Open, popVars
    <2>4. PopsKnown'
        <3> SUFFICES ASSUME ~missed', NEW i \in WindowIds, StatusPop(i)', Open(i)', i # pop'
                     PROVE  \E b \in Actors : pc'[b] = "assign" /\ made'[b] = i
            BY DEF PopsKnown
        <3>1. ~missed /\ ~Open(pop) /\ StatusPop(i) /\ Open(i)
            BY <2>1, <2>3
        <3>2. PICK b \in Actors : pc[b] = "assign" /\ made[b] = i
            BY <3>1 DEF PopsInv, PopsKnown
        <3> QED BY <2>1, <3>2
    <2>5. ArgShown'
        BY <2>1 DEF PopsInv, ArgShown
    <2>6. PopsEnd'
        <3>1. Showing(a)
            BY <2>1 DEF PopsInv, ArgShown, Showing
        <3>2. ASSUME NEW b \in Actors, Closer(b) PROVE Closer(b)'
            <4>1. b # a
                BY <2>1, <3>2 DEF Closer
            <4> QED BY <2>1, <3>2, <4>1 DEF Closer, InTransit
        <3>3. \A g : InTransit(g) <=> InTransit(g)'
            BY <2>1 DEF InTransit
        <3> QED BY <2>1, <3>1, <3>2, <3>3 DEF PopsEnd
    <2> QED BY <2>2, <2>4, <2>5, <2>6 DEF PopsInv
<1>4. CASE ClosePop(a)
    <2>1. /\ pc[a] = "pop" /\ pc'[a] = "controls" /\ Close(pop)
          /\ missed' = (missed \/ \E b \in Actors \ {a} : Showing(b))
          /\ \A b \in Actors : b # a => pc'[b] = pc[b]
          /\ UNCHANGED <<status, of, arg, made, pop, saving>>
        BY <1>4 DEF ClosePop, WindowFrame
    <2>2. WindowsFall /\ ~Open(pop)'
        BY <2>1, CloseFalls
    <2>3. PopsInv'
        BY <2>1, <2>2, PopsMove
    <2>4. PopsEnd'
        <3>1. \A b \in Actors : Showing(b)' => b # a /\ Showing(b)
            BY <2>1 DEF Showing
        <3> QED BY <2>1, <2>2, <3>1 DEF PopsEnd
    <2> QED BY <2>3, <2>4
<1>5. CASE SetControls(a)
    <2> DEFINE q == IF arg[a] = "Disconnected" THEN "sweep" ELSE "panel"
    <2>1. /\ pc[a] = "controls" /\ pc' = [pc EXCEPT ![a] = q] /\ q \in {"sweep", "panel"}
          /\ UNCHANGED <<popVars, status, of, arg, made, pop, saving, missed>>
        BY <1>5 DEF SetControls
    <2> HIDE DEF q
    <2> QED BY <2>1, PopsPass
<1>6. CASE SweepTask(a)
    <2>1. CASE pc' = [pc EXCEPT ![a] = "panel"] /\ UNCHANGED <<opened, work, status, of, then>>
        BY <1>6, <2>1, PopsPass DEF SweepTask
    <2>2. CASE /\ status' = [status EXCEPT ![current] = "Disconnected"]
               /\ pc' = [pc EXCEPT ![a] = "nested", ![UI] = "read"] /\ a # UI /\ UIIdle
               /\ of' = [of EXCEPT ![UI] = current]
        <3>1. WindowsFall
            BY <1>0, <1>6, PopWindowsRest DEF SweepTask
        <3>2. /\ pc[a] = "sweep" /\ pc'[a] = "nested" /\ pc[UI] = "idle" /\ pc'[UI] = "read"
              /\ \A b \in Actors : b # a /\ b # UI => pc'[b] = pc[b]
              /\ UNCHANGED <<arg, made, pop, missed>>
              /\ of'[UI] = current /\ status'[current] = "Disconnected"
            BY <1>0, <1>6, <2>2 DEF SweepTask, WindowFrame, DevicesFrame, UIIdle
        <3>3. PopsInv'
            BY <3>1, <3>2, PopsMove
        <3>4. Closer(UI)'
            BY <3>2 DEF Closer, InTransit
        <3> QED BY <1>0, <3>3, <3>4 DEF PopsEnd
    <2> QED BY <1>6, <2>1, <2>2 DEF SweepTask, UIServes
<1>7. CASE SetClosed(a)
    BY <1>7, PopsPass DEF SetClosed
<1>8. CASE PanelTask(a)
    <2>1. /\ pc[a] = "panel" /\ pc' = [pc EXCEPT ![a] = After(a)] /\ After(a) \in {"idle", "then"}
          /\ UNCHANGED <<popVars, status, of, arg, made, pop, saving, missed>>
        BY <1>8 DEF PanelTask, After
    <2> QED BY <2>1, PopsPass
<1>9. CASE Continue(a)
    <2>1. /\ pc[a] = "then" /\ pc' = [pc EXCEPT ![a] = "idle"]
          /\ UNCHANGED <<popVars, status, of, arg, made, pop, saving, missed>>
        BY <1>9 DEF Continue
    <2> QED BY <2>1, PopsPass
<1> QED BY <1>1, <1>2, <1>3, <1>4, <1>5, <1>6, <1>7, <1>8, <1>9 DEF Handler

\* Stop on the UI thread reports, or does nothing.
LEMMA PopsStop ==
    ASSUME WindowFrame, PopsInv, PopsEnd, WindowsFall, NEW g \in Devices, pc[UI] = "idle",
           Stop(g), UNCHANGED <<pop, missed>>
    PROVE  PopsInv' /\ PopsEnd'
<1>0. UI \in Actors
    BY DEF Actors
<1>1. CASE StatusChanged(UI, g, "Disconnected", "nothing")
    BY <1>0, <1>1, PopsReport
<1>2. CASE StatusChanged(UI, g, "Disconnecting", "stop")
    BY <1>0, <1>2, PopsReport
<1>3. CASE UNCHANGED <<deviceVars, handlerVars>>
    BY <1>3, PopsRest DEF deviceVars, handlerVars
<1> QED BY <1>1, <1>2, <1>3 DEF Stop

\* Every step keeps what is said of the pop-ups.
LEMMA PopsStep ==
    ASSUME WindowFrame, DevicesFrame, PopsInv, PopsEnd, [WindowNext]_windowVars
    PROVE  PopsInv' /\ PopsEnd'
<1> USE DEF deviceVars, shownVars, closingVars, handlerVars
<1>0. /\ UI \in Actors /\ Threads \subseteq Actors /\ current \in Devices
      /\ saving \in WindowIds \cup {NoWindow} /\ made \in [Actors -> WindowIds \cup {NoWindow}]
    BY DEF Actors, WindowFrame, PopsInv, PopFrame
<1>1. ASSUME NEW a \in Actors, Handler(a) PROVE PopsInv' /\ PopsEnd'
    BY <1>1, PopsHandler
<1>2. CASE OnBnClickedButtonConnect
    <2>1. pc[UI] = "idle" /\ made' = made /\ UNCHANGED <<popVars, pop, saving, missed>>
        BY <1>2 DEF OnBnClickedButtonConnect, UIInput, UIIdle, Stop, StatusChanged
    <2>2. WindowsFall
        BY <1>0, <2>1, PopWindowsRest
    <2>3. CASE Stop(current)
        BY <1>0, <2>1, <2>2, <2>3, PopsStop
    <2>4. CASE StatusChanged(UI, current, "Connecting", "connect")
        BY <1>0, <2>1, <2>2, <2>4, PopsReport
    <2> QED BY <1>2, <2>3, <2>4 DEF OnBnClickedButtonConnect
<1>3. CASE OnCbnSelchangeCmbNetType
    <2>1. WindowsFall
        BY <1>0, <1>3, PopWindowsRest DEF OnCbnSelchangeCmbNetType
    <2>2. /\ pc[UI] = "idle" /\ pc'[UI] = "pop" /\ current' = current + 1
          /\ current' \in Devices /\ of'[UI] = current' /\ arg'[UI] = status[current']
          /\ \A b \in Actors : b # UI => pc'[b] = pc[b] /\ arg'[b] = arg[b]
          /\ UNCHANGED <<status, made, pop, missed>>
        BY <1>0, <1>3 DEF OnCbnSelchangeCmbNetType, UIInput, UIIdle, WindowFrame, DevicesFrame
    <2>3. PopsInv'
        BY <1>0, <2>1, <2>2, PopsMove
    <2>4. InTransit(current)' \/ Closer(UI)'
        BY <2>2 DEF InTransit, Closer
    <2>5. PopsEnd'
        BY <1>0, <2>2, <2>4 DEF PopsEnd
    <2> QED BY <2>3, <2>5
<1>4. ASSUME NEW id \in WindowIds, ClosePopUp(id) PROVE PopsInv' /\ PopsEnd'
    <2>1. /\ pc[UI] = "idle" /\ id \in visible /\ Destroy(id)
          /\ UNCHANGED <<posted, pop, saving, missed, made>>
        BY <1>4 DEF ClosePopUp, UIInput, UIIdle, Closed, Stop, StatusChanged
    <2>2. map[id] \in Looks /\ map[id].device \in Devices
        BY <2>1, WindowAssumption DEF PopsInv, PopFrame
    <2>3. WindowsFall
        BY <2>1, <2>2, DestroyFalls
    <2>4. CASE Stop(map[id].device)
        BY <2>1, <2>2, <2>3, <2>4, PopsStop
    <2>5. CASE UNCHANGED <<deviceVars, handlerVars>>
        BY <2>1, <2>3, <2>5, PopsRest
    <2> QED BY <1>4, <2>4, <2>5 DEF ClosePopUp
<1>5. ASSUME NEW id \in WindowIds, PopUpTimer(id) PROVE PopsInv' /\ PopsEnd'
    <2>1. /\ id \in timed /\ Destroy(id)
          /\ UNCHANGED <<posted, pop, saving, made, status, pc, of, arg, missed>>
        BY <1>5 DEF PopUpTimer, OnTimer
    <2>2. map[id] \in Looks
        BY <2>1 DEF PopsInv, PopFrame
    <2>3. WindowsFall
        BY <2>1, <2>2, DestroyFalls
    <2> QED BY <2>1, <2>3, PopsRest
<1>6. CASE PopUpMessage
    <2>1. HookWndProc /\ UNCHANGED <<pop, saving, made, status, pc, of, arg, missed>>
        BY <1>6 DEF PopUpMessage
    <2> QED BY <2>1, HookFalls, PopsRest
<1>7. CASE SaveFails \/ SaveStarts \/ SaveEnds
    <2>1. UNCHANGED <<pop, made, status, pc, of, arg, missed>>
        BY <1>7 DEF SaveFails, SaveStarts, SaveEnds
    <2>2. WindowsFall
        BY <1>0, <1>7, SaveFalls
    <2> QED BY <2>1, <2>2, PopsRest
<1>8. CASE OnClose \/ Cancelled \/ UNCHANGED windowVars
    <2>1. UNCHANGED <<popVars, pop, saving, made, status, pc, of, arg, missed>>
        BY <1>8 DEF OnClose, Cancelled, windowVars
    <2>2. WindowsFall
        BY <1>0, <2>1, PopWindowsRest
    <2> QED BY <2>1, <2>2, PopsRest
<1>9. CASE Agreed
    <2>1. /\ pc[UI] = "idle" /\ Stop(current) /\ made' = made
          /\ UNCHANGED <<popVars, pop, saving, missed>>
        BY <1>9 DEF Agreed, UIInput, UIIdle, Stop, StatusChanged
    <2>2. WindowsFall
        BY <1>0, <2>1, PopWindowsRest
    <2> QED BY <1>0, <2>1, <2>2, PopsStop
<1>10. ASSUME NEW t \in Threads, ConnectEnds(t) \/ Lost(t) \/ StopTask(t)
       PROVE  PopsInv' /\ PopsEnd'
    <2>1. PICK g \in Devices : \E s, n : StatusChanged(t, g, s, n)
        BY <1>10 DEF ConnectEnds, Lost, StopTask
    <2>2. /\ pc[t] = "idle" /\ t \in Actors
          /\ UNCHANGED <<popVars, pop, saving, missed>>
        BY <1>0, <1>10 DEF ConnectEnds, Lost, StopTask, Runs
    <2>3. made' = made
        BY <2>1 DEF StatusChanged
    <2>4. WindowsFall
        BY <1>0, <2>2, <2>3, PopWindowsRest
    <2> QED BY <2>1, <2>2, <2>4, PopsReport
<1>11. ASSUME NEW t \in Threads, Spin(t) PROVE PopsInv' /\ PopsEnd'
    BY <1>0, <1>11, PopsPass DEF Spin, Runs
<1>12. ASSUME NEW t \in Threads, SpinEnds(t) PROVE PopsInv' /\ PopsEnd'
    <2>1. UNCHANGED <<popVars, pop, saving, made, status, pc, of, arg, missed>>
        BY <1>12 DEF SpinEnds
    <2>2. WindowsFall
        BY <1>0, <2>1, PopWindowsRest
    <2> QED BY <2>1, <2>2, PopsRest
<1> QED BY <1>0, <1>1, <1>2, <1>3, <1>4, <1>5, <1>6, <1>7, <1>8, <1>9, <1>10, <1>11, <1>12
        DEF WindowNext

\* The invariant holds at the start.
LEMMA PopsStart == WindowInit => PopsIInv
<1> SUFFICES ASSUME WindowInit PROVE PopsIInv
    OBVIOUS
<1>0. WindowIInv
    BY WindowStarts
<1>1. DevicesInv
    <2>1. DevicesFrame
        BY WindowAssumption DEF WindowInit, DevicesFrame, Actors
    <2>2. GoesOn /\ UntouchedRests /\ TransitEnds
        BY DEF WindowInit, GoesOn, UntouchedRests, TransitEnds, InTransit, Actors
    <2> QED BY <2>1, <2>2 DEF DevicesInv
<1>2. PopsInv
    <2>1. posted = <<>> /\ visible = {} /\ \A a \in Actors : pc[a] = "idle"
        BY DEF WindowInit, PopWindowInit
    <2>2. PopFrame
        <3>1. posted \in Seq(Messages)
            BY <2>1, EmptySeq
        <3> QED BY <3>1 DEF WindowInit, PopWindowInit, PopFrame
    <2>3. CreatedFirst /\ PopsKnown /\ ArgShown
        BY <2>1 DEF CreatedFirst, PopsKnown, ArgShown, StatusPop
    <2> QED BY <2>2, <2>3 DEF PopsInv
<1>3. PopsEnd
    BY DEF WindowInit, PopsEnd, Open, Showing
<1> QED BY <1>0, <1>1, <1>2, <1>3 DEF PopsIInv

\* The invariant of the pop-ups, with any number of devices, threads and identifiers.
THEOREM PopsInvariant == WindowSpec => []PopsIInv
<1>1. PopsIInv /\ [WindowNext]_windowVars => PopsIInv'
    <2> SUFFICES ASSUME PopsIInv, [WindowNext]_windowVars PROVE PopsIInv'
        OBVIOUS
    <2>1. WindowIInv /\ WindowFrame /\ DevicesInv /\ DevicesFrame /\ PopsInv /\ PopFrame /\ PopsEnd
        BY DEF PopsIInv, WindowIInv, DevicesInv, PopsInv
    <2>2. WindowIInv'
        BY <2>1, WindowStep
    <2>3. DevicesInv'
        BY <2>1, <2>2, DevicesStep
    <2>4. PopsInv' /\ PopsEnd'
        BY <2>1, PopsStep
    <2> QED BY <2>2, <2>3, <2>4 DEF PopsIInv
<1> QED BY <1>1, PopsStart, PTL DEF WindowSpec

\* Once a device is connected or disconnected no pop-up says that it is being connected
\* or closed, however many threads went through OnDeviceStatusChanged at once, unless a
\* Close came while another thread had its pop-up still to store.
THEOREM WindowPops == WindowSpec => []NoStatusPopLeft
<1>1. PopsIInv => NoStatusPopLeft
    <2> SUFFICES ASSUME PopsIInv, Quiet, ~missed, ~InTransit(current),
                        NEW id \in visible, StatusLook(map[id])
                 PROVE  FALSE
        BY DEF NoStatusPopLeft, StatusLook, InTransit
    <2>1. WindowIInv /\ DevicesInv /\ PopsInv /\ PopFrame /\ PopsEnd
        BY DEF PopsIInv, PopsInv
    <2>2. \A a \in Actors : pc[a] \in {"idle", "spin"} /\ (a = UI => pc[a] = "idle")
        BY DEF Quiet, Actors
    <2>3. \A g \in Devices : ~InTransit(g)
        BY <2>1, <2>2 DEF Quiet, Busy, DevicesInv, TransitEnds
    <2>4. \A a \in Actors : ~Closer(a)
        BY <2>2 DEF Closer
    <2>5. ~Open(pop)
        BY <2>1, <2>3, <2>4 DEF PopsEnd
    <2>6. id \in WindowIds /\ id # NoWindow /\ map[id] # Free
        BY <2>1, PopWindowAssumption, NoWindowAssumption DEF PopFrame
    <2>7. StatusPop(id) /\ Open(id)
        BY <2>6 DEF StatusPop, Open, Quiet
    <2>8. id = pop
        BY <2>1, <2>2, <2>6, <2>7 DEF PopsInv, PopsKnown
    <2> QED BY <2>5, <2>7, <2>8
<1> QED BY <1>1, PopsInvariant, PTL

-------------------------------------------------------------------------------
(* The settings of a device.                                                 *)

PropertySpec == PropertyInit /\ [][PropertyNext]_propertyVars

\* A setting with a list that is not closed is a text or the rate of a port.
ListedIsText == property.editor = "options" => property.setter \in {"text", "baud"}

PropertyIInv ==
    /\ ListedIsText
    /\ refused \in BOOLEAN /\ unsaved \in BOOLEAN
    /\ SettingsAgree

\* What the getter gives, written to the profile and read back, is what the setter
\* stored: no setter changes a value that it has taken once before.
LEMMA StoredAgain ==
    ASSUME NEW p, NEW v \in Texts, ~Unknown(p, v)
    PROVE  Loaded(p, Stored(p, v)) = Stored(p, v)
<1>1. Number(v) \in Numbers /\ Number(v) \in Nat
    BY NumbersAssumption DEF Number
<1>2. \A n \in Numbers : Number(n) = n
    BY DEF Number
<1>3. CASE p.setter = "text"
    BY <1>3 DEF Loaded, Unknown, Stored
<1>4. CASE p.setter = "word"
    <2>1. Number(v) % 65536 \in Numbers
        BY <1>1, NumbersAssumption
    <2>2. (Number(v) % 65536) % 65536 = Number(v) % 65536
        BY <1>1
    <2> QED BY <1>2, <1>4, <2>1, <2>2 DEF Loaded, Unknown, Stored
<1>5. CASE p.setter = "flag"
    BY <1>5 DEF Loaded, Unknown, Stored
<1>6. CASE p.setter = "dtr"
    BY <1>2, <1>6, NumbersAssumption DEF Loaded, Unknown, Stored
<1>7. CASE p.setter = "mode"
    BY <1>7 DEF Loaded, Unknown, Stored
<1>8. CASE p.setter \notin {"text", "word", "flag", "dtr", "mode"}
    <2>1. Stored(p, v) = Number(v)
        BY <1>8 DEF Stored
    <2>2. Stored(p, Number(v)) = Number(v) /\ ~Unknown(p, Number(v))
        BY <1>1, <1>2, <1>8 DEF Stored, Unknown
    <2> QED BY <2>1, <2>2 DEF Loaded
<1> QED BY <1>3, <1>4, <1>5, <1>6, <1>7, <1>8

\* Putting properties in a group gives them no new editor and no new setter.
LEMMA GroupKeeps ==
    ASSUME NEW name, NEW table,
           \A p \in table : p.editor = "options" => p.setter \in {"text", "baud"},
           \A p \in table : p = [name |-> p.name, flag |-> p.flag, setter |-> p.setter,
                                 editor |-> p.editor]
    PROVE  \A p \in Group(name, table) : p.editor = "options" => p.setter \in {"text", "baud"}
BY DEF Group

\* In the tables of EnumProperties only texts and rates have a list to type into.
LEMMA TablesListTexts ==
    \A c \in DOMAIN EnumProperties : \A p \in EnumProperties[c] :
        p.editor = "options" => p.setter \in {"text", "baud"}
<1> DEFINE Good(t) == \A p \in t : p.editor = "options" => p.setter \in {"text", "baud"}
<1> DEFINE Whole(t) == \A p \in t : p = [name |-> p.name, flag |-> p.flag,
                                         setter |-> p.setter, editor |-> p.editor]
<1>1. Good(TCPServerTable) /\ Good(TCPMultipleTable) /\ Good(TCPClientTable)
    BY DEF TCPServerTable, TCPMultipleTable, TCPClientTable, Counts, P, Address, Host, Port,
           Flag, Protocol
<1>2. Good(UDPBasicTable) /\ Good(UDPClientTable)
    BY DEF UDPBasicTable, UDPClientTable, P, Address, Host, Port, Flag, Protocol
<1>3. Good(WebSocketClientTable) /\ Good(WebSocketMultipleTable) /\ Good(WebSocketServerTable)
    BY DEF WebSocketClientTable, WebSocketMultipleTable, WebSocketServerTable, WebModes,
           Counts, P, Address, Host, Port, Flag
<1>4. Good(SerialPortTable) /\ Whole(SerialPortTable)
    BY DEF SerialPortTable, P
<1>5. Good(ForwardStreamTable) /\ Whole(ForwardStreamTable)
    BY DEF ForwardStreamTable, P, Host, Port, Flag, Protocol
<1>6. Good(SerialSwitchTable) /\ Good(SerialToTCPTable)
    <2>1. \A n \in {"PortA", "PortB"} :
             Good(Group(n, SerialPortTable)) /\ Good(Group(n, ForwardStreamTable))
        BY <1>4, <1>5, GroupKeeps
    <2> HIDE DEF Good
    <2>2. \A s, t : Good(s) /\ Good(t) => Good(s \cup t)
        BY DEF Good
    <2> QED BY <2>1, <2>2 DEF SerialSwitchTable, SerialToTCPTable, SerialStreamTable
<1>7. Good(TCPForwardTable)
    <2>1. Good({Address("ListenAddress"), Port("ListenPort")})
          /\ Whole({Address("ListenAddress"), Port("ListenPort")})
        BY DEF P, Address, Port
    <2>2. Good({Host("RemoteHost"), Port("RemotePort")})
          /\ Whole({Host("RemoteHost"), Port("RemotePort")})
        BY DEF P, Host, Port
    <2>3. Good({Flag("ReuseAddress"), Flag("Keepalive")})
        BY DEF P, Flag
    <2>4. Good(Group("Local", {Address("ListenAddress"), Port("ListenPort")}))
        BY <2>1, GroupKeeps
    <2>5. Good(Group("Remote", {Host("RemoteHost"), Port("RemotePort")}))
        BY <2>2, GroupKeeps
    <2> HIDE DEF Good
    <2>6. \A s, t : Good(s) /\ Good(t) => Good(s \cup t)
        BY DEF Good
    <2> QED BY <2>3, <2>4, <2>5, <2>6 DEF TCPForwardTable
<1> HIDE DEF Good
<1>8. \A c \in DOMAIN EnumProperties : Good(EnumProperties[c])
    BY <1>1, <1>2, <1>3, <1>4, <1>6, <1>7 DEF EnumProperties
<1> QED BY <1>8 DEF Good

\* The dialog starts with settings that agree: nothing is stored or shown yet.
LEMMA PropertyInitially == PropertyInit => PropertyIInv
BY TablesListTexts DEF PropertyInit, PropertyIInv, ListedIsText, SettingsAgree

\* An edited value is refused by its setter, or stored, shown as stored, and saved.
LEMMA EditKeeps ==
    ASSUME PropertyIInv, NEW v \in Texts, Edit(v)
    PROVE  PropertyIInv'
<1>1. ListedIsText'
    BY DEF PropertyIInv, ListedIsText, Edit
<1>2. CASE ~Unknown(property, v) /\ Taken(v)
    <2>1. Loaded(property, Stored(property, v)) = Stored(property, v)
        BY <1>2, StoredAgain
    <2>2. property' = property /\ field' = Stored(property, v) /\ saved' = field'
          /\ refused' = FALSE /\ unsaved' = FALSE /\ shown' = Refreshed(v, field')
        BY <1>2 DEF Edit, Taken
    <2>3. Loaded(property', saved') = field'
        BY <2>1, <2>2
    <2>4. property.setter = "baud" \/ shown' = field'
        BY <2>2 DEF Refreshed, PropertyIInv, ListedIsText, Stored
    <2> QED BY <1>1, <2>2, <2>3, <2>4 DEF PropertyIInv, SettingsAgree
<1>3. CASE Refused(v)
    BY <1>1, <1>3 DEF PropertyIInv, SettingsAgree, Edit, Refused
<1> QED BY <1>2, <1>3 DEF Edit

\* Every step of the dialog, the panel and the program's end keeps the invariant.
LEMMA PropertyStep == PropertyIInv /\ [PropertyNext]_propertyVars => PropertyIInv'
<1> SUFFICES ASSUME PropertyIInv, [PropertyNext]_propertyVars
             PROVE  PropertyIInv'
    OBVIOUS
<1>1. CASE NewDevice
    BY <1>1 DEF PropertyIInv, ListedIsText, SettingsAgree, NewDevice
<1>2. CASE OpenList
    BY <1>2 DEF PropertyIInv, ListedIsText, SettingsAgree, OpenList, historyOfSetters
<1>3. CASE StartOrEnd
    BY <1>3 DEF PropertyIInv, ListedIsText, SettingsAgree, StartOrEnd, historyOfSetters
<1>4. CASE UpdateProperties
    BY <1>4 DEF PropertyIInv, ListedIsText, SettingsAgree, UpdateProperties, Refreshed
<1>5. CASE Leave
    BY <1>5 DEF PropertyIInv, ListedIsText, SettingsAgree, Leave
<1>6. CASE Enter
    BY <1>6 DEF PropertyIInv, ListedIsText, SettingsAgree, Enter, historyOfSetters
<1>7. CASE \E v \in Texts : Type(v) \/ Select(v)
    BY <1>7, EditKeeps DEF Type, Select
<1>8. CASE UNCHANGED propertyVars
    BY <1>8 DEF PropertyIInv, ListedIsText, SettingsAgree, propertyVars, historyOfSetters
<1> QED BY <1>1, <1>2, <1>3, <1>4, <1>5, <1>6, <1>7, <1>8 DEF PropertyNext

\* Whatever is typed, chosen, restarted, stored and read back, the invariant holds.
THEOREM PropertyInvariant == PropertySpec => []PropertyIInv
BY PropertyInitially, PropertyStep, PTL DEF PropertySpec

\* What the panel shows, the device has, and the profile will give it again unless
\* the panel was told so.
THEOREM SettingsStayAgreed == PropertySpec => []SettingsAgree
<1>1. PropertyIInv => SettingsAgree
    BY DEF PropertyIInv
<1> QED BY <1>1, PropertyInvariant, PTL
===============================================================================
