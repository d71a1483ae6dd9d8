------------------------ MODULE TCPSingleClientProofs ------------------------
(***************************************************************************)
(* Proofs about TCPSingleClient for every set of attempts and of writes.    *)
(***************************************************************************)
EXTENDS TCPSingleClient, TLAPS

\* An attempt that has not reported yet, and has not failed, finds m_Opened
\* set unless it has been cut.
CutUnlessOpened ==
  \A a \in Attempts :
    chain[a] \in {"resolving", "connecting", "okSet"} => opened \/ a \in cut

\* An attempt reads only once its channel is added.
ReadsOnceAdded ==
  \A a \in Attempts : chain[a] \in InFlight \cup {"idle"} => op[a] = "idle"

\* The inductive invariant.  TypeOK, OpenedIsServed, ReadsOnceAdded and
\* CutUnlessOpened are inductive alone; the two others need them.
IInv ==
  /\ TypeOK
  /\ ReadsOnceAdded
  /\ OpenedIsServed
  /\ CutUnlessOpened
  /\ StrandedHasCause
  /\ OpenSocketIsOwned

\* A client that was never started satisfies the invariant.
LEMMA InitIInv == Init => IInv
BY AttemptsAssumption
   DEF Init, IInv, TypeOK, ReadsOnceAdded, Ops, OpenedIsServed, CutUnlessOpened, StrandedHasCause,
       OpenSocketIsOwned, Statuses, Socks, Phases, OpPhases, InFlight, Unreported

-----------------------------------------------------------------------------
(* One step of each invariant, an action at a time.                         *)

\* The phases named one by one in the actions are phases.
LEMMA PhaseNames ==
  /\ {"idle", "okOwn", "done", "okTell", "okAdd", "failTell", "failAdd",
      "resolving", "connecting", "okSet", "failSet"} \subseteq Phases
  /\ Attempts \subseteq Ops /\ Sends \subseteq Ops
BY DEF Phases, InFlight, Unreported, Ops

\* What a close and a call of the window's status handler do to the types.
LEMMA CloseTypes ==
  ASSUME TypeOK, CloseSocket \/ NothingToClose
  PROVE  opened' \in BOOLEAN /\ sock' \in Socks /\ cut' \in SUBSET Attempts
BY DEF TypeOK, CloseSocket, NothingToClose, Socks, Flying

\* What the window does when it is told a status keeps the types.
LEMMA WindowTypes ==
  ASSUME TypeOK, UNCHANGED owner, NEW s \in Statuses, OnDeviceStatusChanged(s)
  PROVE  /\ status' \in Statuses /\ shown' \in Statuses
         /\ opened' \in BOOLEAN /\ sock' \in Socks /\ cut' \in SUBSET Attempts
         /\ listed' \in BOOLEAN /\ button' \in BOOLEAN /\ popup' \in BOOLEAN
         /\ lost' \in BOOLEAN
<1>1. CASE s = "Disconnected" /\ listed /\ CloseSocket
  BY <1>1, CloseTypes DEF TypeOK, OnDeviceStatusChanged, ShowDisconnected,
     CloseSocket, Statuses
<1>2. CASE s = "Disconnected" /\ ~(listed /\ CloseSocket)
  BY <1>2 DEF TypeOK, OnDeviceStatusChanged, ShowDisconnected, Statuses
<1>3. CASE s # "Disconnected"
  BY <1>3 DEF TypeOK, OnDeviceStatusChanged, ShowStarted
<1> QED
  BY <1>1, <1>2, <1>3

\* Every step keeps the types.
LEMMA TypeStep == TypeOK /\ [Next]_vars => TypeOK'
<1> SUFFICES ASSUME TypeOK, [Next]_vars PROVE TypeOK'
  OBVIOUS
<1> USE PhaseNames DEF TypeOK, chanVars, uiVars, Statuses, Socks, OpPhases, Flying
<1>1. CASE ClickConnect
  BY <1>1 DEF ClickConnect
<1>2. CASE Connect
  BY <1>2 DEF Connect
<1>3. CASE ClickDisconnect
  BY <1>3 DEF ClickDisconnect, Stop, CloseSocket, NothingToClose
<1>4. CASE ClosePopup
  BY <1>4 DEF ClosePopup, Stop, CloseSocket, NothingToClose
<1>5. CASE StopNotify
  BY <1>5 DEF StopNotify
<1>6. ASSUME NEW o \in Sends, Send(o) PROVE TypeOK'
  BY <1>6 DEF Send
<1>7. ASSUME NEW a \in Attempts, ConnectThread(a) PROVE TypeOK'
  <2>1. CASE ResolveFails(a) \/ ResolveDone(a)
    <3>1. CASE ResolveFails(a)
      BY <3>1 DEF ResolveFails, Go
    <3>2. CASE ResolveDone(a)
      BY <3>2 DEF ResolveDone, Go
    <3> QED
      BY <2>1, <3>1, <3>2
  <2>2. CASE ConnectDone(a) \/ ConnectFails(a)
    <3>1. CASE ConnectDone(a)
      BY <3>1 DEF ConnectDone, Go
    <3>2. CASE ConnectFails(a)
      BY <3>2, CloseTypes DEF ConnectFails, Go
    <3> QED
      BY <2>2, <3>1, <3>2
  <2>3. CASE ReportConnected(a) \/ ReportFailed(a)
    <3>1. CASE ReportConnected(a)
      <4>1. chain' \in [Attempts -> Phases] /\ status' \in Statuses
        BY <3>1 DEF ReportConnected, SetStatus
      <4> QED
        BY <3>1, <4>1 DEF ReportConnected
    <3>2. CASE ReportFailed(a)
      <4>1. chain' \in [Attempts -> Phases] /\ status' \in Statuses
        BY <3>2 DEF ReportFailed, SetStatus
      <4> QED
        BY <3>2, <4>1 DEF ReportFailed
    <3> QED
      BY <2>3, <3>1, <3>2
  <2>4. CASE TellWindow(a)
    <3>1. PICK s \in Statuses : OnDeviceStatusChanged(s)
      BY <2>4 DEF TellWindow
    <3>2. chain' \in [Attempts -> Phases]
      BY <2>4 DEF TellWindow, Go
    <3> QED
      BY <2>4, <3>1, <3>2, WindowTypes DEF TellWindow
  <2>5. CASE AddChannel(a) \/ SetOwner(a)
    <3>1. CASE AddChannel(a)
      <4>1. chain' \in [Attempts -> Phases]
        BY <3>1 DEF AddChannel, Go
      <4> QED
        BY <3>1, <4>1 DEF AddChannel
    <3>2. CASE SetOwner(a)
      BY <3>2 DEF SetOwner, Go
    <3> QED
      BY <2>5, <3>1, <3>2
  <2> QED
    BY <1>7, <2>1, <2>2, <2>3, <2>4, <2>5 DEF ConnectThread
<1>8. ASSUME NEW o \in Ops, IoThread(o) PROVE TypeOK'
  <2>1. CASE IoDone(o) \/ IoCanceled(o)
    <3>1. CASE IoDone(o)
      BY <3>1 DEF IoDone
    <3>2. CASE IoCanceled(o)
      BY <3>2 DEF IoCanceled
    <3> QED
      BY <2>1, <3>1, <3>2
  <2>2. CASE IoFails(o)
    <3>1. op' \in [Ops -> OpPhases]
      BY <2>2 DEF IoFails
    <3>2. lost' \in BOOLEAN /\ (CloseSocket \/ NothingToClose)
      BY <2>2 DEF IoFails
    <3> QED
      BY <2>2, <3>1, <3>2, CloseTypes DEF IoFails
  <2>3. CASE NotifyRemove(o) \/ NotifyStatus(o)
    <3>1. CASE NotifyRemove(o)
      <4>1. op' \in [Ops -> OpPhases]
        BY <3>1 DEF NotifyRemove
      <4> QED
        BY <3>1, <4>1 DEF NotifyRemove
    <3>2. CASE NotifyStatus(o)
      <4>1. op' \in [Ops -> OpPhases] /\ status' \in Statuses
        BY <3>2 DEF NotifyStatus
      <4> QED
        BY <3>2, <4>1 DEF NotifyStatus
    <3> QED
      BY <2>3, <3>1, <3>2
  <2>4. CASE NotifyWindow(o)
    <3>1. PICK s \in Statuses : OnDeviceStatusChanged(s)
      BY <2>4 DEF NotifyWindow
    <3> QED
      BY <2>4, <3>1, WindowTypes DEF NotifyWindow
  <2> QED
    BY <1>8, <2>1, <2>2, <2>3, <2>4 DEF IoThread
<1>9. CASE UNCHANGED vars
  BY <1>9 DEF vars
<1> QED
  BY <1>1, <1>2, <1>3, <1>4, <1>5, <1>6, <1>7, <1>8, <1>9 DEF Next, UIThread

\* The close resets m_Opened, empties m_Socket and cuts what is in flight.
LEMMA WindowEffect ==
  ASSUME TypeOK, NEW s, OnDeviceStatusChanged(s)
  PROVE  \/ UNCHANGED <<status, opened, sock, cut, lost>>
         \/ /\ CloseSocket
            /\ owner => status' = "Disconnected" /\ lost' = lost
            /\ ~owner => lost' = TRUE
BY DEF OnDeviceStatusChanged, ShowStarted, ShowDisconnected, TypeOK

\* Every step keeps that an open connection is served.
LEMMA ServedStep == TypeOK /\ OpenedIsServed /\ [Next]_vars => OpenedIsServed'
<1> SUFFICES ASSUME TypeOK, OpenedIsServed, [Next]_vars, opened'
             PROVE  OpenedIsServed'
  BY DEF OpenedIsServed
<1> USE DEF TypeOK, chanVars, uiVars, OpenedIsServed
<1>1. CASE ClickConnect
  BY <1>1 DEF ClickConnect
<1>2. CASE Connect
  BY <1>2 DEF Connect, InFlight, Unreported
<1>3. CASE ClickDisconnect \/ ClosePopup
  BY <1>3 DEF ClickDisconnect, ClosePopup, Stop, CloseSocket, NothingToClose
<1>4. CASE StopNotify
  BY <1>4 DEF StopNotify
<1>5. ASSUME NEW o \in Sends, Send(o) PROVE OpenedIsServed'
  BY <1>5, AttemptsAssumption DEF Send, Ops
<1>6. ASSUME NEW a \in Attempts, ConnectThread(a) PROVE OpenedIsServed'
  <2>1. CASE ResolveFails(a) \/ ResolveDone(a) \/ ConnectDone(a) \/ ConnectFails(a)
    BY <2>1 DEF ResolveFails, ResolveDone, ConnectDone, ConnectFails, Go,
                CloseSocket, NothingToClose, InFlight, Unreported
  <2>2. CASE ReportConnected(a) \/ ReportFailed(a)
    BY <2>2 DEF ReportConnected, ReportFailed, SetStatus, InFlight, Unreported
  <2>3. CASE TellWindow(a)
    <3>1. chain'[a] \in InFlight
      BY <2>3 DEF TellWindow, Go, InFlight, Unreported
    <3> QED
      BY <2>3, <3>1
  <2>4. CASE AddChannel(a)
    BY <2>4 DEF AddChannel, Ops
  <2>5. CASE SetOwner(a)
    <3>1. \A b \in Attempts : chain[b] \in InFlight => chain'[b] \in InFlight
      BY <2>5 DEF SetOwner, Go, InFlight, Unreported
    <3> QED
      BY <2>5, <3>1 DEF SetOwner
  <2> QED
    BY <1>6, <2>1, <2>2, <2>3, <2>4, <2>5 DEF ConnectThread
<1>7. ASSUME NEW o \in Ops, IoThread(o) PROVE OpenedIsServed'
  <2>1. CASE IoDone(o)
    BY <2>1, AttemptsAssumption DEF IoDone, Ops
  <2>2. CASE IoCanceled(o)
    BY <2>2 DEF IoCanceled
  <2>3. CASE IoFails(o)
    BY <2>3 DEF IoFails, CloseSocket, NothingToClose
  <2>4. CASE NotifyRemove(o) \/ NotifyStatus(o)
    <3>1. \A p \in Ops : op[p] = "pending" => op'[p] = "pending"
      BY <2>4 DEF NotifyRemove, NotifyStatus
    <3> QED
      BY <2>4, <3>1 DEF NotifyRemove, NotifyStatus, Ops
  <2>5. CASE NotifyWindow(o)
    <3>1. PICK s \in {"Disconnected", status} : OnDeviceStatusChanged(s)
      BY <2>5 DEF NotifyWindow
    <3>2. UNCHANGED <<opened, sock>>
      BY <3>1, WindowEffect DEF CloseSocket
    <3> QED
      BY <2>5, <3>2 DEF NotifyWindow
  <2> QED
    BY <1>7, <2>1, <2>2, <2>3, <2>4, <2>5 DEF IoThread
<1>8. CASE UNCHANGED vars
  BY <1>8 DEF vars
<1> QED
  BY <1>1, <1>2, <1>3, <1>4, <1>5, <1>6, <1>7, <1>8 DEF Next, UIThread

\* Only AddChannel starts a read, and it ends the flight of its attempt.
LEMMA ReadStep == TypeOK /\ ReadsOnceAdded /\ [Next]_vars => ReadsOnceAdded'
<1> SUFFICES ASSUME TypeOK, ReadsOnceAdded, [Next]_vars, NEW b \in Attempts,
                    chain'[b] \in InFlight \cup {"idle"}
             PROVE  op'[b] = "idle"
  BY DEF ReadsOnceAdded
<1> USE AttemptsAssumption DEF TypeOK, chanVars, uiVars, ReadsOnceAdded, Ops
<1>1. CASE UIThread
  BY <1>1 DEF UIThread, ClickConnect, Connect, ClickDisconnect, ClosePopup, StopNotify
<1>2. ASSUME NEW o \in Sends, Send(o) PROVE op'[b] = "idle"
  BY <1>2 DEF Send
<1>3. ASSUME NEW a \in Attempts, ConnectThread(a) PROVE op'[b] = "idle"
  <2>1. CASE AddChannel(a)
    <3>1. chain'[a] \notin InFlight \cup {"idle"}
      BY <2>1 DEF AddChannel, Go, InFlight, Unreported
    <3>2. a # b /\ chain'[b] = chain[b] /\ op'[b] = op[b]
      BY <2>1, <3>1 DEF AddChannel, Go
    <3> QED
      BY <3>2
  <2>2. CASE ~AddChannel(a)
    <3>1. op' = op
      BY <1>3, <2>2 DEF ConnectThread, ResolveFails, ResolveDone, ConnectDone,
         ConnectFails, ReportConnected, ReportFailed, TellWindow, SetOwner
    <3>2. chain[b] \in InFlight \cup {"idle"}
      BY <1>3, <2>2 DEF ConnectThread, ResolveFails, ResolveDone, ConnectDone,
         ConnectFails, ReportConnected, ReportFailed, TellWindow, SetOwner, Go,
         SetStatus, InFlight, Unreported
    <3> QED
      BY <3>1, <3>2
  <2> QED
    BY <2>1, <2>2
<1>4. ASSUME NEW o \in Ops, IoThread(o) PROVE op'[b] = "idle"
  <2>1. op[o] # "idle" /\ chain' = chain /\ \A p \in Ops : p # o => op'[p] = op[p]
    BY <1>4 DEF IoThread, IoDone, IoCanceled, IoFails, NotifyRemove,
                NotifyStatus, NotifyWindow
  <2> QED
    BY <2>1
<1>5. CASE UNCHANGED vars
  BY <1>5 DEF vars
<1> QED
  BY <1>1, <1>2, <1>3, <1>4, <1>5 DEF Next

\* m_Opened is reset only by a close, and the close cuts what is in flight.
LEMMA CutStep == TypeOK /\ CutUnlessOpened /\ [Next]_vars => CutUnlessOpened'
<1> SUFFICES ASSUME TypeOK, CutUnlessOpened, [Next]_vars, NEW b \in Attempts,
                    chain'[b] \in {"resolving", "connecting", "okSet"}
             PROVE  opened' \/ b \in cut'
  BY DEF CutUnlessOpened
<1> USE DEF TypeOK, chanVars, uiVars, CutUnlessOpened
<1>a. chain[b] \in {"resolving", "connecting", "okSet"} => b \in Flying
  BY DEF Flying, InFlight, Unreported
<1>b. ASSUME chain' = chain, UNCHANGED <<opened, cut>> \/ CloseSocket
      PROVE  opened' \/ b \in cut'
  BY <1>a, <1>b DEF CloseSocket
<1>1. CASE ClickConnect \/ StopNotify
  BY <1>1 DEF ClickConnect, StopNotify
<1>2. CASE Connect
  BY <1>2 DEF Connect
<1>3. CASE ClickDisconnect \/ ClosePopup
  BY <1>3, <1>b DEF ClickDisconnect, ClosePopup, Stop, NothingToClose
<1>4. ASSUME NEW o \in Sends, Send(o) PROVE opened' \/ b \in cut'
  BY <1>4 DEF Send
<1>5. ASSUME NEW a \in Attempts, ConnectThread(a) PROVE opened' \/ b \in cut'
  <2>1. CASE ResolveFails(a) \/ ResolveDone(a) \/ ConnectDone(a)
    BY <2>1 DEF ResolveFails, ResolveDone, ConnectDone, Go
  <2>2. CASE ConnectFails(a)
    <3>1. chain[b] \in {"resolving", "connecting", "okSet"}
      BY <2>2 DEF ConnectFails, Go
    <3> QED
      BY <2>2, <3>1, <1>a DEF ConnectFails, CloseSocket, NothingToClose
  <2>3. CASE ReportConnected(a) \/ ReportFailed(a)
    BY <2>3 DEF ReportConnected, ReportFailed, SetStatus
  <2>4. CASE TellWindow(a)
    <3>1. chain[b] \in {"resolving", "connecting", "okSet"}
      BY <2>4 DEF TellWindow, Go
    <3>2. UNCHANGED <<opened, cut>> \/ CloseSocket
      BY <2>4, WindowEffect DEF TellWindow
    <3> QED
      BY <3>1, <3>2, <1>a DEF CloseSocket
  <2>5. CASE AddChannel(a) \/ SetOwner(a)
    BY <2>5 DEF AddChannel, SetOwner, Go
  <2> QED
    BY <1>5, <2>1, <2>2, <2>3, <2>4, <2>5 DEF ConnectThread
<1>6. ASSUME NEW o \in Ops, IoThread(o) PROVE opened' \/ b \in cut'
  <2>1. CASE IoDone(o) \/ IoCanceled(o) \/ NotifyRemove(o) \/ NotifyStatus(o)
    BY <2>1 DEF IoDone, IoCanceled, NotifyRemove, NotifyStatus
  <2>2. CASE IoFails(o)
    BY <2>2, <1>b DEF IoFails, NothingToClose
  <2>3. CASE NotifyWindow(o)
    BY <2>3, <1>b, WindowEffect DEF NotifyWindow
  <2> QED
    BY <1>6, <2>1, <2>2, <2>3 DEF IoThread
<1>7. CASE UNCHANGED vars
  BY <1>7 DEF vars
<1> QED
  BY <1>1, <1>2, <1>3, <1>4, <1>5, <1>6, <1>7 DEF Next, UIThread

\* A reset of m_Opened leaves somebody who will set the status, or is counted
\* in lost; a report of success without m_Opened is counted in late.
LEMMA StrandedStep ==
  TypeOK /\ ReadsOnceAdded /\ CutUnlessOpened /\ StrandedHasCause /\ [Next]_vars
    => StrandedHasCause'
<1> SUFFICES ASSUME TypeOK, ReadsOnceAdded, CutUnlessOpened, StrandedHasCause,
                    [Next]_vars, status' # "Disconnected"
             PROVE  Recovers' \/ late' \/ lost'
  BY DEF StrandedHasCause
<1> USE DEF TypeOK, chanVars, uiVars, StrandedHasCause, Recovers
<1>1. CASE ClickConnect
  BY <1>1 DEF ClickConnect
<1>2. CASE Connect
  BY <1>2 DEF Connect
<1>3. CASE ClickDisconnect \/ ClosePopup
  BY <1>3 DEF ClickDisconnect, ClosePopup, Stop, CloseSocket, NothingToClose
<1>4. CASE StopNotify
  BY <1>4 DEF StopNotify
<1>5. ASSUME NEW o \in Sends, Send(o) PROVE Recovers' \/ late' \/ lost'
  <2>1. \A p \in Ops : op[p] \in {"lostDel", "lostSet"} => op'[p] = op[p]
    BY <1>5 DEF Send
  <2> QED
    BY <1>5, <2>1 DEF Send
<1>6. ASSUME NEW a \in Attempts, ConnectThread(a)
      PROVE  Recovers' \/ late' \/ lost'
  <2>1. CASE ResolveFails(a) \/ ResolveDone(a) \/ ConnectDone(a) \/ ConnectFails(a)
    <3>1. chain'[a] \in Unreported
      BY <2>1 DEF ResolveFails, ResolveDone, ConnectDone, ConnectFails, Go, Unreported
    <3> QED
      BY <3>1
  <2>2. CASE ReportConnected(a)
    <3>1. opened \/ a \in cut
      BY <2>2 DEF ReportConnected, SetStatus, CutUnlessOpened
    <3> QED
      BY <2>2, <3>1 DEF ReportConnected
  <2>3. CASE ReportFailed(a)
    BY <2>3 DEF ReportFailed, SetStatus
  <2>4. CASE TellWindow(a)
    <3>1. \A c \in Attempts : chain[c] \in Unreported => chain'[c] \in Unreported
      BY <2>4 DEF TellWindow, Go, Unreported
    <3>2. \/ UNCHANGED <<status, opened, lost>>
          \/ lost' = TRUE
      BY <2>4, WindowEffect DEF TellWindow
    <3> QED
      BY <2>4, <3>1, <3>2 DEF TellWindow
  <2>5. CASE AddChannel(a)
    <3>1. \A c \in Attempts : chain[c] \in Unreported => chain'[c] \in Unreported
      BY <2>5 DEF AddChannel, Go, Unreported
    <3>2. op[a] = "idle"
      BY <2>5 DEF AddChannel, Go, ReadsOnceAdded, InFlight
    <3>3. \A o \in Ops : op[o] \in {"lostDel", "lostSet"} => op'[o] = op[o]
      BY <2>5, <3>2 DEF AddChannel
    <3> QED
      BY <2>5, <3>1, <3>3 DEF AddChannel
  <2>6. CASE SetOwner(a)
    <3>1. \A c \in Attempts : chain[c] \in Unreported => chain'[c] \in Unreported
      BY <2>6 DEF SetOwner, Go, Unreported
    <3> QED
      BY <2>6, <3>1 DEF SetOwner
  <2> QED
    BY <1>6, <2>1, <2>2, <2>3, <2>4, <2>5, <2>6 DEF ConnectThread
<1>7. ASSUME NEW o \in Ops, IoThread(o) PROVE Recovers' \/ late' \/ lost'
  <2>1. CASE IoDone(o) \/ IoCanceled(o)
    <3>1. \A p \in Ops : op[p] \in {"lostDel", "lostSet"} => op'[p] = op[p]
      BY <2>1 DEF IoDone, IoCanceled
    <3> QED
      BY <2>1, <3>1 DEF IoDone, IoCanceled
  <2>2. CASE IoFails(o)
    <3>1. \A p \in Ops : op[p] \in {"lostDel", "lostSet"} => op'[p] = op[p]
      BY <2>2 DEF IoFails
    <3> QED
      BY <2>2, <3>1 DEF IoFails, CloseSocket, NothingToClose
  <2>3. CASE NotifyRemove(o)
    BY <2>3 DEF NotifyRemove
  <2>4. CASE NotifyStatus(o)
    BY <2>4 DEF NotifyStatus
  <2>5. CASE NotifyWindow(o)
    <3>1. \A p \in Ops : op[p] \in {"lostDel", "lostSet"} => op'[p] = op[p]
      BY <2>5 DEF NotifyWindow
    <3>2. \/ UNCHANGED <<status, opened, lost>>
          \/ lost' = TRUE
      BY <2>5, WindowEffect DEF NotifyWindow
    <3> QED
      BY <2>5, <3>1, <3>2 DEF NotifyWindow
  <2> QED
    BY <1>7, <2>1, <2>2, <2>3, <2>4, <2>5 DEF IoThread
<1>8. CASE UNCHANGED vars
  BY <1>8 DEF vars
<1> QED
  BY <1>1, <1>2, <1>3, <1>4, <1>5, <1>6, <1>7, <1>8 DEF Next, UIThread

\* Only async_connect opens the socket, and an attempt that finds m_Opened
\* reset has been cut.
LEMMA SocketStep ==
  TypeOK /\ CutUnlessOpened /\ OpenSocketIsOwned /\ [Next]_vars => OpenSocketIsOwned'
<1> SUFFICES ASSUME TypeOK, CutUnlessOpened, OpenSocketIsOwned, [Next]_vars,
                    sock' # NoSock
             PROVE  opened' \/ sock' \in cut'
  BY DEF OpenSocketIsOwned
<1> USE DEF TypeOK, chanVars, uiVars, OpenSocketIsOwned
<1>1. ASSUME UNCHANGED <<opened, sock, cut>> \/ CloseSocket
      PROVE  opened' \/ sock' \in cut'
  BY <1>1 DEF CloseSocket
<1>2. CASE ClickConnect \/ Connect \/ StopNotify
  BY <1>2 DEF ClickConnect, Connect, StopNotify
<1>3. CASE ClickDisconnect \/ ClosePopup
  BY <1>3, <1>1 DEF ClickDisconnect, ClosePopup, Stop, NothingToClose
<1>4. ASSUME NEW o \in Sends, Send(o) PROVE opened' \/ sock' \in cut'
  BY <1>4 DEF Send
<1>5. ASSUME NEW a \in Attempts, ConnectThread(a) PROVE opened' \/ sock' \in cut'
  <2>1. CASE ResolveDone(a)
    BY <2>1 DEF ResolveDone, Go, CutUnlessOpened
  <2>2. CASE TellWindow(a)
    BY <2>2, <1>1, WindowEffect DEF TellWindow
  <2>3. CASE ConnectFails(a)
    BY <2>3, <1>1 DEF ConnectFails, NothingToClose
  <2>4. CASE ~(ResolveDone(a) \/ TellWindow(a) \/ ConnectFails(a))
    BY <1>5, <2>4 DEF ConnectThread, ResolveFails, ConnectDone, ReportConnected,
       ReportFailed, AddChannel, SetOwner
  <2> QED
    BY <2>1, <2>2, <2>3, <2>4
<1>6. ASSUME NEW o \in Ops, IoThread(o) PROVE opened' \/ sock' \in cut'
  <2>1. UNCHANGED <<opened, sock, cut>> \/ CloseSocket
    BY <1>6, WindowEffect DEF IoThread, IoDone, IoCanceled, IoFails,
       NothingToClose, NotifyRemove, NotifyStatus, NotifyWindow
  <2> QED
    BY <2>1, <1>1
<1>7. CASE UNCHANGED vars
  BY <1>7 DEF vars
<1> QED
  BY <1>2, <1>3, <1>4, <1>5, <1>6, <1>7 DEF Next, UIThread

-----------------------------------------------------------------------------

\* Every step keeps the invariant.
LEMMA IInvStep == IInv /\ [Next]_vars => IInv'
BY TypeStep, ServedStep, ReadStep, CutStep, StrandedStep, SocketStep DEF IInv

\* The invariant holds in every behaviour.
LEMMA Invariance == Spec => []IInv
BY InitIInv, IInvStep, PTL DEF Spec

\* Every reachable state is well typed.
THEOREM TypeCorrect == Spec => []TypeOK
<1>1. IInv => TypeOK
  BY DEF IInv
<1> QED
  BY <1>1, Invariance, PTL

\* TCPClientChannel::m_Opened never stays set with nobody left to reset it,
\* however many attempts, writes and threads there are.
THEOREM OpenedServed == Spec => []OpenedIsServed
<1>1. IInv => OpenedIsServed
  BY DEF IInv
<1> QED
  BY <1>1, Invariance, PTL

\* A started device that Stop cannot stop, and that nothing will stop, got
\* there by a connect cut under way or by a close before SetOwner.
THEOREM StrandedOnlyByRace == Spec => []StrandedHasCause
<1>1. IInv => StrandedHasCause
  BY DEF IInv
<1> QED
  BY <1>1, Invariance, PTL

\* m_Socket is left open behind a reset m_Opened only by such a connect.
THEOREM SocketOwned == Spec => []OpenSocketIsOwned
<1>1. IInv => OpenSocketIsOwned
  BY DEF IInv
<1> QED
  BY <1>1, Invariance, PTL
=============================================================================
