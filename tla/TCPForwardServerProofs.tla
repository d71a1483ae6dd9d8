------------------------ MODULE TCPForwardServerProofs ------------------------
(***************************************************************************)
(* Proofs about TCPForwardServer for every set of pairs, of clients and of  *)
(* channels the user writes to.                                             *)
(***************************************************************************)
EXTENDS TCPForwardServer, TLAPS

\* The phases in which a channel of the pair may have been listed.
Late == {"addServer", "up"}

\* Before that nothing reads, writes, lists or closes a channel, and which of
\* the two are open is the phase alone.
Untouched(c) ==
  /\ rd[c] = "none" /\ ~snd[c]
  /\ c \notin listed /\ c \notin toClose
  /\ closer[c] = "none" /\ notified[c] = 0

FreshUntouched == \A c \in Channels : pair[c[1]] \notin Late => Untouched(c)

FreshOpened ==
  \A c \in Channels : pair[c[1]] \notin Late =>
    (opened[c] <=> \/ pair[c[1]] = "addClient"
                   \/ (pair[c[1]] = "connecting" /\ c[2] = "client"))

\* An open channel has not been closed or reported; one that is being closed
\* has not been reported, and neither has the target it has closed, which no
\* other thread closes.
OpenUnreported == \A c \in Channels : opened[c] => closer[c] = "none" /\ notified[c] = 0

CloserReports ==
  \A c \in Channels :
    /\ closer[c] \in {"target", "notifyTarget", "notify"} => notified[c] = 0
    /\ closer[c] = "notifyTarget" =>
         ~opened[Other(c)] /\ closer[Other(c)] = "none" /\ notified[Other(c)] = 0

ReportedAtMostOnce == \A c \in Channels : notified[c] \in {0, 1}

\* PairClosesTogether, seen from the end that is still open.
HalfOpenIsClosing ==
  \A c \in Channels :
    pair[c[1]] \in Late /\ opened[c] /\ ~opened[Other(c)] => closer[Other(c)] = "target"

\* A closed client's channel is listed only while a thread is to report it.
ListedIsReported ==
  \A c \in Channels :
    c[2] = "client" /\ c \in listed /\ ~opened[c] =>
      closer[c] \in {"target", "notifyTarget", "notify"} \/ closer[Other(c)] = "notifyTarget"

\* An open channel is listed once its turn has come.
OpenIsListed ==
  \A c \in Channels :
    opened[c] /\ (pair[c[1]] = "up" \/ (pair[c[1]] = "addServer" /\ c[2] = "client"))
      => c \in listed

ChannelInv ==
  /\ FreshUntouched /\ FreshOpened /\ OpenUnreported /\ CloserReports
  /\ ReportedAtMostOnce /\ OpenHasTarget /\ HalfOpenIsClosing
  /\ ListedIsReported /\ OpenIsListed

\* The acceptor is open while the server is Connected and no longer.
AcceptorIsConnected == acceptor <=> status = "Connected"

\* While it is not, a pair that is not stale is settled, and its open channels
\* are about to be closed by the UI thread.
SettledOrStale ==
  status # "Connected" =>
    \A p \in Pairs : p \in stale \/ pair[p] \in {"idle", "up", "dead", "failed"}

LeftToClose ==
  status \in {"Disconnected", "Connecting"} =>
    \A c \in Channels : opened[c] => c[1] \in stale \/ c \in toClose

ServerInv == AcceptorIsConnected /\ ServerAccepts /\ SettledOrStale /\ LeftToClose

\* The inductive invariant.
IInv == TypeOK /\ ChannelInv /\ ServerInv

\* The two ends of a pair.
LEMMA Ends ==
  /\ \A p \in Pairs :
       /\ Client(p) \in Channels /\ Client(p)[1] = p /\ Client(p)[2] = "client"
       /\ Server(p) \in Channels /\ Server(p)[1] = p /\ Server(p)[2] = "server"
  /\ \A c \in Channels :
       /\ c[1] \in Pairs
       /\ Other(c) \in Channels /\ Other(c) # c
       /\ Other(Other(c)) = c /\ Other(c)[1] = c[1]
       /\ \/ c = Client(c[1]) /\ c[2] = "client" /\ Other(c) = Server(c[1])
          \/ c = Server(c[1]) /\ c[2] = "server" /\ Other(c) = Client(c[1])
<1>1. ASSUME NEW p \in Pairs
      PROVE  /\ Client(p) \in Channels /\ Client(p)[1] = p /\ Client(p)[2] = "client"
             /\ Server(p) \in Channels /\ Server(p)[1] = p /\ Server(p)[2] = "server"
  BY DEF Channels, Sides, Client, Server
<1>2. ASSUME NEW c \in Channels
      PROVE  /\ c[1] \in Pairs
             /\ Other(c) \in Channels /\ Other(c) # c
             /\ Other(Other(c)) = c /\ Other(c)[1] = c[1]
             /\ \/ c = Client(c[1]) /\ c[2] = "client" /\ Other(c) = Server(c[1])
                \/ c = Server(c[1]) /\ c[2] = "server" /\ Other(c) = Client(c[1])
  <2>1. PICK p \in Pairs, s \in Sides : c = <<p, s>>
    BY DEF Channels
  <2>2. CASE s = "client"
    BY <2>1, <2>2 DEF Channels, Sides, Other, Client, Server
  <2>3. CASE s = "server"
    BY <2>1, <2>3 DEF Channels, Sides, Other, Client, Server
  <2> QED
    BY <2>2, <2>3 DEF Sides
<1> QED
  BY <1>1, <1>2

\* A forwarding server that was never started satisfies the invariant.
LEMMA InitIInv == Init => IInv
<1> SUFFICES ASSUME Init PROVE IInv
  OBVIOUS
<1> USE ForwardAssumption DEF Init
<1>1. TypeOK
  <2>1. /\ opened \in [Channels -> BOOLEAN] /\ target \in [Channels -> BOOLEAN]
        /\ snd \in [Channels -> BOOLEAN]
    OBVIOUS
  <2>2. /\ pair \in [Pairs -> PairPhases] /\ closer \in [Channels -> CloserPhases]
        /\ rd \in [Channels -> {"none", "pending", "writing", "done"}]
    BY DEF PairPhases, CloserPhases
  <2>3. notified \in [Channels -> 0..2]
    OBVIOUS
  <2> QED
    BY <2>1, <2>2, <2>3 DEF TypeOK
<1>2. ChannelInv
  BY Ends DEF ChannelInv, FreshUntouched, Untouched, FreshOpened, OpenUnreported, CloserReports,
         ReportedAtMostOnce, OpenHasTarget, HalfOpenIsClosing, ListedIsReported,
         OpenIsListed, Late
<1>3. ServerInv
  BY DEF ServerInv, AcceptorIsConnected, ServerAccepts, SettledOrStale, LeftToClose
<1> QED
  BY <1>1, <1>2, <1>3 DEF IInv

-----------------------------------------------------------------------------
(* Types.                                                                   *)

\* Closing a channel keeps the types.
LEMMA CloseTypes ==
  ASSUME TypeOK, NEW c \in Channels,
         CloseChannel(c) \/ UNCHANGED <<opened, target, closer>>
  PROVE  /\ opened' \in [Channels -> BOOLEAN] /\ target' \in [Channels -> BOOLEAN]
         /\ closer' \in [Channels -> CloserPhases]
<1>1. CASE CloseChannel(c) /\ target[c]
  BY <1>1 DEF CloseChannel, TypeOK, CloserPhases
<1>2. CASE CloseChannel(c) /\ ~target[c]
  BY <1>2 DEF CloseChannel, TypeOK, CloserPhases
<1> QED
  BY <1>1, <1>2 DEF TypeOK

\* Every step keeps the types.
LEMMA TypeStep == TypeOK /\ [Next]_vars => TypeOK'
<1> SUFFICES ASSUME TypeOK, [Next]_vars PROVE TypeOK'
  OBVIOUS
<1> USE DEF TypeOK, PairPhases, chVars, uiVars
<1>1. CASE Start \/ StartFails \/ Listen \/ StopEnds
  <2>1. CASE Start \/ StartFails \/ StopEnds
    BY <2>1 DEF Start, StartFails, StopEnds
  <2>2. CASE Listen
    BY <2>2 DEF Listen
  <2> QED
    BY <1>1, <2>1, <2>2
<1>2. CASE Stop
  BY <1>2 DEF Stop
<1>3. CASE ClickClose
  BY <1>3 DEF ClickClose
<1>4. ASSUME NEW c \in Channels, CloseNext(c) PROVE TypeOK'
  <2>1. CloseChannel(c) \/ UNCHANGED <<opened, target, closer>>
    BY <1>4 DEF CloseNext, AlreadyClosed
  <2>2. ui' \in Channels \cup {None} /\ listed' \in SUBSET Channels /\ toClose' \in SUBSET Channels
    BY <1>4 DEF CloseNext
  <2> QED
    BY <1>4, <2>1, <2>2, CloseTypes DEF CloseNext
<1>5. ASSUME NEW c \in Channels, Send(c) PROVE TypeOK'
  BY <1>5 DEF Send
<1>6. ASSUME NEW p \in Pairs, PairThread(p) PROVE TypeOK'
  <2>1. CASE Accepted(p)
    BY <2>1, Ends DEF Accepted
  <2>2. CASE AcceptCanceled(p) \/ AcceptFails(p)
    BY <2>2 DEF AcceptCanceled, AcceptFails
  <2>3. CASE ConnectFails(p)
    BY <2>3, Ends DEF ConnectFails
  <2>4. CASE Connected(p)
    BY <2>4, Ends DEF Connected
  <2> QED
    BY <1>6, <2>1, <2>2, <2>3, <2>4 DEF PairThread
<1>7. ASSUME NEW c \in Channels, ChannelThread(c) PROVE TypeOK'
  <2>1. CASE AddChannel(c)
    <3>1. pair' \in [Pairs -> PairPhases]
      BY <2>1, Ends DEF AddChannel
    <3> QED
      BY <2>1, <3>1 DEF AddChannel
  <2>2. CASE ReadData(c)
    BY <2>2 DEF ReadData
  <2>3. CASE ReadFails(c)
    <3>1. CloseChannel(c) \/ UNCHANGED <<opened, target, closer>>
      BY <2>3 DEF ReadFails, AlreadyClosed
    <3> QED
      BY <2>3, <3>1, CloseTypes DEF ReadFails
  <2>4. CASE WriteDone(c)
    <3>1. Other(c) \in Channels
      BY Ends
    <3> QED
      BY <2>4, <3>1, CloseTypes DEF WriteDone
  <2>5. CASE SendDone(c)
    BY <2>5, CloseTypes DEF SendDone
  <2> QED
    BY <1>7, <2>1, <2>2, <2>3, <2>4, <2>5 DEF ChannelThread
<1>8. ASSUME NEW c \in Channels, CloserThread(c) PROVE TypeOK'
  <2>1. CASE CloseTarget(c)
    <3>1. opened' \in [Channels -> BOOLEAN] /\ target' \in [Channels -> BOOLEAN]
      BY <2>1 DEF CloseTarget
    <3>2. closer' \in [Channels -> CloserPhases]
      BY <2>1 DEF CloseTarget, CloserPhases
    <3> QED
      BY <2>1, <3>1, <3>2 DEF CloseTarget
  <2>2. CASE NotifyTarget(c) \/ Notify(c)
    <3>1. closer' \in [Channels -> CloserPhases]
      BY <2>2 DEF NotifyTarget, Notify, CloserPhases
    <3>2. \A n \in 0..2 : Twice(n) \in 0..2
      BY DEF Twice
    <3>3. notified' \in [Channels -> 0..2] /\ listed' \in SUBSET Channels
      BY <2>2, <3>2 DEF NotifyTarget, Notify, ChannelDisconnected
    <3> QED
      BY <2>2, <3>1, <3>3 DEF NotifyTarget, Notify
  <2> QED
    BY <1>8, <2>1, <2>2 DEF CloserThread
<1>9. CASE UNCHANGED vars
  BY <1>9 DEF vars
<1> QED
  BY <1>1, <1>2, <1>3, <1>4, <1>5, <1>6, <1>7, <1>8, <1>9, ForwardAssumption DEF Next, UIThread

-----------------------------------------------------------------------------
(* The channels.                                                            *)

\* A close by any thread of a channel that has been or may be listed.
LEMMA CloseKeeps ==
  ASSUME TypeOK, ChannelInv, NEW c \in Channels, CloseChannel(c), pair[c[1]] \in Late,
         UNCHANGED <<pair, notified>>,
         listed' = listed, toClose' \subseteq toClose,
         \A d \in Channels : pair[d[1]] \notin Late => rd'[d] = rd[d] /\ snd'[d] = snd[d]
  PROVE  ChannelInv'
<1> USE Ends DEF TypeOK, ChannelInv, CloseChannel
<1>1. /\ opened[c] /\ target[c] /\ ~opened'[c] /\ closer'[c] = "target"
      /\ \A d \in Channels \ {c} : /\ opened'[d] = opened[d] /\ target'[d] = target[d]
                                   /\ closer'[d] = closer[d]
  <2>1. opened[c] /\ target[c]
    BY DEF OpenHasTarget, Late
  <2> QED
    BY <2>1
<1> USE <1>1
<1> HIDE DEF CloseChannel, TypeOK, ChannelInv
<1>2. FreshUntouched'
  BY DEF ChannelInv, FreshUntouched, Untouched
<1>3. FreshOpened'
  BY DEF ChannelInv, FreshOpened
<1>4. OpenUnreported'
  BY DEF ChannelInv, OpenUnreported
<1>5. CloserReports'
  BY DEF ChannelInv, CloserReports, OpenUnreported
<1>6. ReportedAtMostOnce'
  BY DEF ChannelInv, ReportedAtMostOnce
<1>7. OpenHasTarget'
  BY DEF ChannelInv, OpenHasTarget
<1>8. HalfOpenIsClosing'
  BY DEF ChannelInv, HalfOpenIsClosing
<1>9. ListedIsReported'
  BY DEF ChannelInv, ListedIsReported, OpenUnreported
<1>10. OpenIsListed'
  BY DEF ChannelInv, OpenIsListed
<1> QED
  BY <1>2, <1>3, <1>4, <1>5, <1>6, <1>7, <1>8, <1>9, <1>10 DEF ChannelInv

\* The phases of a pair with no channel open.
NoneOpen == {"idle", "accepting", "closedAccept", "dead", "failed"}

\* A step that opens, closes and reports nothing.
LEMMA QuietKeeps ==
  ASSUME TypeOK, ChannelInv, UNCHANGED <<opened, target, closer, notified>>,
         \A p \in Pairs : pair'[p] = pair[p] \/ {pair[p], pair'[p]} \subseteq NoneOpen,
         listed' \subseteq listed, \A d \in listed : opened[d] => d \in listed',
         toClose' \subseteq toClose \cup listed,
         \A d \in Channels : pair[d[1]] \notin Late => rd'[d] = rd[d] /\ snd'[d] = snd[d]
  PROVE  ChannelInv'
<1> USE Ends DEF Late, NoneOpen
<1>2. FreshUntouched'
  BY DEF ChannelInv, FreshUntouched, Untouched
<1>3. FreshOpened'
  BY DEF ChannelInv, FreshOpened
<1>4. OpenUnreported' /\ CloserReports' /\ ReportedAtMostOnce'
  BY DEF ChannelInv, OpenUnreported, CloserReports, ReportedAtMostOnce
<1>7. OpenHasTarget'
  BY DEF ChannelInv, OpenHasTarget
<1>8. HalfOpenIsClosing'
  BY DEF ChannelInv, HalfOpenIsClosing
<1>9. ListedIsReported'
  BY DEF ChannelInv, ListedIsReported
<1>10. OpenIsListed'
  BY DEF ChannelInv, OpenIsListed
<1> QED
  BY <1>2, <1>3, <1>4, <1>7, <1>8, <1>9, <1>10 DEF ChannelInv

\* A step of the accept and the connect, before anything is listed.
LEMMA PairKeeps ==
  ASSUME TypeOK, ChannelInv, NEW p \in Pairs, PairThread(p)
  PROVE  ChannelInv'
<1> USE Ends DEF Late
<1>1. CASE AcceptCanceled(p) \/ AcceptFails(p)
  <2>1. \A q \in Pairs : pair'[q] = pair[q] \/ {pair[q], pair'[q]} \subseteq NoneOpen
    BY <1>1 DEF AcceptCanceled, AcceptFails, NoneOpen, TypeOK
  <2> QED
    BY <1>1, <2>1, QuietKeeps DEF AcceptCanceled, AcceptFails, chVars, uiVars
<1>2. CASE Accepted(p) \/ ConnectFails(p) \/ Connected(p)
  <2> DEFINE Before == {"idle", "accepting", "closedAccept", "connecting"}
  <2>1. /\ pair[p] \in Before
        /\ \A q \in Pairs : pair'[q] = pair[q] \/ (pair[q] \in Before /\ pair'[q] \notin Late)
    BY <1>2 DEF Accepted, ConnectFails, Connected, TypeOK
  <2>2. /\ UNCHANGED <<rd, snd, closer, listed, toClose, notified>>
        /\ \A c \in Channels : c[1] # p => opened'[c] = opened[c] /\ target'[c] = target[c]
    BY <1>2 DEF Accepted, ConnectFails, Connected, TypeOK, chVars, uiVars
  <2>3. FreshUntouched'
    BY <2>1, <2>2 DEF ChannelInv, FreshUntouched, Untouched
  <2>4. FreshOpened'
    <3>1. CASE Accepted(p)
      BY <3>1 DEF ChannelInv, FreshOpened, Accepted, TypeOK
    <3>2. CASE ConnectFails(p)
      BY <3>2 DEF ChannelInv, FreshOpened, ConnectFails, TypeOK
    <3>3. CASE Connected(p)
      BY <3>3 DEF ChannelInv, FreshOpened, Connected, TypeOK
    <3> QED
      BY <1>2, <3>1, <3>2, <3>3
  <2>5. OpenUnreported'
    BY <2>1, <2>2 DEF ChannelInv, OpenUnreported, FreshUntouched, Untouched
  <2>6. CloserReports' /\ ReportedAtMostOnce'
    BY <2>1, <2>2 DEF ChannelInv, CloserReports, ReportedAtMostOnce, FreshUntouched, Untouched
  <2>7. OpenHasTarget'
    <3>1. CASE Connected(p)
      BY <3>1 DEF ChannelInv, OpenHasTarget, Connected, TypeOK
    <3>2. CASE ~Connected(p)
      <4>1. pair'[p] \notin {"addClient", "addServer", "up"}
        BY <1>2, <3>2 DEF Accepted, ConnectFails, TypeOK
      <4>2. \A q \in Pairs \ {p} : pair'[q] = pair[q] \/ pair'[q] = "accepting"
        BY <1>2, <3>2 DEF Accepted, ConnectFails, TypeOK
      <4> QED
        BY <2>2, <4>1, <4>2 DEF ChannelInv, OpenHasTarget
    <3> QED
      BY <3>1, <3>2
  <2>8. HalfOpenIsClosing' /\ OpenIsListed'
    BY <2>1, <2>2 DEF ChannelInv, HalfOpenIsClosing, OpenIsListed
  <2>9. ListedIsReported'
    BY <2>1, <2>2 DEF ChannelInv, ListedIsReported, FreshUntouched, Untouched
  <2> QED
    BY <2>3, <2>4, <2>5, <2>6, <2>7, <2>8, <2>9 DEF ChannelInv
<1> QED
  BY <1>1, <1>2 DEF PairThread

\* Adding an accepted channel keeps what each channel may be in the middle of.
LEMMA AddKeeps ==
  ASSUME TypeOK, ChannelInv, NEW c \in Channels, AddChannel(c)
  PROVE  ChannelInv'
<1> USE Ends DEF Late
<1>1. /\ listed' = listed \cup {c}
      /\ UNCHANGED <<opened, target, closer, snd, toClose, notified>>
      /\ \A d \in Channels : d # c => rd'[d] = rd[d]
  BY DEF AddChannel, TypeOK
<1>2. /\ \/ c[2] = "client" /\ pair[c[1]] = "addClient" /\ pair'[c[1]] = "addServer"
         \/ c[2] = "server" /\ pair[c[1]] = "addServer" /\ pair'[c[1]] = "up"
      /\ \A p \in Pairs : p # c[1] => pair'[p] = pair[p]
  BY DEF AddChannel, TypeOK
<1>3. pair[c[1]] = "addClient" => opened[c] /\ opened[Other(c)]
  BY DEF ChannelInv, FreshOpened
<1>4. FreshUntouched'
  BY <1>1, <1>2 DEF ChannelInv, FreshUntouched, Untouched
<1>5. FreshOpened'
  BY <1>1, <1>2 DEF ChannelInv, FreshOpened
<1>6. OpenUnreported' /\ CloserReports' /\ ReportedAtMostOnce'
  BY <1>1 DEF ChannelInv, OpenUnreported, CloserReports, ReportedAtMostOnce
<1>7. OpenHasTarget'
  BY <1>1, <1>2 DEF ChannelInv, OpenHasTarget
<1>8. HalfOpenIsClosing'
  BY <1>1, <1>2, <1>3 DEF ChannelInv, HalfOpenIsClosing
<1>9. ListedIsReported'
  BY <1>1, <1>2, <1>3 DEF ChannelInv, ListedIsReported
<1>10. OpenIsListed'
  BY <1>1, <1>2 DEF ChannelInv, OpenIsListed
<1> QED
  BY <1>4, <1>5, <1>6, <1>7, <1>8, <1>9, <1>10 DEF ChannelInv

\* The thread that closed a channel closes the other end, and reports both.
LEMMA CloserKeeps ==
  ASSUME TypeOK, ChannelInv, NEW c \in Channels, CloserThread(c)
  PROVE  ChannelInv'
<1> USE Ends DEF Late
<1>1. /\ pair[c[1]] \in Late /\ ~opened[c]
      /\ UNCHANGED <<pair, rd, snd, toClose>>
      /\ \A d \in Channels : d # c => closer'[d] = closer[d]
      /\ \A d \in Channels : d # Other(c) => opened'[d] = opened[d] /\ target'[d] = target[d]
      /\ listed' \subseteq listed /\ (opened'[Other(c)] => opened[Other(c)])
  <2>1. pair[c[1]] \in Late /\ ~opened[c]
    BY DEF ChannelInv, FreshUntouched, Untouched, OpenUnreported, CloserThread, CloseTarget,
           NotifyTarget, Notify
  <2> QED
    BY <2>1 DEF CloserThread, CloseTarget, NotifyTarget, Notify, ChannelDisconnected, uiVars, TypeOK
<1>2. CASE CloseTarget(c)
  <2>1. /\ closer[c] = "target"
        /\ UNCHANGED <<listed, notified>>
        /\ ~opened'[Other(c)]
        /\ closer'[c] = IF opened[Other(c)] THEN "notifyTarget" ELSE "notify"
    BY <1>2 DEF CloseTarget, uiVars, TypeOK
  <2>2. FreshUntouched' /\ FreshOpened'
    BY <1>1, <2>1 DEF ChannelInv, FreshUntouched, Untouched, FreshOpened
  <2>3. OpenUnreported' /\ ReportedAtMostOnce'
    BY <1>1, <2>1 DEF ChannelInv, OpenUnreported, ReportedAtMostOnce
  <2>4. CloserReports'
    BY <1>1, <2>1 DEF ChannelInv, CloserReports, OpenUnreported
  <2>5. OpenHasTarget' /\ HalfOpenIsClosing'
    BY <1>1, <2>1 DEF ChannelInv, OpenHasTarget, HalfOpenIsClosing
  <2>6. ListedIsReported'
    BY <1>1, <2>1 DEF ChannelInv, ListedIsReported
  <2>7. OpenIsListed'
    BY <1>1, <2>1 DEF ChannelInv, OpenIsListed
  <2> QED
    BY <2>2, <2>3, <2>4, <2>5, <2>6, <2>7 DEF ChannelInv
<1>3. CASE NotifyTarget(c)
  <2>1. /\ closer[c] = "notifyTarget" /\ closer'[c] = "notify"
        /\ ~opened[Other(c)] /\ closer[Other(c)] = "none" /\ notified[Other(c)] = 0
        /\ UNCHANGED <<opened, target>>
        /\ listed' = listed \ {Other(c)}
        /\ notified'[Other(c)] = 1
        /\ \A d \in Channels : d # Other(c) => notified'[d] = notified[d]
    BY <1>3 DEF NotifyTarget, ChannelDisconnected, Twice, TypeOK, ChannelInv, CloserReports
  <2>2. FreshUntouched' /\ FreshOpened'
    BY <1>1, <2>1 DEF ChannelInv, FreshUntouched, Untouched, FreshOpened
  <2>3. OpenUnreported' /\ ReportedAtMostOnce'
    BY <1>1, <2>1 DEF ChannelInv, OpenUnreported, ReportedAtMostOnce
  <2>4. CloserReports'
    BY <1>1, <2>1 DEF ChannelInv, CloserReports
  <2>5. OpenHasTarget' /\ HalfOpenIsClosing'
    BY <1>1, <2>1 DEF ChannelInv, OpenHasTarget, HalfOpenIsClosing
  <2>6. ListedIsReported'
    BY <1>1, <2>1 DEF ChannelInv, ListedIsReported
  <2>7. OpenIsListed'
    BY <1>1, <2>1 DEF ChannelInv, OpenIsListed
  <2> QED
    BY <2>2, <2>3, <2>4, <2>5, <2>6, <2>7 DEF ChannelInv
<1>4. CASE Notify(c)
  <2>1. /\ closer[c] = "notify" /\ closer'[c] = "done" /\ notified[c] = 0
        /\ UNCHANGED <<opened, target>>
        /\ listed' = listed \ {c}
        /\ notified'[c] = 1
        /\ \A d \in Channels : d # c => notified'[d] = notified[d]
    <3>1. closer[c] = "notify" /\ notified[c] = 0
      BY <1>4 DEF Notify, ChannelInv, CloserReports
    <3>2. Twice(0) = 1
      BY DEF Twice
    <3> QED
      BY <1>4, <3>1, <3>2 DEF Notify, ChannelDisconnected, TypeOK
  <2>2. FreshUntouched' /\ FreshOpened'
    BY <1>1, <2>1 DEF ChannelInv, FreshUntouched, Untouched, FreshOpened
  <2>3. OpenUnreported' /\ ReportedAtMostOnce'
    BY <1>1, <2>1 DEF ChannelInv, OpenUnreported, ReportedAtMostOnce
  <2>4. CloserReports'
    BY <1>1, <2>1 DEF ChannelInv, CloserReports
  <2>5. OpenHasTarget' /\ HalfOpenIsClosing'
    BY <1>1, <2>1 DEF ChannelInv, OpenHasTarget, HalfOpenIsClosing
  <2>6. ListedIsReported'
    BY <1>1, <2>1 DEF ChannelInv, ListedIsReported
  <2>7. OpenIsListed'
    BY <1>1, <2>1 DEF ChannelInv, OpenIsListed
  <2> QED
    BY <2>2, <2>3, <2>4, <2>5, <2>6, <2>7 DEF ChannelInv
<1> QED
  BY <1>2, <1>3, <1>4 DEF CloserThread

\* Every step keeps what each channel may be in the middle of.
LEMMA ChannelStep == TypeOK /\ ChannelInv /\ [Next]_vars => ChannelInv'
<1> SUFFICES ASSUME TypeOK, ChannelInv, [Next]_vars PROVE ChannelInv'
  OBVIOUS
<1> USE DEF chVars, uiVars
<1>1. CASE Start \/ StartFails \/ StopEnds \/ ClickClose
  BY <1>1, QuietKeeps DEF Start, StartFails, StopEnds, ClickClose
<1>2. CASE Listen \/ Stop
  <2>1. \A p \in Pairs : pair'[p] = pair[p] \/ {pair[p], pair'[p]} \subseteq NoneOpen
    BY <1>2 DEF Listen, Stop, NoneOpen, TypeOK
  <2> QED
    BY <1>2, <2>1, QuietKeeps DEF Listen, Stop
<1>3. ASSUME NEW c \in Channels, CloseNext(c) PROVE ChannelInv'
  <2>1. pair[c[1]] \in Late
    BY <1>3 DEF CloseNext, ChannelInv, FreshUntouched, Untouched
  <2>2. CASE CloseChannel(c) /\ UNCHANGED listed
    BY <1>3, <2>1, <2>2, CloseKeeps DEF CloseNext
  <2>3. CASE AlreadyClosed(c) /\ listed' \in {listed, listed \ {c}}
    BY <1>3, <2>3, QuietKeeps DEF CloseNext, AlreadyClosed
  <2> QED
    BY <1>3, <2>2, <2>3 DEF CloseNext
<1>4. ASSUME NEW c \in Channels, Send(c) PROVE ChannelInv'
  <2>1. \A d \in Channels : pair[d[1]] \notin Late => snd'[d] = snd[d]
    BY <1>4 DEF Send, ChannelInv, FreshUntouched, Untouched, TypeOK
  <2> QED
    BY <1>4, <2>1, QuietKeeps DEF Send
<1>5. ASSUME NEW p \in Pairs, PairThread(p) PROVE ChannelInv'
  BY <1>5, PairKeeps
<1>6. ASSUME NEW c \in Channels, ChannelThread(c) PROVE ChannelInv'
  <2>1. CASE AddChannel(c)
    BY <2>1, AddKeeps
  <2>2. CASE ReadData(c) \/ ReadFails(c) \/ WriteDone(c)
    <3>1. pair[c[1]] \in Late /\ pair[Other(c)[1]] \in Late
      BY <2>2, Ends DEF ReadData, ReadFails, WriteDone, ChannelInv, FreshUntouched, Untouched
    <3>2. \A d \in Channels : pair[d[1]] \notin Late => rd'[d] = rd[d]
      BY <2>2, <3>1 DEF ReadData, ReadFails, WriteDone, TypeOK
    <3>3. CASE UNCHANGED <<opened, target, closer>>
      BY <2>2, <3>2, <3>3, QuietKeeps DEF ReadData, ReadFails, WriteDone
    <3>4. CASE ReadFails(c) /\ CloseChannel(c)
      BY <3>1, <3>2, <3>4, CloseKeeps DEF ReadFails
    <3>5. CASE WriteDone(c) /\ CloseChannel(Other(c))
      BY <3>1, <3>2, <3>5, CloseKeeps, Ends DEF WriteDone
    <3> QED
      BY <2>2, <3>3, <3>4, <3>5 DEF ReadData, ReadFails, WriteDone, AlreadyClosed
  <2>3. CASE SendDone(c)
    <3>1. pair[c[1]] \in Late
      BY <2>3 DEF SendDone, ChannelInv, FreshUntouched, Untouched
    <3>2. \A d \in Channels : pair[d[1]] \notin Late => snd'[d] = snd[d]
      BY <2>3, <3>1 DEF SendDone, TypeOK
    <3>3. CASE UNCHANGED <<opened, target, closer>>
      BY <2>3, <3>2, <3>3, QuietKeeps DEF SendDone
    <3>4. CASE CloseChannel(c)
      BY <2>3, <3>1, <3>2, <3>4, CloseKeeps DEF SendDone
    <3> QED
      BY <2>3, <3>3, <3>4 DEF SendDone
  <2> QED
    BY <1>6, <2>1, <2>2, <2>3 DEF ChannelThread
<1>7. ASSUME NEW c \in Channels, CloserThread(c) PROVE ChannelInv'
  BY <1>7, CloserKeeps
<1>8. CASE UNCHANGED vars
  BY <1>8, QuietKeeps DEF vars
<1> QED
  BY <1>1, <1>2, <1>3, <1>4, <1>5, <1>6, <1>7, <1>8, ForwardAssumption DEF Next, UIThread

-----------------------------------------------------------------------------
(* The server.                                                              *)

\* A thread that concerns channels alone: nothing is accepted, connected,
\* stopped or opened by it.
LEMMA ServerKeeps ==
  ASSUME TypeOK, ServerInv, UNCHANGED <<status, acceptor, stale>>,
         \A p \in Pairs : \/ pair'[p] = pair[p]
                          \/ pair'[p] \in {"addServer", "up"}
                             /\ pair[p] \notin {"idle", "accepting", "up", "dead", "failed"},
         status # "Connected" => \A p \in Pairs : pair'[p] = "addServer" => p \in stale,
         \A c \in Channels : opened'[c] => opened[c],
         \A c \in toClose : c \in toClose' \/ ~opened'[c]
  PROVE  ServerInv'
<1>1. AcceptorIsConnected'
  BY DEF ServerInv, AcceptorIsConnected
<1>2. ServerAccepts'
  BY DEF ServerInv, ServerAccepts
<1>3. SettledOrStale'
  BY DEF ServerInv, SettledOrStale
<1>4. LeftToClose'
  BY DEF ServerInv, LeftToClose
<1> QED
  BY <1>1, <1>2, <1>3, <1>4 DEF ServerInv

\* Every step keeps what the server and its acceptor may be in the middle of.
LEMMA ServerStep == TypeOK /\ ChannelInv /\ ServerInv /\ [Next]_vars => ServerInv'
<1> SUFFICES ASSUME TypeOK, ChannelInv, ServerInv, [Next]_vars PROVE ServerInv'
  OBVIOUS
<1> USE DEF chVars, uiVars
\* Outside Connected, an open channel that is not stale is listed.
<1>1. status # "Connected" =>
        \A c \in Channels : opened[c] => c[1] \in stale \/ c \in listed
  BY Ends DEF ServerInv, SettledOrStale, ChannelInv, FreshOpened, OpenIsListed, Late
<1>2. CASE Start \/ StartFails \/ StopEnds
  BY <1>1, <1>2 DEF Start, StartFails, StopEnds, ServerInv, AcceptorIsConnected, ServerAccepts,
     SettledOrStale, LeftToClose
<1>3. CASE Listen
  BY <1>3 DEF Listen, ServerInv, AcceptorIsConnected, ServerAccepts, SettledOrStale,
     LeftToClose, TypeOK
<1>4. CASE Stop
  <2>1. SettledOrStale'
    BY <1>4 DEF Stop, SettledOrStale, TypeOK, PairPhases
  <2> QED
    BY <1>4, <2>1 DEF Stop, ServerInv, AcceptorIsConnected, ServerAccepts, LeftToClose
<1>5. CASE ClickClose
  BY <1>5, ServerKeeps DEF ClickClose, UIIdle
<1>6. ASSUME NEW c \in Channels, CloseNext(c) PROVE ServerInv'
  <2>1. ~opened'[c] /\ \A d \in Channels : opened'[d] => opened[d]
    BY <1>6 DEF CloseNext, CloseChannel, AlreadyClosed, TypeOK
  <2>2. status # "Connected" => \A p \in Pairs : pair[p] = "addServer" => p \in stale
    BY DEF ServerInv, SettledOrStale
  <2> QED
    BY <1>6, <2>1, <2>2, ServerKeeps DEF CloseNext
<1>7. ASSUME NEW c \in Channels, Send(c) PROVE ServerInv'
  BY <1>7, ServerKeeps DEF Send
<1>8. ASSUME NEW p \in Pairs, PairThread(p) PROVE ServerInv'
  <2>1. AcceptorIsConnected'
    BY <1>8 DEF PairThread, Accepted, AcceptCanceled, AcceptFails, ConnectFails, Connected,
       ServerInv, AcceptorIsConnected
  <2>2. ServerAccepts'
    BY <1>8 DEF PairThread, Accepted, AcceptCanceled, AcceptFails, ConnectFails, Connected,
       ServerInv, ServerAccepts, AcceptorIsConnected, TypeOK
  <2>3. SettledOrStale'
    BY <1>8 DEF PairThread, Accepted, AcceptCanceled, AcceptFails, ConnectFails, Connected,
       ServerInv, SettledOrStale, AcceptorIsConnected, TypeOK
  <2>4. LeftToClose'
    <3>1. status # "Connected" /\ (Accepted(p) \/ Connected(p)) => p \in stale
      BY DEF Accepted, Connected, ServerInv, SettledOrStale
    <3>2. \A c \in Channels : opened'[c] => opened[c] \/ (c[1] = p /\ (Accepted(p) \/ Connected(p)))
      BY <1>8, Ends DEF PairThread, Accepted, AcceptCanceled, AcceptFails, ConnectFails, Connected,
         TypeOK
    <3>3. UNCHANGED <<status, stale, toClose>>
      BY <1>8 DEF PairThread, Accepted, AcceptCanceled, AcceptFails, ConnectFails, Connected
    <3> QED
      BY <3>1, <3>2, <3>3 DEF ServerInv, LeftToClose
  <2> QED
    BY <2>1, <2>2, <2>3, <2>4 DEF ServerInv
<1>9. ASSUME NEW c \in Channels, ChannelThread(c) PROVE ServerInv'
  <2>1. CASE AddChannel(c)
    <3>1. /\ pair[c[1]] \in {"addClient", "addServer"} /\ pair'[c[1]] \in {"addServer", "up"}
          /\ \A p \in Pairs : p # c[1] => pair'[p] = pair[p]
      BY <2>1, Ends DEF AddChannel, TypeOK
    <3>2. status # "Connected" => \A p \in Pairs : pair'[p] = "addServer" => p \in stale
      BY <3>1 DEF ServerInv, SettledOrStale
    <3> QED
      BY <2>1, <3>1, <3>2, ServerKeeps DEF AddChannel
  <2>2. CASE ~AddChannel(c)
    <3>1. \A d \in Channels : opened'[d] => opened[d]
      BY <1>9, <2>2, Ends DEF ChannelThread, ReadData, ReadFails, WriteDone, SendDone,
         CloseChannel, AlreadyClosed, TypeOK
    <3>2. UNCHANGED <<status, acceptor, stale, pair, toClose>>
      BY <1>9, <2>2 DEF ChannelThread, ReadData, ReadFails, WriteDone, SendDone
    <3>3. status # "Connected" => \A p \in Pairs : pair'[p] = "addServer" => p \in stale
      BY <3>2 DEF ServerInv, SettledOrStale
    <3> QED
      BY <3>1, <3>2, <3>3, ServerKeeps
  <2> QED
    BY <2>1, <2>2
<1>10. ASSUME NEW c \in Channels, CloserThread(c) PROVE ServerInv'
  <2>1. \A d \in Channels : opened'[d] => opened[d]
    BY <1>10, Ends DEF CloserThread, CloseTarget, NotifyTarget, Notify, TypeOK
  <2>2. UNCHANGED <<status, acceptor, stale, pair, toClose>>
    BY <1>10 DEF CloserThread, CloseTarget, NotifyTarget, Notify
  <2>3. status # "Connected" => \A p \in Pairs : pair'[p] = "addServer" => p \in stale
    BY <2>2 DEF ServerInv, SettledOrStale
  <2> QED
    BY <2>1, <2>2, <2>3, ServerKeeps
<1>11. CASE UNCHANGED vars
  BY <1>11 DEF vars, ServerInv, AcceptorIsConnected, ServerAccepts, SettledOrStale, LeftToClose
<1> QED
  BY <1>2, <1>3, <1>4, <1>5, <1>6, <1>7, <1>8, <1>9, <1>10, <1>11, ForwardAssumption
     DEF Next, UIThread

-----------------------------------------------------------------------------
(* The theorems.                                                            *)

\* What the inductive invariant says in the terms of the properties.
LEMMA IInvImplies ==
  IInv => /\ TypeOK /\ NotifiedOnce /\ PairClosesTogether /\ OpenHasTarget
          /\ ServerAccepts /\ OnlyStaleSurvivesStop /\ ClosedClientUnlisted
<1> SUFFICES ASSUME IInv
             PROVE  /\ NotifiedOnce /\ PairClosesTogether
                    /\ OnlyStaleSurvivesStop /\ ClosedClientUnlisted
  BY DEF IInv, ChannelInv, ServerInv
<1> USE Ends DEF IInv, ChannelInv, Late
<1>1. NotifiedOnce
  BY DEF NotifiedOnce, ReportedAtMostOnce, OpenUnreported, FreshUntouched, Untouched
<1>2. PairClosesTogether
  <2> SUFFICES ASSUME NEW p \in Pairs, pair[p] \in {"addClient", "addServer", "up"},
                      opened[Client(p)] # opened[Server(p)]
               PROVE  \E c \in {Client(p), Server(p)} : ~opened[c] /\ closer[c] = "target"
    BY DEF PairClosesTogether
  <2>1. pair[p] # "addClient"
    <3>1. ASSUME pair[p] = "addClient" PROVE opened[Client(p)] /\ opened[Server(p)]
      BY <3>1 DEF FreshOpened
    <3> QED
      BY <3>1 DEF TypeOK
  <2>2. PICK c \in {Client(p), Server(p)} : opened[c] /\ ~opened[Other(c)]
    <3>1. Other(Client(p)) = Server(p) /\ Other(Server(p)) = Client(p)
      BY DEF Other, Client, Server
    <3>2. opened[Client(p)] \in BOOLEAN /\ opened[Server(p)] \in BOOLEAN
      BY DEF TypeOK
    <3>3. CASE opened[Client(p)] /\ ~opened[Server(p)]
      BY <3>1, <3>3
    <3>4. CASE ~opened[Client(p)] /\ opened[Server(p)]
      BY <3>1, <3>4
    <3> QED
      BY <3>2, <3>3, <3>4
  <2>3. closer[Other(c)] = "target" /\ Other(c) \in {Client(p), Server(p)}
    BY <2>1, <2>2 DEF HalfOpenIsClosing
  <2> QED
    BY <2>2, <2>3
<1>3. OnlyStaleSurvivesStop
  BY DEF OnlyStaleSurvivesStop, ServerInv, LeftToClose, UIIdle
<1>4. ClosedClientUnlisted
  BY DEF ClosedClientUnlisted, Quiet, ListedIsReported
<1> QED
  BY <1>1, <1>2, <1>3, <1>4

\* IInv is inductive.
THEOREM Inductive == Spec => []IInv
<1>1. IInv /\ [Next]_vars => IInv'
  BY TypeStep, ChannelStep, ServerStep DEF IInv
<1> QED
  BY InitIInv, <1>1, PTL DEF Spec

\* Every reachable state is well typed.
THEOREM TypeCorrect == Spec => []TypeOK
BY Inductive, IInvImplies, PTL

\* Reads, forwarded writes, the user's writes, the close button and Stop may
\* close the two ends of any number of pairs at once: the compare-exchanges of
\* CloseChannel let each channel be reported at most once.
THEOREM ReportedOnce == Spec => []NotifiedOnce
BY Inductive, IInvImplies, PTL

\* Neither end of a connected pair stays open without the other, but while
\* TargetCloseChannel is about to run.
THEOREM ClosesTogether == Spec => []PairClosesTogether
BY Inductive, IInvImplies, PTL

\* What an open end reads is always forwarded: its m_Target is set.
THEOREM TargetKept == Spec => []OpenHasTarget
BY Inductive, IInvImplies, PTL

\* The chain of accepts is kept up over Stop and restart, and ends only with
\* an accept that failed.
THEOREM AcceptsWhileConnected == Spec => []ServerAccepts
BY Inductive, IInvImplies, PTL

\* What is open after a Stop was being accepted or connected when it ran,
\* however many pairs there were.
THEOREM SurvivorsAreStale == Spec => []OnlyStaleSurvivesStop
BY Inductive, IInvImplies, PTL

\* A closed client is not left in the channel list.
THEOREM ClosedUnlisted == Spec => []ClosedClientUnlisted
BY Inductive, IInvImplies, PTL

============================================================================
