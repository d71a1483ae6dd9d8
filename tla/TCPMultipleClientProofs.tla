----------------------- MODULE TCPMultipleClientProofs -----------------------
(***************************************************************************)
(* Proofs about TCPMultipleClient, for every set of attempts and every      *)
(* number of slots.                                                         *)
(***************************************************************************)
EXTENDS TCPMultipleClient, FiniteSetTheorems, SequenceTheorems, TLAPS

-----------------------------------------------------------------------------
(* The invariant: slots and channels, in every state.                       *)

InSlot(c) == \E i \in 1..N : slot[i] = c
Live(a)   == chain[a] \in {"resolving", "connecting", "okCount", "okAdd"}

\* A channel is in one slot, and is named by an attempt that has been made.
SlotsApart ==
  /\ \A i, j \in 1..N : slot[i] = slot[j] /\ slot[i] # None => i = j
  /\ \A i \in 1..N : slot[i] # None => chain[slot[i]] # "idle"
  /\ \A a \in Attempts : ch[a] # None => chain[ch[a]] # "idle"
  /\ \A a \in Attempts : ch[a] = None <=> chain[a] = "idle"
  /\ \A a \in Attempts : rd[a] # "none" => chain[a] = "ok"
  /\ \A a \in Attempts : rep[a] # "none" => Counted(a)

\* The attempts of a session are of different channels; the slots that the task
\* of Start has yet to come to are of none of them.
CurApart ==
  /\ IsFiniteSet(cur) /\ \A a \in cur : chain[a] # "idle"
  /\ \A a, b \in cur : ch[a] = ch[b] => a = b
  /\ start # 0 => \A j \in start..N : \A b \in cur : slot[j] # ch[b]

TasksAt ==
  /\ stop \in {"close", "erase"} => stopAt \in 1..N
  /\ stop \notin {"close", "erase"} => stopAt = 0
  /\ stop = "erase" => slot[stopAt] # None
  /\ ui # "idle" => start = 0
  /\ ui = "resetFails" => cur = {}

-----------------------------------------------------------------------------
(* The invariant: a session that no Stop has cut short.                     *)

StopBusy == stop \in {"close", "erase", "resetConnects", "resetFails", "set"}

\* Outside a session nothing is under way.
Between == status = "Disconnected" \/ ui # "idle" \/ StopBusy

BetweenRests ==
  /\ ui # "idle" => status = "Connecting" /\ ~StopBusy
  /\ StopBusy => status = "Disconnecting"
  /\ stop = "resetFails" => cur = {}
  /\ Between => /\ start = 0
                /\ \A a \in Attempts : chain[a] \in {"idle", "ok", "failed"} /\ rep[a] # "due"

\* Who is under way is of this session, and its channel is open.
LiveIsOpen ==
  /\ \A a \in Attempts : Live(a) => opened[ch[a]] /\ InSlot(ch[a])
  /\ \A a \in Attempts :
       chain[a] \notin {"idle", "ok", "failed"} \/ rep[a] = "due" => a \in cur

\* Open sockets and listed channels are of this session's slots.
HasRun(c) == \E a \in cur : ch[a] = c /\ chain[a] \in {"connecting", "okCount", "okAdd", "ok"}

SocketsKnown ==
  /\ \A c \in Attempts : sock[c] => opened[c] /\ InSlot(c) /\ HasRun(c)
  /\ \A c \in listed : InSlot(c) /\ \E a \in cur : ch[a] = c /\ chain[a] = "ok"
  /\ \A a \in Attempts : rd[a] # "none" => a \in cur \/ ~InSlot(ch[a])

\* Before a session, and after it, nothing is open, listed or read.
NothingOpen ==
  status = "Disconnected" \/ ui # "idle" =>
    /\ listed = {}
    /\ \A c \in Attempts : ~sock[c]
    /\ \A a \in Attempts : rd[a] # "none" => ~InSlot(ch[a])

\* The task of Stop empties the slots one after the other.
StopEmpties ==
  /\ stop = "erase" => ~opened[slot[stopAt]]
  /\ stop \in {"close", "erase"} => \A i \in 1..(stopAt - 1) : slot[i] = None
  /\ stop \in {"resetConnects", "resetFails", "set"} => \A i \in 1..N : slot[i] = None

\* A listed channel that is closed is about to leave the list.
ListedIsOpen ==
  \A c \in listed :
    \/ opened[c]
    \/ \E a \in Attempts : rd[a] = "notify" /\ ch[a] = c
    \/ stop = "erase" /\ slot[stopAt] = c

\* The counters, and who reports.
Done   == {a \in cur : Counted(a)}
Failed == {a \in cur : chain[a] = "failed"}
Passed == IF start = 0 THEN N ELSE start - 1

CountersExact ==
  /\ connects = Cardinality(Done)
  /\ ui # "resetFails" /\ stop # "resetFails" => fails = Cardinality(Failed)
  /\ ~Between => Cardinality(cur) <= Passed

ReporterIsLast ==
  /\ \A a, b \in cur : rep[a] # "none" /\ rep[b] # "none" => a = b
  /\ ~Between => \A a \in cur : rep[a] # "none" => connects >= N

SessionInv ==
  ~cutShort =>
    /\ BetweenRests /\ LiveIsOpen /\ SocketsKnown /\ NothingOpen /\ StopEmpties
    /\ ListedIsOpen /\ CountersExact /\ ReporterIsLast

-----------------------------------------------------------------------------
(* The invariant: Connecting, also after a Stop that cut a session short.   *)

Uncounted ==
  {a \in Attempts : chain[a] \in {"resolving", "connecting", "okCount", "failCount"}}

ConnectingInv ==
  status = "Connecting" /\ stop \in {"none", "tell"} /\ N # 0 =>
    /\ ui = "idle" /\ ~refused => Passed <= connects + Cardinality(Uncounted)
    /\ ui # "resetConnects" /\ connects >= N => \E a \in Attempts : rep[a] = "due"

MultiIInv ==
  /\ TypeOK /\ SlotsApart /\ CurApart /\ TasksAt
  /\ SessionInv /\ ConnectedHasChannel
  /\ IsFiniteSet(Uncounted) /\ ConnectingInv

-----------------------------------------------------------------------------
(* Lemmas about the slots.                                                  *)

\* Each slot holds a channel or none.
LEMMA MulSlotType ==
  ASSUME TypeOK
  PROVE  /\ N \in Nat
         /\ \A i \in 1..N : slot[i] \in Attempts \cup {None}
<1>1. slot \in Seq(Attempts \cup {None})
  BY DEF TypeOK
<1> QED
  BY <1>1, LenProperties, ElementOfSeq DEF N

\* Filling one slot leaves the others and their number as they are.
LEMMA MulExcept ==
  ASSUME TypeOK, NEW i \in 1..N, NEW c \in Attempts \cup {None}, slot' = [slot EXCEPT ![i] = c]
  PROVE  /\ slot' \in Seq(Attempts \cup {None}) /\ N' = N
         /\ \A j \in 1..N : slot'[j] = IF j = i THEN c ELSE slot[j]
<1>1. slot \in Seq(Attempts \cup {None}) /\ i \in 1..Len(slot)
  BY DEF TypeOK, N
<1> QED
  BY <1>1, ExceptSeq DEF N

Chan(a) == IF slot[start] = None THEN a ELSE slot[start]

\* StartSlot puts the channel of its attempt into the slot it has come to.
LEMMA MulStartSlot ==
  ASSUME TypeOK, NEW a \in Attempts, StartSlot(a)
  PROVE  /\ start \in 1..N /\ Chan(a) \in Attempts /\ ~opened[Chan(a)]
         /\ slot' \in Seq(Attempts \cup {None}) /\ N' = N
         /\ \A j \in 1..N : slot'[j] = IF j = start THEN Chan(a) ELSE slot[j]
         /\ opened' = [opened EXCEPT ![Chan(a)] = TRUE]
         /\ ch' = [ch EXCEPT ![a] = Chan(a)]
         /\ start' = After(start) /\ start' \in 0..N
<1>1. start \in 1..N /\ N \in Nat
  BY MulSlotType DEF TypeOK, StartSlot
<1>2. Chan(a) \in Attempts
  BY <1>1, MulSlotType DEF Chan
<1>3. /\ ~opened[Chan(a)] /\ slot' = [slot EXCEPT ![start] = Chan(a)]
      /\ opened' = [opened EXCEPT ![Chan(a)] = TRUE]
      /\ ch' = [ch EXCEPT ![a] = Chan(a)] /\ start' = After(start)
  BY DEF StartSlot, Chan, Closed
<1>4. start' \in 0..N
  BY <1>1, <1>3 DEF After
<1> QED
  BY <1>1, <1>2, <1>3, <1>4, MulExcept

\* StartSlot takes no channel out of the slots: those it fills are new or reused.
LEMMA MulStartSlotIn ==
  ASSUME TypeOK, NEW a \in Attempts, StartSlot(a), NEW c \in Attempts
  PROVE  /\ InSlot(c) => InSlot(c)'
         /\ InSlot(c)' => InSlot(c) \/ (c = a /\ slot[start] = None)
<1>1. /\ start \in 1..N /\ N' = N /\ c # None
      /\ \A j \in 1..N : slot'[j] = IF j = start THEN Chan(a) ELSE slot[j]
  BY MulStartSlot, ClientAssumption
<1>2. ASSUME NEW i \in 1..N, slot[i] = c
      PROVE  slot'[i] = c
  BY <1>1, <1>2 DEF Chan
<1>3. ASSUME NEW i \in 1..N, slot'[i] = c
      PROVE  slot[i] = c \/ (c = a /\ slot[start] = None)
  BY <1>1, <1>3 DEF Chan
<1> QED
  BY <1>1, <1>2, <1>3 DEF InSlot

\* StopErase empties the slot it has come to.
LEMMA MulStopErase ==
  ASSUME TypeOK, TasksAt, StopErase
  PROVE  /\ stopAt \in 1..N
         /\ slot' \in Seq(Attempts \cup {None}) /\ N' = N
         /\ \A j \in 1..N : slot'[j] = IF j = stopAt THEN None ELSE slot[j]
         /\ stopAt' = After(stopAt) /\ stopAt' \in 0..N
<1>1. stopAt \in 1..N /\ N \in Nat
  BY MulSlotType DEF TasksAt, StopErase
<1>2. slot' = [slot EXCEPT ![stopAt] = None] /\ stopAt' = After(stopAt)
  BY DEF StopErase
<1>3. stopAt' \in 0..N
  BY <1>1, <1>2 DEF After
<1> QED
  BY <1>1, <1>2, <1>3, MulExcept

\* SetCanonsCount cuts slots off the end, or adds empty ones.
LEMMA MulSetCanons ==
  ASSUME TypeOK, NEW n \in Canons, SetCanonsCount(n)
  PROVE  /\ slot' \in Seq(Attempts \cup {None}) /\ N' = n /\ n \in Nat
         /\ \A j \in 1..n : slot'[j] = IF j <= N THEN slot[j] ELSE None
<1>1. n \in Nat /\ N \in Nat /\ \A i \in 1..N : slot[i] \in Attempts \cup {None}
  BY MulSlotType, ClientAssumption
<1>2. slot' = [i \in 1..n |-> IF i <= N THEN slot[i] ELSE None]
  BY DEF SetCanonsCount
<1>3. slot' \in [1..n -> Attempts \cup {None}]
  BY <1>1, <1>2
<1>4. slot' \in Seq(Attempts \cup {None}) /\ DOMAIN slot' = 1..n
  BY <1>1, <1>3, SeqDef
<1>5. Len(slot') \in Nat /\ 1..Len(slot') = 1..n
  BY <1>4, LenProperties
<1>6. Len(slot') = n
  BY <1>1, <1>5
<1> QED
  BY <1>1, <1>2, <1>4, <1>6 DEF N

-----------------------------------------------------------------------------
(* Lemmas about a session that no Stop cut short.                           *)

\* Start has passed no more slots than there are, and has ended when it passed all.
LEMMA MulPassed ==
  ASSUME MultiIInv
  PROVE  N \in Nat /\ Passed \in Int /\ Passed <= N /\ (Passed = N => start = 0)
<1>1. N \in Nat /\ start \in 0..N
  BY MulSlotType DEF MultiIInv, TypeOK
<1> QED
  BY <1>1 DEF Passed

\* If as many attempts failed as there are slots, all attempts did, and the task
\* of Start is over.
LEMMA MulAllFailed ==
  ASSUME MultiIInv, ~cutShort, ~Between, fails = N
  PROVE  start = 0 /\ \A b \in cur : chain[b] = "failed"
<1>1. fails = Cardinality(Failed) /\ Cardinality(cur) <= Passed /\ IsFiniteSet(cur)
  BY DEF MultiIInv, SessionInv, CountersExact, Between, StopBusy, CurApart
<1>2. N \in Nat /\ Passed <= N /\ (Passed = N => start = 0)
  BY MulPassed
<1>3. Failed \in SUBSET cur
  BY DEF Failed
<1>4. /\ Cardinality(Failed) <= Cardinality(cur) /\ Cardinality(cur) \in Nat
      /\ Cardinality(Failed) = Cardinality(cur) => Failed = cur
  BY <1>1, <1>3, FS_Subset, FS_CardinalityType
<1>5. Cardinality(cur) = N /\ Passed = N
  BY <1>1, <1>2, <1>4, MulPassed
<1> QED
  BY <1>1, <1>2, <1>4, <1>5 DEF Failed

\* Who counts while its session goes on is the first to come to the end, if it
\* does: no other attempt of the session has reported.
LEMMA MulFirstReport ==
  ASSUME MultiIInv, ~cutShort, NEW a \in Attempts, chain[a] \in {"okCount", "failCount"}
  PROVE  /\ a \in cur /\ a \notin Done /\ ~Between
         /\ \A b \in cur : rep[b] = "none"
<1>1. a \in cur /\ a \notin Done /\ ~Between
  BY DEF MultiIInv, SessionInv, BetweenRests, LiveIsOpen, Done, Counted
<1>2. connects = Cardinality(Done) /\ Cardinality(cur) <= Passed /\ IsFiniteSet(cur)
  BY <1>1 DEF MultiIInv, SessionInv, CountersExact, CurApart
<1>3. Done \in SUBSET cur
  BY DEF Done
<1>4. /\ Cardinality(Done) <= Cardinality(cur) /\ Cardinality(Done) # Cardinality(cur)
      /\ Cardinality(cur) \in Nat /\ Cardinality(Done) \in Nat
  BY <1>1, <1>2, <1>3, FS_Subset, FS_CardinalityType
<1>5. connects < N
  BY <1>2, <1>4, MulPassed
<1>6. \A b \in cur : rep[b] = "none"
  BY <1>1, <1>4, <1>2, <1>5, MulPassed DEF MultiIInv, SessionInv, ReporterIsLast
<1> QED
  BY <1>1, <1>6

\* A session with no attempt that succeeded, and none between its two counts,
\* has failed as often as it has slots when all have been counted.
LEMMA MulNoneConnected ==
  ASSUME MultiIInv, ~cutShort, ~Between, connects >= N,
         \A b \in cur : chain[b] \notin {"okAdd", "ok", "failAgain"}
  PROVE  fails = N
<1>1. Done = Failed
  BY DEF Done, Failed, Counted
<1>2. /\ connects = Cardinality(Done) /\ fails = Cardinality(Failed)
      /\ Cardinality(cur) <= Passed /\ IsFiniteSet(cur)
  BY DEF MultiIInv, SessionInv, CountersExact, CurApart, Between, StopBusy
<1>3. Done \in SUBSET cur
  BY DEF Done
<1>4. /\ Cardinality(Done) <= Cardinality(cur)
      /\ Cardinality(cur) \in Nat /\ Cardinality(Done) \in Nat
  BY <1>2, <1>3, FS_Subset, FS_CardinalityType
<1> QED
  BY <1>1, <1>2, <1>4, MulPassed

-----------------------------------------------------------------------------
(* Types, slots and tasks.                                                  *)

\* Every step keeps the types.
LEMMA MulTypes == MultiIInv /\ [Next]_vars => TypeOK'
<1> SUFFICES ASSUME MultiIInv, [Next]_vars PROVE TypeOK'
  OBVIOUS
<1>1. /\ TypeOK /\ TasksAt /\ N \in Nat /\ \A i \in 1..N : slot[i] \in Attempts \cup {None}
      /\ slot' = slot => N' = N
  BY MulSlotType DEF MultiIInv, N
<1> USE <1>1, ClientAssumption DEF TypeOK, Statuses, Phases, Reports, TasksAt, vars,
            winVars, taskVars, chVars, runVars, cntVars, histVars
<1>2. CASE UNCHANGED vars
  BY <1>2
<1>3. ASSUME NEW n \in Canons, SetCanonsCount(n) PROVE TypeOK'
  <2>1. start' = 0 /\ stopAt' = 0 /\ N' \in Nat
    BY <1>3, MulSetCanons DEF SetCanonsCount
  <2> QED
    BY <1>3, <2>1, MulSetCanons DEF SetCanonsCount
<1>4. CASE ClickConnect
  BY <1>4 DEF ClickConnect
<1>5. CASE StartResetConnects
  BY <1>5 DEF StartResetConnects
<1>6. CASE StartResetFails
  BY <1>6 DEF StartResetFails
<1>7. CASE ClickStop
  BY <1>7 DEF ClickStop
<1>8. CASE StartRefused
  BY <1>8 DEF StartRefused, After
<1>9. ASSUME NEW a \in Attempts, StartSlot(a) PROVE TypeOK'
  <2>1. /\ start' \in 0..N' /\ slot' \in Seq(Attempts \cup {None}) /\ N' = N
        /\ opened' \in [Attempts -> BOOLEAN]
    BY <1>9, MulStartSlot
  <2>2. ch' \in [Attempts -> Attempts \cup {None}]
    BY <1>9, MulStartSlot
  <2>3. chain' \in [Attempts -> Phases] /\ cur' \in SUBSET Attempts
    BY <1>9 DEF StartSlot
  <2> QED
    BY <1>9, <2>1, <2>2, <2>3 DEF StartSlot
<1>10. CASE StopSlot
  <2>1. stopAt \in 1..N /\ stopAt' \in 0..N
    BY <1>10 DEF StopSlot, After
  <2>2. opened' \in [Attempts -> BOOLEAN] /\ sock' \in [Attempts -> BOOLEAN]
    BY <1>10 DEF StopSlot, CloseSocket
  <2>3. stop' \in {"close", "erase", "resetConnects"}
    BY <1>10 DEF StopSlot
  <2> QED
    BY <1>10, <2>1, <2>2, <2>3 DEF StopSlot
<1>11. CASE StopErase
  <2> QED
    BY <1>11, MulStopErase DEF StopErase
<1>12. CASE StopResetConnects
  BY <1>12 DEF StopResetConnects
<1>13. CASE StopResetFails
  BY <1>13 DEF StopResetFails
<1>14. CASE StopSetStatus
  BY <1>14 DEF StopSetStatus
<1>15. CASE StopTell
  <2>0. PICK s \in Statuses : OnDeviceStatusChanged(s)
    BY <1>15 DEF StopTell, Statuses
  <2>1. /\ opened' \in [Attempts -> BOOLEAN] /\ sock' \in [Attempts -> BOOLEAN]
        /\ listed' \in SUBSET Attempts /\ shown' \in Statuses
    BY <2>0 DEF OnDeviceStatusChanged
  <2> QED
    BY <1>15, <2>1 DEF StopTell
<1>16. ASSUME NEW a \in Attempts, ResolveFails(a) PROVE TypeOK'
  BY <1>16 DEF ResolveFails, Go
<1>17. ASSUME NEW a \in Attempts, ResolveDone(a) PROVE TypeOK'
  <2>1. chain' \in [Attempts -> Phases]
    BY <1>17 DEF ResolveDone, Go
  <2>2. sock' \in [Attempts -> BOOLEAN]
    BY <1>17 DEF ResolveDone
  <2> QED
    BY <1>17, <2>1, <2>2 DEF ResolveDone
<1>18. ASSUME NEW a \in Attempts, ConnectDone(a) PROVE TypeOK'
  BY <1>18 DEF ConnectDone, Go
<1>19. ASSUME NEW a \in Attempts, ConnectFails(a) PROVE TypeOK'
  <2>1. chain' \in [Attempts -> Phases]
    BY <1>19 DEF ConnectFails, Go
  <2>2. opened' \in [Attempts -> BOOLEAN] /\ sock' \in [Attempts -> BOOLEAN]
    BY <1>19 DEF ConnectFails, CloseSocket
  <2> QED
    BY <1>19, <2>1, <2>2 DEF ConnectFails
<1>20. ASSUME NEW a \in Attempts, CountConnect(a) PROVE TypeOK'
  BY <1>20 DEF CountConnect, Go
<1>21. ASSUME NEW a \in Attempts, CountFail(a) PROVE TypeOK'
  BY <1>21 DEF CountFail, Go
<1>22. ASSUME NEW a \in Attempts, AddChannel(a) PROVE TypeOK'
  <2>1. chain' \in [Attempts -> Phases]
    BY <1>22 DEF AddChannel, Go
  <2>2. rd' \in [Attempts -> {"none", "pending", "notify"}]
    BY <1>22 DEF AddChannel
  <2>3. listed' \in SUBSET Attempts
    <3>1. ch[a] # None
      BY <1>22 DEF AddChannel, Go, MultiIInv, SlotsApart
    <3>2. ch[a] \in Attempts
      BY <3>1
    <3> QED
      BY <1>22, <3>2 DEF AddChannel
  <2> QED
    BY <1>22, <2>1, <2>2, <2>3 DEF AddChannel
<1>23. ASSUME NEW a \in Attempts, Report(a) PROVE TypeOK'
  BY <1>23 DEF Report
<1>24. ASSUME NEW a \in Attempts, TellWindow(a) PROVE TypeOK'
  <2>0. PICK s \in Statuses : OnDeviceStatusChanged(s)
    BY <1>24 DEF TellWindow, Statuses
  <2>1. /\ opened' \in [Attempts -> BOOLEAN] /\ sock' \in [Attempts -> BOOLEAN]
        /\ listed' \in SUBSET Attempts /\ shown' \in Statuses
    BY <2>0 DEF OnDeviceStatusChanged
  <2>2. rep' \in [Attempts -> Reports]
    BY <1>24 DEF TellWindow
  <2> QED
    BY <1>24, <2>1, <2>2 DEF TellWindow
<1>25. ASSUME NEW a \in Attempts, ReadFails(a) PROVE TypeOK'
  <2>1. rd' \in [Attempts -> {"none", "pending", "notify"}]
    BY <1>25 DEF ReadFails
  <2>2. opened' \in [Attempts -> BOOLEAN] /\ sock' \in [Attempts -> BOOLEAN]
    BY <1>25 DEF ReadFails, CloseSocket
  <2> QED
    BY <1>25, <2>1, <2>2 DEF ReadFails
<1>26. ASSUME NEW a \in Attempts, NotifyChannelClose(a) PROVE TypeOK'
  BY <1>26 DEF NotifyChannelClose
<1>27. ASSUME NEW a \in Attempts, ClickClose(a) PROVE TypeOK'
  BY <1>27 DEF ClickClose, CloseSocket
<1> QED
  BY <1>2, <1>3, <1>4, <1>5, <1>6, <1>7, <1>8, <1>9, <1>10, <1>11, <1>12, <1>13, <1>14,
     <1>15, <1>16, <1>17, <1>18, <1>19, <1>20, <1>21, <1>22, <1>23, <1>24, <1>25, <1>26,
     <1>27
     DEF Next, UIThread, StartTask, StopTask, Completion

\* Every step keeps one slot to a channel.
LEMMA MulSlotsApart == MultiIInv /\ [Next]_vars => SlotsApart'
<1> SUFFICES ASSUME MultiIInv, [Next]_vars PROVE SlotsApart'
  OBVIOUS
<1>1. /\ TypeOK /\ TasksAt /\ N \in Nat /\ \A i \in 1..N : slot[i] \in Attempts \cup {None}
      /\ slot' = slot => N' = N
  BY MulSlotType DEF MultiIInv, N
<1> USE <1>1, ClientAssumption DEF MultiIInv, TypeOK, SlotsApart, Counted, Phases, vars,
            winVars, taskVars, chVars, runVars, cntVars, histVars
<1>2. CASE UNCHANGED vars
  BY <1>2
<1>3. ASSUME NEW n \in Canons, SetCanonsCount(n) PROVE SlotsApart'
  BY <1>3, MulSetCanons DEF SetCanonsCount
<1>4. CASE ClickConnect
  BY <1>4 DEF ClickConnect
<1>5. CASE StartResetConnects
  BY <1>5 DEF StartResetConnects
<1>6. CASE StartResetFails
  BY <1>6 DEF StartResetFails
<1>7. CASE ClickStop
  BY <1>7 DEF ClickStop
<1>8. CASE StartRefused
  BY <1>8 DEF StartRefused, After
<1>9. ASSUME NEW a \in Attempts, StartSlot(a) PROVE SlotsApart'
  <2> USE MulStartSlot
  <2>1. chain'[a] = "resolving" /\ \A b \in Attempts : b # a => chain'[b] = chain[b]
    BY <1>9 DEF StartSlot
  <2>2. chain'[Chan(a)] # "idle" /\ \A b \in Attempts : chain[b] # "idle" => chain'[b] # "idle"
    BY <1>9, <2>1 DEF Chan
  <2>3. \A j \in 1..N : slot[j] = Chan(a) => j = start
    BY <1>9, <2>2 DEF Chan, StartSlot
  <2>4. ch'[a] = Chan(a) /\ \A b \in Attempts : b # a => ch'[b] = ch[b]
    BY <1>9
  <2>5. \A i, j \in 1..N' : slot'[i] = slot'[j] /\ slot'[i] # None => i = j
    BY <1>9, <2>3
  <2>6. \A i \in 1..N' : slot'[i] # None => chain'[slot'[i]] # "idle"
    BY <1>9, <2>2
  <2>7. \A b \in Attempts : ch'[b] # None => chain'[ch'[b]] # "idle"
    BY <1>9, <2>2, <2>4
  <2>8. \A b \in Attempts : ch'[b] = None <=> chain'[b] = "idle"
    BY <1>9, <2>1, <2>4
  <2>9. \A b \in Attempts : rd'[b] # "none" => chain'[b] = "ok"
    BY <1>9, <2>1 DEF StartSlot
  <2>10. \A b \in Attempts : rep'[b] # "none" => Counted(b)'
    BY <1>9, <2>1 DEF StartSlot
  <2> QED
    BY <2>5, <2>6, <2>7, <2>8, <2>9, <2>10
<1>10. CASE StopSlot
  BY <1>10 DEF StopSlot, CloseSocket, Closed, After
<1>11. CASE StopErase
  BY <1>11, MulStopErase DEF StopErase, After
<1>12. CASE StopResetConnects
  BY <1>12 DEF StopResetConnects
<1>13. CASE StopResetFails
  BY <1>13 DEF StopResetFails
<1>14. CASE StopSetStatus
  BY <1>14 DEF StopSetStatus
<1>15. CASE StopTell
  BY <1>15 DEF StopTell, OnDeviceStatusChanged
<1>16. ASSUME NEW a \in Attempts, ResolveFails(a) PROVE SlotsApart'
  BY <1>16 DEF ResolveFails, Go
<1>17. ASSUME NEW a \in Attempts, ResolveDone(a) PROVE SlotsApart'
  BY <1>17 DEF ResolveDone, Go
<1>18. ASSUME NEW a \in Attempts, ConnectDone(a) PROVE SlotsApart'
  BY <1>18 DEF ConnectDone, Go
<1>19. ASSUME NEW a \in Attempts, ConnectFails(a) PROVE SlotsApart'
  BY <1>19 DEF ConnectFails, Go, CloseSocket, Closed
<1>20. ASSUME NEW a \in Attempts, CountConnect(a) PROVE SlotsApart'
  BY <1>20 DEF CountConnect, Go
<1>21. ASSUME NEW a \in Attempts, CountFail(a) PROVE SlotsApart'
  BY <1>21 DEF CountFail, Go
<1>22. ASSUME NEW a \in Attempts, AddChannel(a) PROVE SlotsApart'
  BY <1>22 DEF AddChannel, Go
<1>23. ASSUME NEW a \in Attempts, Report(a) PROVE SlotsApart'
  BY <1>23 DEF Report
<1>24. ASSUME NEW a \in Attempts, TellWindow(a) PROVE SlotsApart'
  BY <1>24 DEF TellWindow, OnDeviceStatusChanged
<1>25. ASSUME NEW a \in Attempts, ReadFails(a) PROVE SlotsApart'
  BY <1>25 DEF ReadFails, CloseSocket, Closed
<1>26. ASSUME NEW a \in Attempts, NotifyChannelClose(a) PROVE SlotsApart'
  BY <1>26 DEF NotifyChannelClose
<1>27. ASSUME NEW a \in Attempts, ClickClose(a) PROVE SlotsApart'
  BY <1>27 DEF ClickClose, CloseSocket
<1> QED
  BY <1>2, <1>3, <1>4, <1>5, <1>6, <1>7, <1>8, <1>9, <1>10, <1>11, <1>12, <1>13, <1>14,
     <1>15, <1>16, <1>17, <1>18, <1>19, <1>20, <1>21, <1>22, <1>23, <1>24, <1>25, <1>26,
     <1>27
     DEF Next, UIThread, StartTask, StopTask, Completion

\* Every step keeps Start and Stop within the slots.
LEMMA MulTasksAt == MultiIInv /\ [Next]_vars => TasksAt'
<1> SUFFICES ASSUME MultiIInv, [Next]_vars PROVE TasksAt'
  OBVIOUS
<1>1. /\ TypeOK /\ TasksAt /\ N \in Nat /\ \A i \in 1..N : slot[i] \in Attempts \cup {None}
      /\ slot' = slot => N' = N
  BY MulSlotType DEF MultiIInv, N
<1> USE <1>1, ClientAssumption DEF MultiIInv, TypeOK, TasksAt, vars, winVars, taskVars,
            chVars, runVars, cntVars, histVars
<1>2. CASE UNCHANGED vars
  BY <1>2
<1>3. ASSUME NEW n \in Canons, SetCanonsCount(n) PROVE TasksAt'
  BY <1>3, MulSetCanons DEF SetCanonsCount
<1>4. CASE ClickConnect
  BY <1>4 DEF ClickConnect
<1>5. CASE StartResetConnects
  BY <1>5 DEF StartResetConnects
<1>6. CASE StartResetFails
  BY <1>6 DEF StartResetFails
<1>7. CASE ClickStop
  BY <1>7 DEF ClickStop
<1>8. CASE StartRefused
  BY <1>8 DEF StartRefused, After
<1>9. ASSUME NEW a \in Attempts, StartSlot(a) PROVE TasksAt'
  <2>1. stop = "erase" => slot'[stopAt] # None
    BY <1>9, MulStartSlot, MulSlotType
  <2>2. ui = "idle" /\ stop' = stop /\ stopAt' = stopAt /\ ui' = ui /\ N' = N
    BY <1>9, MulStartSlot DEF StartSlot
  <2> QED
    BY <2>1, <2>2
<1>10. CASE StopSlot
  BY <1>10 DEF StopSlot, CloseSocket, Closed, After
<1>11. CASE StopErase
  BY <1>11, MulStopErase DEF StopErase, After
<1>12. CASE StopResetConnects
  BY <1>12 DEF StopResetConnects
<1>13. CASE StopResetFails
  BY <1>13 DEF StopResetFails
<1>14. CASE StopSetStatus
  BY <1>14 DEF StopSetStatus
<1>15. CASE StopTell
  BY <1>15 DEF StopTell, OnDeviceStatusChanged
<1>16. ASSUME NEW a \in Attempts, ResolveFails(a) PROVE TasksAt'
  BY <1>16 DEF ResolveFails, Go
<1>17. ASSUME NEW a \in Attempts, ResolveDone(a) PROVE TasksAt'
  BY <1>17 DEF ResolveDone, Go
<1>18. ASSUME NEW a \in Attempts, ConnectDone(a) PROVE TasksAt'
  BY <1>18 DEF ConnectDone, Go
<1>19. ASSUME NEW a \in Attempts, ConnectFails(a) PROVE TasksAt'
  BY <1>19 DEF ConnectFails, Go, CloseSocket, Closed
<1>20. ASSUME NEW a \in Attempts, CountConnect(a) PROVE TasksAt'
  BY <1>20 DEF CountConnect, Go
<1>21. ASSUME NEW a \in Attempts, CountFail(a) PROVE TasksAt'
  BY <1>21 DEF CountFail, Go
<1>22. ASSUME NEW a \in Attempts, AddChannel(a) PROVE TasksAt'
  BY <1>22 DEF AddChannel, Go
<1>23. ASSUME NEW a \in Attempts, Report(a) PROVE TasksAt'
  BY <1>23 DEF Report
<1>24. ASSUME NEW a \in Attempts, TellWindow(a) PROVE TasksAt'
  BY <1>24 DEF TellWindow, OnDeviceStatusChanged
<1>25. ASSUME NEW a \in Attempts, ReadFails(a) PROVE TasksAt'
  BY <1>25 DEF ReadFails, CloseSocket, Closed
<1>26. ASSUME NEW a \in Attempts, NotifyChannelClose(a) PROVE TasksAt'
  BY <1>26 DEF NotifyChannelClose
<1>27. ASSUME NEW a \in Attempts, ClickClose(a) PROVE TasksAt'
  BY <1>27 DEF ClickClose, CloseSocket
<1> QED
  BY <1>2, <1>3, <1>4, <1>5, <1>6, <1>7, <1>8, <1>9, <1>10, <1>11, <1>12, <1>13, <1>14,
     <1>15, <1>16, <1>17, <1>18, <1>19, <1>20, <1>21, <1>22, <1>23, <1>24, <1>25, <1>26,
     <1>27
     DEF Next, UIThread, StartTask, StopTask, Completion

\* Every step keeps the attempts of this start on channels of their own.
LEMMA MulCurApart == MultiIInv /\ [Next]_vars => CurApart'
<1> SUFFICES ASSUME MultiIInv, [Next]_vars PROVE CurApart'
  OBVIOUS
<1>1. /\ TypeOK /\ TasksAt /\ N \in Nat /\ \A i \in 1..N : slot[i] \in Attempts \cup {None}
      /\ slot' = slot => N' = N
  BY MulSlotType DEF MultiIInv, N
<1> USE <1>1, ClientAssumption DEF MultiIInv, TypeOK, SlotsApart, CurApart, TasksAt,
            Phases, vars, winVars, taskVars, chVars, runVars, cntVars, histVars
<1>2. CASE UNCHANGED vars
  BY <1>2
<1>3. ASSUME NEW n \in Canons, SetCanonsCount(n) PROVE CurApart'
  BY <1>3, MulSetCanons DEF SetCanonsCount
<1>4. CASE ClickConnect
  BY <1>4 DEF ClickConnect
<1>5. CASE StartResetConnects
  BY <1>5, FS_EmptySet DEF StartResetConnects
<1>6. CASE StartResetFails
  BY <1>6 DEF StartResetFails
<1>7. CASE ClickStop
  BY <1>7 DEF ClickStop
<1>8. CASE StartRefused
  BY <1>8 DEF StartRefused, After
<1>9. ASSUME NEW a \in Attempts, StartSlot(a) PROVE CurApart'
  <2> USE MulStartSlot
  <2>0. ch' = [ch EXCEPT ![a] = Chan(a)] /\ chain' = [chain EXCEPT ![a] = "resolving"]
    BY <1>9 DEF StartSlot
  <2>1. /\ a \notin cur /\ cur' = cur \cup {a}
        /\ \A b \in Attempts : b # a => chain'[b] = chain[b] /\ ch'[b] = ch[b]
        /\ chain'[a] = "resolving" /\ ch'[a] = Chan(a)
    <3>1. a \notin cur /\ cur' = cur \cup {a}
      BY <1>9 DEF StartSlot
    <3>2. ch \in [Attempts -> Attempts \cup {None}] /\ chain \in [Attempts -> Phases]
      OBVIOUS
    <3> QED
      BY <2>0, <3>1, <3>2
  <2>2. IsFiniteSet(cur')
    BY <2>1, FS_AddElement
  <2>3. \A b \in cur : ch[b] # Chan(a)
    BY <1>9 DEF Chan, StartSlot
  <2>4. \A j \in start + 1..N : slot[j] # Chan(a)
    BY <1>9 DEF Chan, StartSlot
  <2>5. start' # 0 => \A j \in start'..N :
          j \in start + 1..N /\ j \in start..N /\ slot'[j] = slot[j]
    BY <1>9 DEF After
  <2>6. start' # 0 => \A j \in start'..N : \A b \in cur' : slot'[j] # ch'[b]
    BY <1>9, <2>1, <2>4, <2>5
  <2> QED
    BY <1>9, <2>1, <2>2, <2>3, <2>6
<1>10. CASE StopSlot
  BY <1>10 DEF StopSlot, CloseSocket, Closed, After
<1>11. CASE StopErase
  BY <1>11, MulStopErase DEF StopErase, After
<1>12. CASE StopResetConnects
  BY <1>12, FS_EmptySet DEF StopResetConnects
<1>13. CASE StopResetFails
  BY <1>13 DEF StopResetFails
<1>14. CASE StopSetStatus
  BY <1>14 DEF StopSetStatus
<1>15. CASE StopTell
  BY <1>15 DEF StopTell, OnDeviceStatusChanged
<1>16. ASSUME NEW a \in Attempts, ResolveFails(a) PROVE CurApart'
  BY <1>16 DEF ResolveFails, Go
<1>17. ASSUME NEW a \in Attempts, ResolveDone(a) PROVE CurApart'
  BY <1>17 DEF ResolveDone, Go
<1>18. ASSUME NEW a \in Attempts, ConnectDone(a) PROVE CurApart'
  BY <1>18 DEF ConnectDone, Go
<1>19. ASSUME NEW a \in Attempts, ConnectFails(a) PROVE CurApart'
  BY <1>19 DEF ConnectFails, Go, CloseSocket, Closed
<1>20. ASSUME NEW a \in Attempts, CountConnect(a) PROVE CurApart'
  BY <1>20 DEF CountConnect, Go
<1>21. ASSUME NEW a \in Attempts, CountFail(a) PROVE CurApart'
  BY <1>21 DEF CountFail, Go
<1>22. ASSUME NEW a \in Attempts, AddChannel(a) PROVE CurApart'
  BY <1>22 DEF AddChannel, Go
<1>23. ASSUME NEW a \in Attempts, Report(a) PROVE CurApart'
  BY <1>23 DEF Report
<1>24. ASSUME NEW a \in Attempts, TellWindow(a) PROVE CurApart'
  BY <1>24 DEF TellWindow, OnDeviceStatusChanged
<1>25. ASSUME NEW a \in Attempts, ReadFails(a) PROVE CurApart'
  BY <1>25 DEF ReadFails, CloseSocket, Closed
<1>26. ASSUME NEW a \in Attempts, NotifyChannelClose(a) PROVE CurApart'
  BY <1>26 DEF NotifyChannelClose
<1>27. ASSUME NEW a \in Attempts, ClickClose(a) PROVE CurApart'
  BY <1>27 DEF ClickClose, CloseSocket
<1> QED
  BY <1>2, <1>3, <1>4, <1>5, <1>6, <1>7, <1>8, <1>9, <1>10, <1>11, <1>12, <1>13, <1>14,
     <1>15, <1>16, <1>17, <1>18, <1>19, <1>20, <1>21, <1>22, <1>23, <1>24, <1>25, <1>26,
     <1>27
     DEF Next, UIThread, StartTask, StopTask, Completion
-----------------------------------------------------------------------------
(* A session that no Stop cuts short: channels and sockets.                 *)

\* Every step keeps a client between two starts at rest.
LEMMA MulRests == MultiIInv /\ [Next]_vars /\ ~cutShort' => BetweenRests'
<1> SUFFICES ASSUME MultiIInv, [Next]_vars, ~cutShort' PROVE BetweenRests'
  OBVIOUS
<1>1. /\ TypeOK /\ TasksAt /\ N \in Nat /\ \A i \in 1..N : slot[i] \in Attempts \cup {None}
      /\ slot' = slot => N' = N
  BY MulSlotType DEF MultiIInv, N
<1> USE <1>1, ClientAssumption DEF MultiIInv, TypeOK, SlotsApart, CurApart, TasksAt,
            SessionInv, StopBusy, Between, BetweenRests, LiveIsOpen, Live, vars, winVars,
            taskVars, chVars, runVars, cntVars, histVars
<1>2. CASE UNCHANGED vars
  BY <1>2
<1>3. ASSUME NEW n \in Canons, SetCanonsCount(n) PROVE BetweenRests'
  BY <1>3, MulSetCanons DEF SetCanonsCount
<1>4. CASE ClickConnect
  BY <1>4 DEF ClickConnect
<1>5. CASE StartResetConnects
  BY <1>5 DEF StartResetConnects
<1>6. CASE StartResetFails
  BY <1>6 DEF StartResetFails
<1>7. CASE ClickStop
  <2>1. ~Connecting /\ N \in Nat
    BY <1>7 DEF ClickStop
  <2>2. start = 0 /\ \A a \in Attempts : ~InFlight(a)
    BY <2>1 DEF Connecting
  <2>3. \A a \in Attempts : chain[a] \in {"idle", "ok", "failed"} /\ rep[a] # "due"
    BY <2>2 DEF InFlight
  <2> QED
    BY <1>7, <2>2, <2>3 DEF ClickStop
<1>8. CASE StartRefused
  BY <1>8 DEF StartRefused, After
<1>9. ASSUME NEW a \in Attempts, StartSlot(a) PROVE BetweenRests'
  BY <1>9, MulStartSlot DEF StartSlot, After
<1>10. CASE StopSlot
  BY <1>10 DEF StopSlot, CloseSocket, Closed, After
<1>11. CASE StopErase
  BY <1>11, MulStopErase DEF StopErase, After
<1>12. CASE StopResetConnects
  BY <1>12 DEF StopResetConnects
<1>13. CASE StopResetFails
  BY <1>13 DEF StopResetFails
<1>14. CASE StopSetStatus
  BY <1>14 DEF StopSetStatus
<1>15. CASE StopTell
  BY <1>15 DEF StopTell, OnDeviceStatusChanged
<1>16. ASSUME NEW a \in Attempts, ResolveFails(a) PROVE BetweenRests'
  BY <1>16 DEF ResolveFails, Go
<1>17. ASSUME NEW a \in Attempts, ResolveDone(a) PROVE BetweenRests'
  BY <1>17 DEF ResolveDone, Go
<1>18. ASSUME NEW a \in Attempts, ConnectDone(a) PROVE BetweenRests'
  BY <1>18 DEF ConnectDone, Go
<1>19. ASSUME NEW a \in Attempts, ConnectFails(a) PROVE BetweenRests'
  BY <1>19 DEF ConnectFails, Go, CloseSocket, Closed
<1>20. ASSUME NEW a \in Attempts, CountConnect(a) PROVE BetweenRests'
  BY <1>20 DEF CountConnect, Go
<1>21. ASSUME NEW a \in Attempts, CountFail(a) PROVE BetweenRests'
  BY <1>21 DEF CountFail, Go
<1>22. ASSUME NEW a \in Attempts, AddChannel(a) PROVE BetweenRests'
  BY <1>22 DEF AddChannel, Go
<1>23. ASSUME NEW a \in Attempts, Report(a) PROVE BetweenRests'
  <2>1. ~Between /\ ~StopBusy /\ ui = "idle" /\ status # "Disconnected" /\ ~cutShort
    BY <1>23 DEF Report
  <2>2. \A b \in Attempts : rep'[b] = "due" => rep[b] = "due" /\ b # a
    BY <1>23 DEF Report
  <2>3. CASE fails = N
    <3>1. start = 0 /\ \A b \in cur : chain[b] = "failed"
      BY <2>1, <2>3, MulAllFailed
    <3>2. \A b \in Attempts : chain[b] \in {"idle", "ok", "failed"}
      BY <2>1, <3>1
    <3>3. \A b \in Attempts : rep'[b] # "due"
      BY <1>23, <2>1, <2>2 DEF Report, ReporterIsLast
    <3> QED
      BY <1>23, <2>1, <3>1, <3>2, <3>3 DEF Report
  <2>4. CASE fails # N
    <3>1. status' = "Connected" /\ UNCHANGED <<ui, stop>>
      BY <1>23, <2>4 DEF Report
    <3> QED
      BY <2>1, <3>1
  <2> QED
    BY <2>3, <2>4
<1>24. ASSUME NEW a \in Attempts, TellWindow(a) PROVE BetweenRests'
  BY <1>24 DEF TellWindow, OnDeviceStatusChanged
<1>25. ASSUME NEW a \in Attempts, ReadFails(a) PROVE BetweenRests'
  BY <1>25 DEF ReadFails, CloseSocket, Closed
<1>26. ASSUME NEW a \in Attempts, NotifyChannelClose(a) PROVE BetweenRests'
  BY <1>26 DEF NotifyChannelClose
<1>27. ASSUME NEW a \in Attempts, ClickClose(a) PROVE BetweenRests'
  BY <1>27 DEF ClickClose, CloseSocket
<1> QED
  BY <1>2, <1>3, <1>4, <1>5, <1>6, <1>7, <1>8, <1>9, <1>10, <1>11, <1>12, <1>13, <1>14,
     <1>15, <1>16, <1>17, <1>18, <1>19, <1>20, <1>21, <1>22, <1>23, <1>24, <1>25, <1>26,
     <1>27
     DEF Next, UIThread, StartTask, StopTask, Completion

\* Every step keeps the attempts that are under way on open channels.
LEMMA MulLive == MultiIInv /\ [Next]_vars /\ ~cutShort' => LiveIsOpen'
<1> SUFFICES ASSUME MultiIInv, [Next]_vars, ~cutShort' PROVE LiveIsOpen'
  OBVIOUS
<1>1. /\ TypeOK /\ TasksAt /\ N \in Nat /\ \A i \in 1..N : slot[i] \in Attempts \cup {None}
      /\ slot' = slot => N' = N
  BY MulSlotType DEF MultiIInv, N
<1> USE <1>1, ClientAssumption DEF MultiIInv, TypeOK, SlotsApart, CurApart, TasksAt,
            SessionInv, StopBusy, Between, BetweenRests, LiveIsOpen, Live, InSlot, vars,
            winVars, taskVars, chVars, runVars, cntVars, histVars
<1>2. CASE UNCHANGED vars
  BY <1>2
<1>3. ASSUME NEW n \in Canons, SetCanonsCount(n) PROVE LiveIsOpen'
  BY <1>3, MulSetCanons DEF SetCanonsCount
<1>4. CASE ClickConnect
  BY <1>4 DEF ClickConnect
<1>5. CASE StartResetConnects
  BY <1>5 DEF StartResetConnects
<1>6. CASE StartResetFails
  BY <1>6 DEF StartResetFails
<1>7. CASE ClickStop
  BY <1>7 DEF ClickStop
<1>8. CASE StartRefused
  BY <1>8 DEF StartRefused, After
<1>9. ASSUME NEW a \in Attempts, StartSlot(a) PROVE LiveIsOpen'
  <2> USE MulStartSlot
  <2>0. ch' = [ch EXCEPT ![a] = Chan(a)] /\ chain' = [chain EXCEPT ![a] = "resolving"]
    BY <1>9 DEF StartSlot
  <2>1. /\ \A b \in Attempts : b # a => chain'[b] = chain[b] /\ ch'[b] = ch[b]
        /\ chain'[a] = "resolving" /\ ch'[a] = Chan(a)
    BY <2>0
  <2>2. \A c \in Attempts : opened[c] => opened'[c]
    BY <1>9
  <2>3. opened'[Chan(a)] /\ slot'[start] = Chan(a) /\ start \in 1..N'
    BY <1>9
  <2>4. \A c \in Attempts : InSlot(c) => InSlot(c)'
    BY <1>9, MulStartSlotIn
  <2>5. \A b \in Attempts : ch[b] # None => ch[b] \in Attempts
    OBVIOUS
  <2>6. cur' = cur \cup {a} /\ rep' = rep /\ cutShort' = cutShort
    BY <1>9 DEF StartSlot
  <2>7. \A b \in Attempts : Live(b)' => opened'[ch'[b]] /\ InSlot(ch[b])'
    <3> SUFFICES ASSUME NEW b \in Attempts, Live(b)' PROVE opened'[ch'[b]] /\ InSlot(ch[b])'
      OBVIOUS
    <3>1. CASE b = a
      BY <2>1, <2>3, <3>1
    <3>2. CASE b # a
      <4>1. Live(b) /\ ch'[b] = ch[b]
        BY <2>1, <3>2
      <4>2. ch[b] \in Attempts /\ opened[ch[b]] /\ InSlot(ch[b])
        BY <2>5, <2>6, <4>1
      <4> QED
        BY <2>2, <2>4, <4>1, <4>2
    <3> QED
      BY <3>1, <3>2
  <2> QED
    BY <2>1, <2>6, <2>7
<1>10. CASE StopSlot
  BY <1>10 DEF StopSlot, CloseSocket, Closed, After
<1>11. CASE StopErase
  BY <1>11, MulStopErase DEF StopErase, After
<1>12. CASE StopResetConnects
  BY <1>12 DEF StopResetConnects
<1>13. CASE StopResetFails
  BY <1>13 DEF StopResetFails
<1>14. CASE StopSetStatus
  BY <1>14 DEF StopSetStatus
<1>15. CASE StopTell
  <2>1. \A b \in Attempts : Live(b) => ch[b] \notin listed
    BY <1>15 DEF StopTell, SocketsKnown
  <2> QED
    BY <1>15, <2>1 DEF StopTell, OnDeviceStatusChanged
<1>16. ASSUME NEW a \in Attempts, ResolveFails(a) PROVE LiveIsOpen'
  BY <1>16 DEF ResolveFails, Go
<1>17. ASSUME NEW a \in Attempts, ResolveDone(a) PROVE LiveIsOpen'
  BY <1>17 DEF ResolveDone, Go
<1>18. ASSUME NEW a \in Attempts, ConnectDone(a) PROVE LiveIsOpen'
  BY <1>18 DEF ConnectDone, Go
<1>19. ASSUME NEW a \in Attempts, ConnectFails(a) PROVE LiveIsOpen'
  <2>1. /\ chain' = [chain EXCEPT ![a] = "failCount"] /\ chain[a] = "connecting"
        /\ UNCHANGED <<ch, rep, cur, cutShort, slot>>
    BY <1>19 DEF ConnectFails, Go
  <2>2. \A b \in Attempts : Live(b)' => Live(b) /\ b # a /\ ch[b] # ch[a]
    BY <2>1
  <2>3. \A c \in Attempts : c # ch[a] => opened'[c] = opened[c]
    BY <1>19 DEF ConnectFails, CloseSocket
  <2> QED
    BY <2>1, <2>2, <2>3
<1>20. ASSUME NEW a \in Attempts, CountConnect(a) PROVE LiveIsOpen'
  BY <1>20 DEF CountConnect, Go
<1>21. ASSUME NEW a \in Attempts, CountFail(a) PROVE LiveIsOpen'
  BY <1>21 DEF CountFail, Go
<1>22. ASSUME NEW a \in Attempts, AddChannel(a) PROVE LiveIsOpen'
  BY <1>22 DEF AddChannel, Go
<1>23. ASSUME NEW a \in Attempts, Report(a) PROVE LiveIsOpen'
  BY <1>23 DEF Report
<1>24. ASSUME NEW a \in Attempts, TellWindow(a) PROVE LiveIsOpen'
  <2>1. \A b \in Attempts : Live(b) => ch[b] \notin listed
    BY <1>24 DEF TellWindow, SocketsKnown
  <2> QED
    BY <1>24, <2>1 DEF TellWindow, OnDeviceStatusChanged
<1>25. ASSUME NEW a \in Attempts, ReadFails(a) PROVE LiveIsOpen'
  <2>1. \A b \in Attempts : Live(b) => ch[b] # ch[a]
    BY <1>25 DEF ReadFails, SocketsKnown
  <2>2. \A c \in Attempts : c # ch[a] => opened'[c] = opened[c]
    BY <1>25 DEF ReadFails, CloseSocket
  <2> QED
    BY <1>25, <2>1, <2>2 DEF ReadFails
<1>26. ASSUME NEW a \in Attempts, NotifyChannelClose(a) PROVE LiveIsOpen'
  BY <1>26 DEF NotifyChannelClose
<1>27. ASSUME NEW a \in Attempts, ClickClose(a) PROVE LiveIsOpen'
  <2>1. \A b \in Attempts : Live(b) => ch[b] \notin listed
    BY <1>27 DEF ClickClose, SocketsKnown
  <2> QED
    BY <1>27, <2>1 DEF ClickClose, CloseSocket
<1> QED
  BY <1>2, <1>3, <1>4, <1>5, <1>6, <1>7, <1>8, <1>9, <1>10, <1>11, <1>12, <1>13, <1>14,
     <1>15, <1>16, <1>17, <1>18, <1>19, <1>20, <1>21, <1>22, <1>23, <1>24, <1>25, <1>26,
     <1>27
     DEF Next, UIThread, StartTask, StopTask, Completion

\* Every step keeps each open socket known to a slot.
LEMMA MulSockets == MultiIInv /\ [Next]_vars /\ ~cutShort' => SocketsKnown'
<1> SUFFICES ASSUME MultiIInv, [Next]_vars, ~cutShort' PROVE SocketsKnown'
  OBVIOUS
<1>1. /\ TypeOK /\ TasksAt /\ N \in Nat /\ \A i \in 1..N : slot[i] \in Attempts \cup {None}
      /\ slot' = slot => N' = N
  BY MulSlotType DEF MultiIInv, N
<1> USE <1>1, ClientAssumption DEF MultiIInv, TypeOK, SlotsApart, CurApart, TasksAt,
            SessionInv, StopBusy, Between, BetweenRests, LiveIsOpen, Live, InSlot,
            SocketsKnown, HasRun, vars, winVars, taskVars, chVars, runVars, cntVars,
            histVars
<1>2. CASE UNCHANGED vars
  BY <1>2
<1>3. ASSUME NEW n \in Canons, SetCanonsCount(n) PROVE SocketsKnown'
  <2>1. listed = {} /\ \A c \in Attempts : ~sock[c]
    BY <1>3 DEF SetCanonsCount, NothingOpen
  <2>2. \A b \in Attempts : ~InSlot(ch[b]) /\ ch[b] # None => ~InSlot(ch[b])'
    BY <1>3, MulSetCanons DEF SetCanonsCount
  <2> QED
    BY <1>3, <2>1, <2>2 DEF SetCanonsCount
<1>4. CASE ClickConnect
  BY <1>4 DEF ClickConnect
<1>5. CASE StartResetConnects
  BY <1>5 DEF StartResetConnects, NothingOpen
<1>6. CASE StartResetFails
  BY <1>6 DEF StartResetFails
<1>7. CASE ClickStop
  BY <1>7 DEF ClickStop
<1>8. CASE StartRefused
  BY <1>8 DEF StartRefused, After
<1>9. ASSUME NEW a \in Attempts, StartSlot(a) PROVE SocketsKnown'
  <2> USE MulStartSlot
  <2>0. ch' = [ch EXCEPT ![a] = Chan(a)] /\ chain' = [chain EXCEPT ![a] = "resolving"]
    BY <1>9 DEF StartSlot
  <2>1. /\ \A b \in Attempts : b # a => chain'[b] = chain[b] /\ ch'[b] = ch[b]
        /\ chain'[a] = "resolving" /\ ch'[a] = Chan(a) /\ chain[a] = "idle"
    BY <1>9, <2>0 DEF StartSlot
  <2>2. \A c \in Attempts : opened[c] => opened'[c]
    BY <1>9
  <2>3. \A c \in Attempts : InSlot(c) => InSlot(c)'
    BY <1>9, MulStartSlotIn
  <2>4. \A c \in Attempts : InSlot(c)' /\ ~InSlot(c) => c = a /\ slot[start] = None
    BY <1>9, MulStartSlotIn
  <2>5. UNCHANGED <<sock, listed, rd, cutShort>> /\ cur' = cur \cup {a}
    BY <1>9 DEF StartSlot
  <2>6. \A c \in Attempts : HasRun(c) => HasRun(c)'
    BY <2>1, <2>5
  <2>7. \A c \in listed : \E b \in cur' : ch'[b] = c /\ chain'[b] = "ok"
    BY <2>1, <2>5
  <2>8. \A b \in Attempts : rd[b] # "none" => b \in cur' \/ ~InSlot(ch[b])'
    <3> SUFFICES ASSUME NEW b \in Attempts, rd[b] # "none", b \notin cur' PROVE ~InSlot(ch[b])'
      OBVIOUS
    <3>1. b # a /\ ch'[b] = ch[b] /\ ch[b] # None /\ ~InSlot(ch[b])
      BY <2>1, <2>5
    <3>2. ch[b] \in Attempts /\ ch[b] # a
      BY <2>1, <3>1
    <3> QED
      BY <2>4, <3>1, <3>2
  <2> HIDE DEF InSlot, HasRun
  <2>9. \A c \in Attempts : sock'[c] => opened'[c] /\ InSlot(c)' /\ HasRun(c)'
    BY <2>2, <2>3, <2>5, <2>6
  <2>10. \A c \in listed' : InSlot(c)' /\ \E b \in cur' : ch'[b] = c /\ chain'[b] = "ok"
    BY <2>3, <2>5, <2>7
  <2> QED
    BY <2>5, <2>8, <2>9, <2>10
<1>10. CASE StopSlot
  <2>1. /\ UNCHANGED <<slot, ch, chain, rd, cur, cutShort, listed>>
        /\ \A c \in Attempts : sock'[c] => sock[c] /\ opened'[c]
    BY <1>10 DEF StopSlot, CloseSocket, Closed, After
  <2> QED
    BY <1>10, <2>1
<1>11. CASE StopErase
  <2>1. /\ slot[stopAt] \in Attempts /\ ~sock[slot[stopAt]]
        /\ UNCHANGED <<opened, sock, chain, ch, rd, cur, cutShort>>
    BY <1>11, MulStopErase DEF StopErase, StopEmpties
  <2>2. \A c \in Attempts : InSlot(c) /\ c # slot[stopAt] => InSlot(c)'
    BY <1>11, MulStopErase
  <2>3. \A c \in Attempts : ~InSlot(c) => ~InSlot(c)'
    BY <1>11, MulStopErase
  <2>4. \A b \in Attempts : rd[b] # "none" => ch[b] \in Attempts
    OBVIOUS
  <2>5. listed' = listed \ {slot[stopAt]}
    BY <1>11 DEF StopErase
  <2>6. \A c \in Attempts : HasRun(c) => HasRun(c)'
    BY <2>1
  <2>7. \A c \in listed : \E b \in cur' : ch'[b] = c /\ chain'[b] = "ok"
    BY <2>1
  <2> HIDE DEF InSlot, HasRun
  <2>8. \A c \in Attempts : sock'[c] => opened'[c] /\ InSlot(c)' /\ HasRun(c)'
    BY <2>1, <2>2, <2>6
  <2>9. \A c \in listed' : InSlot(c)' /\ \E b \in cur' : ch'[b] = c /\ chain'[b] = "ok"
    BY <2>1, <2>2, <2>5, <2>7
  <2>10. \A b \in Attempts : rd'[b] # "none" => b \in cur' \/ ~InSlot(ch[b])'
    BY <2>1, <2>3, <2>4
  <2> QED
    BY <2>8, <2>9, <2>10
<1>12. CASE StopResetConnects
  <2>1. \A c \in Attempts : ~InSlot(c)
    BY <1>12 DEF StopResetConnects, StopEmpties
  <2> QED
    BY <1>12, <2>1 DEF StopResetConnects
<1>13. CASE StopResetFails
  BY <1>13 DEF StopResetFails
<1>14. CASE StopSetStatus
  BY <1>14 DEF StopSetStatus
<1>15. CASE StopTell
  BY <1>15 DEF StopTell, OnDeviceStatusChanged
<1>16. ASSUME NEW a \in Attempts, ResolveFails(a) PROVE SocketsKnown'
  BY <1>16 DEF ResolveFails, Go
<1>17. ASSUME NEW a \in Attempts, ResolveDone(a) PROVE SocketsKnown'
  BY <1>17 DEF ResolveDone, Go
<1>18. ASSUME NEW a \in Attempts, ConnectDone(a) PROVE SocketsKnown'
  BY <1>18 DEF ConnectDone, Go
<1>19. ASSUME NEW a \in Attempts, ConnectFails(a) PROVE SocketsKnown'
  <2>1. /\ chain' = [chain EXCEPT ![a] = "failCount"] /\ chain[a] = "connecting"
        /\ UNCHANGED <<ch, rd, cur, cutShort, slot, listed>>
    BY <1>19 DEF ConnectFails, Go
  <2>2. /\ ~sock'[ch[a]]
        /\ \A c \in Attempts : c # ch[a] => opened'[c] = opened[c] /\ sock'[c] = sock[c]
    <3>1. ch[a] \in Attempts
      BY <2>1
    <3> QED
      BY <1>19, <2>1, <3>1 DEF ConnectFails, CloseSocket, Closed
  <2>3. \A c \in Attempts : c # ch[a] /\ HasRun(c) => HasRun(c)'
    BY <2>1
  <2>4. \A c \in listed : \E b \in cur : ch'[b] = c /\ chain'[b] = "ok"
    BY <2>1
  <2> QED
    BY <2>1, <2>2, <2>3, <2>4
<1>20. ASSUME NEW a \in Attempts, CountConnect(a) PROVE SocketsKnown'
  BY <1>20 DEF CountConnect, Go
<1>21. ASSUME NEW a \in Attempts, CountFail(a) PROVE SocketsKnown'
  BY <1>21 DEF CountFail, Go
<1>22. ASSUME NEW a \in Attempts, AddChannel(a) PROVE SocketsKnown'
  BY <1>22 DEF AddChannel, Go
<1>23. ASSUME NEW a \in Attempts, Report(a) PROVE SocketsKnown'
  BY <1>23 DEF Report
<1>24. ASSUME NEW a \in Attempts, TellWindow(a) PROVE SocketsKnown'
  BY <1>24 DEF TellWindow, OnDeviceStatusChanged
<1>25. ASSUME NEW a \in Attempts, ReadFails(a) PROVE SocketsKnown'
  BY <1>25 DEF ReadFails, CloseSocket, Closed
<1>26. ASSUME NEW a \in Attempts, NotifyChannelClose(a) PROVE SocketsKnown'
  BY <1>26 DEF NotifyChannelClose
<1>27. ASSUME NEW a \in Attempts, ClickClose(a) PROVE SocketsKnown'
  BY <1>27 DEF ClickClose, CloseSocket
<1> QED
  BY <1>2, <1>3, <1>4, <1>5, <1>6, <1>7, <1>8, <1>9, <1>10, <1>11, <1>12, <1>13, <1>14,
     <1>15, <1>16, <1>17, <1>18, <1>19, <1>20, <1>21, <1>22, <1>23, <1>24, <1>25, <1>26,
     <1>27
     DEF Next, UIThread, StartTask, StopTask, Completion

\* Every step keeps a stopped client without an open channel.
LEMMA MulNothingOpen == MultiIInv /\ [Next]_vars /\ ~cutShort' => NothingOpen'
<1> SUFFICES ASSUME MultiIInv, [Next]_vars, ~cutShort' PROVE NothingOpen'
  OBVIOUS
<1>1. /\ TypeOK /\ TasksAt /\ N \in Nat /\ \A i \in 1..N : slot[i] \in Attempts \cup {None}
      /\ slot' = slot => N' = N
  BY MulSlotType DEF MultiIInv, N
<1> USE <1>1, ClientAssumption DEF MultiIInv, TypeOK, SlotsApart, CurApart, TasksAt,
            SessionInv, StopBusy, Between, BetweenRests, LiveIsOpen, Live, InSlot,
            SocketsKnown, NothingOpen, StopEmpties, vars, winVars, taskVars, chVars,
            runVars, cntVars, histVars
<1>2. CASE UNCHANGED vars
  BY <1>2
<1>3. ASSUME NEW n \in Canons, SetCanonsCount(n) PROVE NothingOpen'
  <2>2. \A b \in Attempts : ~InSlot(ch[b]) /\ ch[b] # None => ~InSlot(ch[b])'
    BY <1>3, MulSetCanons DEF SetCanonsCount
  <2> QED
    BY <1>3, <2>2 DEF SetCanonsCount
<1>4. CASE ClickConnect
  BY <1>4 DEF ClickConnect
<1>5. CASE StartResetConnects
  BY <1>5 DEF StartResetConnects
<1>6. CASE StartResetFails
  BY <1>6 DEF StartResetFails
<1>7. CASE ClickStop
  BY <1>7 DEF ClickStop
<1>8. CASE StartRefused
  BY <1>8 DEF StartRefused, After
<1>9. ASSUME NEW a \in Attempts, StartSlot(a) PROVE NothingOpen'
  BY <1>9, MulStartSlot DEF StartSlot, After
<1>10. CASE StopSlot
  BY <1>10 DEF StopSlot, CloseSocket, Closed, After
<1>11. CASE StopErase
  BY <1>11, MulStopErase DEF StopErase, After
<1>12. CASE StopResetConnects
  BY <1>12 DEF StopResetConnects
<1>13. CASE StopResetFails
  BY <1>13 DEF StopResetFails
<1>14. CASE StopSetStatus
  BY <1>14 DEF StopSetStatus
<1>15. CASE StopTell
  BY <1>15 DEF StopTell, OnDeviceStatusChanged
<1>16. ASSUME NEW a \in Attempts, ResolveFails(a) PROVE NothingOpen'
  BY <1>16 DEF ResolveFails, Go
<1>17. ASSUME NEW a \in Attempts, ResolveDone(a) PROVE NothingOpen'
  BY <1>17 DEF ResolveDone, Go
<1>18. ASSUME NEW a \in Attempts, ConnectDone(a) PROVE NothingOpen'
  BY <1>18 DEF ConnectDone, Go
<1>19. ASSUME NEW a \in Attempts, ConnectFails(a) PROVE NothingOpen'
  BY <1>19 DEF ConnectFails, Go, CloseSocket, Closed
<1>20. ASSUME NEW a \in Attempts, CountConnect(a) PROVE NothingOpen'
  BY <1>20 DEF CountConnect, Go
<1>21. ASSUME NEW a \in Attempts, CountFail(a) PROVE NothingOpen'
  BY <1>21 DEF CountFail, Go
<1>22. ASSUME NEW a \in Attempts, AddChannel(a) PROVE NothingOpen'
  BY <1>22 DEF AddChannel, Go
<1>23. ASSUME NEW a \in Attempts, Report(a) PROVE NothingOpen'
  <2>1. CASE fails = N
    <3>1. \A b \in cur : chain[b] = "failed"
      BY <1>23, <2>1, MulAllFailed DEF Report
    <3>2. /\ listed = {} /\ \A c \in Attempts : ~sock[c]
          /\ \A b \in Attempts : rd[b] # "none" => ~InSlot(ch[b])
      BY <1>23, <3>1 DEF Report, SocketsKnown, HasRun
    <3> QED
      BY <1>23, <3>2 DEF Report
  <2>2. CASE fails # N
    BY <1>23, <2>2 DEF Report
  <2> QED
    BY <2>1, <2>2
<1>24. ASSUME NEW a \in Attempts, TellWindow(a) PROVE NothingOpen'
  BY <1>24 DEF TellWindow, OnDeviceStatusChanged
<1>25. ASSUME NEW a \in Attempts, ReadFails(a) PROVE NothingOpen'
  <2>1. UNCHANGED <<status, ui, listed, ch, slot, cutShort>>
    BY <1>25 DEF ReadFails
  <2>2. \A c \in Attempts : sock'[c] => sock[c]
    BY <1>25 DEF ReadFails, CloseSocket
  <2>3. \A b \in Attempts : rd'[b] # "none" => rd[b] # "none"
    BY <1>25 DEF ReadFails
  <2> QED
    BY <2>1, <2>2, <2>3
<1>26. ASSUME NEW a \in Attempts, NotifyChannelClose(a) PROVE NothingOpen'
  BY <1>26 DEF NotifyChannelClose
<1>27. ASSUME NEW a \in Attempts, ClickClose(a) PROVE NothingOpen'
  BY <1>27 DEF ClickClose, CloseSocket
<1> QED
  BY <1>2, <1>3, <1>4, <1>5, <1>6, <1>7, <1>8, <1>9, <1>10, <1>11, <1>12, <1>13, <1>14,
     <1>15, <1>16, <1>17, <1>18, <1>19, <1>20, <1>21, <1>22, <1>23, <1>24, <1>25, <1>26,
     <1>27
     DEF Next, UIThread, StartTask, StopTask, Completion

\* Every step keeps the slots that Stop has passed empty.
LEMMA MulStopEmpties == MultiIInv /\ [Next]_vars /\ ~cutShort' => StopEmpties'
<1> SUFFICES ASSUME MultiIInv, [Next]_vars, ~cutShort' PROVE StopEmpties'
  OBVIOUS
<1>1. /\ TypeOK /\ TasksAt /\ N \in Nat /\ \A i \in 1..N : slot[i] \in Attempts \cup {None}
      /\ slot' = slot => N' = N
  BY MulSlotType DEF MultiIInv, N
<1> USE <1>1, ClientAssumption DEF MultiIInv, TypeOK, SlotsApart, CurApart, TasksAt,
            SessionInv, StopBusy, Between, BetweenRests, SocketsKnown, StopEmpties, vars,
            winVars, taskVars, chVars, runVars, cntVars, histVars
<1>2. CASE UNCHANGED vars
  BY <1>2
<1>3. ASSUME NEW n \in Canons, SetCanonsCount(n) PROVE StopEmpties'
  BY <1>3, MulSetCanons DEF SetCanonsCount
<1>4. CASE ClickConnect
  BY <1>4 DEF ClickConnect
<1>5. CASE StartResetConnects
  BY <1>5 DEF StartResetConnects
<1>6. CASE StartResetFails
  BY <1>6 DEF StartResetFails
<1>7. CASE ClickStop
  BY <1>7 DEF ClickStop
<1>8. CASE StartRefused
  BY <1>8 DEF StartRefused, After
<1>9. ASSUME NEW a \in Attempts, StartSlot(a) PROVE StopEmpties'
  BY <1>9, MulStartSlot DEF StartSlot, After
<1>10. CASE StopSlot
  BY <1>10 DEF StopSlot, CloseSocket, Closed, After
<1>11. CASE StopErase
  BY <1>11, MulStopErase DEF StopErase, After
<1>12. CASE StopResetConnects
  BY <1>12 DEF StopResetConnects
<1>13. CASE StopResetFails
  BY <1>13 DEF StopResetFails
<1>14. CASE StopSetStatus
  BY <1>14 DEF StopSetStatus
<1>15. CASE StopTell
  BY <1>15 DEF StopTell, OnDeviceStatusChanged
<1>16. ASSUME NEW a \in Attempts, ResolveFails(a) PROVE StopEmpties'
  BY <1>16 DEF ResolveFails, Go
<1>17. ASSUME NEW a \in Attempts, ResolveDone(a) PROVE StopEmpties'
  BY <1>17 DEF ResolveDone, Go
<1>18. ASSUME NEW a \in Attempts, ConnectDone(a) PROVE StopEmpties'
  BY <1>18 DEF ConnectDone, Go
<1>19. ASSUME NEW a \in Attempts, ConnectFails(a) PROVE StopEmpties'
  BY <1>19 DEF ConnectFails, Go, CloseSocket, Closed
<1>20. ASSUME NEW a \in Attempts, CountConnect(a) PROVE StopEmpties'
  BY <1>20 DEF CountConnect, Go
<1>21. ASSUME NEW a \in Attempts, CountFail(a) PROVE StopEmpties'
  BY <1>21 DEF CountFail, Go
<1>22. ASSUME NEW a \in Attempts, AddChannel(a) PROVE StopEmpties'
  BY <1>22 DEF AddChannel, Go
<1>23. ASSUME NEW a \in Attempts, Report(a) PROVE StopEmpties'
  BY <1>23 DEF Report
<1>24. ASSUME NEW a \in Attempts, TellWindow(a) PROVE StopEmpties'
  BY <1>24 DEF TellWindow, OnDeviceStatusChanged
<1>25. ASSUME NEW a \in Attempts, ReadFails(a) PROVE StopEmpties'
  BY <1>25 DEF ReadFails, CloseSocket, Closed
<1>26. ASSUME NEW a \in Attempts, NotifyChannelClose(a) PROVE StopEmpties'
  BY <1>26 DEF NotifyChannelClose
<1>27. ASSUME NEW a \in Attempts, ClickClose(a) PROVE StopEmpties'
  BY <1>27 DEF ClickClose, CloseSocket
<1> QED
  BY <1>2, <1>3, <1>4, <1>5, <1>6, <1>7, <1>8, <1>9, <1>10, <1>11, <1>12, <1>13, <1>14,
     <1>15, <1>16, <1>17, <1>18, <1>19, <1>20, <1>21, <1>22, <1>23, <1>24, <1>25, <1>26,
     <1>27
     DEF Next, UIThread, StartTask, StopTask, Completion

\* Every step keeps the listed channels open.
LEMMA MulListed == MultiIInv /\ [Next]_vars /\ ~cutShort' => ListedIsOpen'
<1> SUFFICES ASSUME MultiIInv, [Next]_vars, ~cutShort' PROVE ListedIsOpen'
  OBVIOUS
<1>1. /\ TypeOK /\ TasksAt /\ N \in Nat /\ \A i \in 1..N : slot[i] \in Attempts \cup {None}
      /\ slot' = slot => N' = N
  BY MulSlotType DEF MultiIInv, N
<1> USE <1>1, ClientAssumption DEF MultiIInv, TypeOK, SlotsApart, CurApart, TasksAt,
            SessionInv, StopBusy, Between, BetweenRests, InSlot, SocketsKnown,
            ListedIsOpen, vars, winVars, taskVars, chVars, runVars, cntVars, histVars
<1>2. CASE UNCHANGED vars
  BY <1>2
<1>3. ASSUME NEW n \in Canons, SetCanonsCount(n) PROVE ListedIsOpen'
  BY <1>3, MulSetCanons DEF SetCanonsCount
<1>4. CASE ClickConnect
  BY <1>4 DEF ClickConnect
<1>5. CASE StartResetConnects
  BY <1>5 DEF StartResetConnects
<1>6. CASE StartResetFails
  BY <1>6 DEF StartResetFails
<1>7. CASE ClickStop
  BY <1>7 DEF ClickStop
<1>8. CASE StartRefused
  BY <1>8 DEF StartRefused, After
<1>9. ASSUME NEW a \in Attempts, StartSlot(a) PROVE ListedIsOpen'
  BY <1>9, MulStartSlot DEF StartSlot, After
<1>10. CASE StopSlot
  BY <1>10 DEF StopSlot, CloseSocket, Closed, After
<1>11. CASE StopErase
  BY <1>11, MulStopErase DEF StopErase, After
<1>12. CASE StopResetConnects
  BY <1>12 DEF StopResetConnects
<1>13. CASE StopResetFails
  BY <1>13 DEF StopResetFails
<1>14. CASE StopSetStatus
  BY <1>14 DEF StopSetStatus
<1>15. CASE StopTell
  BY <1>15 DEF StopTell, OnDeviceStatusChanged
<1>16. ASSUME NEW a \in Attempts, ResolveFails(a) PROVE ListedIsOpen'
  BY <1>16 DEF ResolveFails, Go
<1>17. ASSUME NEW a \in Attempts, ResolveDone(a) PROVE ListedIsOpen'
  BY <1>17 DEF ResolveDone, Go
<1>18. ASSUME NEW a \in Attempts, ConnectDone(a) PROVE ListedIsOpen'
  BY <1>18 DEF ConnectDone, Go
<1>19. ASSUME NEW a \in Attempts, ConnectFails(a) PROVE ListedIsOpen'
  <2>1. ch[a] \notin listed
    BY <1>19 DEF ConnectFails, Go, LiveIsOpen, Live
  <2> QED
    BY <1>19, <2>1 DEF ConnectFails, Go, CloseSocket, Closed
<1>20. ASSUME NEW a \in Attempts, CountConnect(a) PROVE ListedIsOpen'
  BY <1>20 DEF CountConnect, Go
<1>21. ASSUME NEW a \in Attempts, CountFail(a) PROVE ListedIsOpen'
  BY <1>21 DEF CountFail, Go
<1>22. ASSUME NEW a \in Attempts, AddChannel(a) PROVE ListedIsOpen'
  <2>1. opened[ch[a]]
    BY <1>22 DEF AddChannel, Go, LiveIsOpen, Live
  <2> QED
    BY <1>22, <2>1 DEF AddChannel, Go
<1>23. ASSUME NEW a \in Attempts, Report(a) PROVE ListedIsOpen'
  BY <1>23 DEF Report
<1>24. ASSUME NEW a \in Attempts, TellWindow(a) PROVE ListedIsOpen'
  BY <1>24 DEF TellWindow, OnDeviceStatusChanged
<1>25. ASSUME NEW a \in Attempts, ReadFails(a) PROVE ListedIsOpen'
  BY <1>25 DEF ReadFails, CloseSocket, Closed
<1>26. ASSUME NEW a \in Attempts, NotifyChannelClose(a) PROVE ListedIsOpen'
  BY <1>26 DEF NotifyChannelClose
<1>27. ASSUME NEW a \in Attempts, ClickClose(a) PROVE ListedIsOpen'
  BY <1>27 DEF ClickClose, CloseSocket
<1> QED
  BY <1>2, <1>3, <1>4, <1>5, <1>6, <1>7, <1>8, <1>9, <1>10, <1>11, <1>12, <1>13, <1>14,
     <1>15, <1>16, <1>17, <1>18, <1>19, <1>20, <1>21, <1>22, <1>23, <1>24, <1>25, <1>26,
     <1>27
     DEF Next, UIThread, StartTask, StopTask, Completion
-----------------------------------------------------------------------------
(* A session that no Stop cuts short: counters and the report.              *)

\* Every step keeps the counters equal to what they count.
LEMMA MulCounters == MultiIInv /\ [Next]_vars /\ ~cutShort' => CountersExact'
<1> SUFFICES ASSUME MultiIInv, [Next]_vars, ~cutShort' PROVE CountersExact'
  OBVIOUS
<1>1. /\ TypeOK /\ TasksAt /\ N \in Nat /\ \A i \in 1..N : slot[i] \in Attempts \cup {None}
      /\ slot' = slot => N' = N
  BY MulSlotType DEF MultiIInv, N
<1> USE <1>1, ClientAssumption DEF MultiIInv, TypeOK, CurApart, TasksAt, SessionInv,
            StopBusy, Between, BetweenRests, vars, winVars, taskVars, chVars, runVars,
            cntVars, histVars
<1>2. CASE UNCHANGED vars
  <2>1. Done' = Done /\ Failed' = Failed /\ cur' = cur
    BY <1>2 DEF Done, Failed, Counted
  <2> QED
    BY <1>2, <2>1 DEF CountersExact, Passed
<1>3. ASSUME NEW n \in Canons, SetCanonsCount(n) PROVE CountersExact'
  <2>1. Done' = Done /\ Failed' = Failed /\ cur' = cur
    BY <1>3 DEF SetCanonsCount, Done, Failed, Counted
  <2> QED
    BY <1>3, <2>1 DEF SetCanonsCount, CountersExact
<1>4. CASE ClickConnect
  <2>1. Done' = Done /\ Failed' = Failed /\ cur' = cur
    BY <1>4 DEF ClickConnect, Done, Failed, Counted
  <2> QED
    BY <1>4, <2>1 DEF ClickConnect, CountersExact, Passed
<1>5. CASE StartResetConnects
  <2>1. Done' = {} /\ connects' = 0
    BY <1>5 DEF StartResetConnects, Done
  <2> QED
    BY <1>5, <2>1, FS_EmptySet DEF StartResetConnects, CountersExact
<1>6. CASE StartResetFails
  <2>1. cur = {} /\ Done' = Done /\ Failed' = {} /\ Failed = {} /\ Done = {}
    BY <1>6 DEF StartResetFails, Done, Failed, Counted
  <2>2. Passed' >= 0
    BY <1>6 DEF StartResetFails, Passed
  <2> QED
    BY <1>6, <2>1, <2>2, FS_EmptySet DEF StartResetFails, CountersExact
<1>7. CASE ClickStop
  <2>1. Done' = Done /\ Failed' = Failed /\ cur' = cur
    BY <1>7 DEF ClickStop, Done, Failed, Counted
  <2> QED
    BY <1>7, <2>1 DEF ClickStop, CountersExact, Passed
<1>8. CASE StartRefused
  <2>1. Done' = Done /\ Failed' = Failed /\ cur' = cur /\ Cardinality(cur) \in Nat
    BY <1>8, FS_CardinalityType DEF StartRefused, Done, Failed, Counted
  <2>2. Passed' = Passed + 1 /\ Passed \in Nat
    BY <1>8 DEF StartRefused, Passed, After
  <2> QED
    BY <1>8, <2>1, <2>2 DEF StartRefused, CountersExact
<1>9. ASSUME NEW a \in Attempts, StartSlot(a) PROVE CountersExact'
  <2>1. a \notin cur /\ cur' = cur \cup {a} /\ chain' = [chain EXCEPT ![a] = "resolving"]
    BY <1>9 DEF StartSlot
  <2>2. Done' = Done /\ Failed' = Failed
    BY <2>1 DEF Done, Failed, Counted
  <2>3. Cardinality(cur') = Cardinality(cur) + 1 /\ Cardinality(cur) \in Nat
    BY <2>1, FS_AddElement, FS_CardinalityType
  <2>4. Passed' = Passed + 1 /\ Passed \in Nat
    BY <1>9, MulStartSlot DEF Passed, After
  <2>5. UNCHANGED <<connects, fails, ui, stop, status, cutShort>>
    BY <1>9 DEF StartSlot
  <2> QED
    BY <2>2, <2>3, <2>4, <2>5 DEF CountersExact
<1>10. CASE StopSlot
  <2>1. Done' = Done /\ Failed' = Failed /\ cur' = cur
    BY <1>10 DEF StopSlot, CloseSocket, Closed, After, Done, Failed, Counted
  <2> QED
    BY <1>10, <2>1 DEF StopSlot, CloseSocket, Closed, After, CountersExact, Passed
<1>11. CASE StopErase
  <2>1. Done' = Done /\ Failed' = Failed /\ cur' = cur
    BY <1>11 DEF StopErase, After, Done, Failed, Counted
  <2> QED
    BY <1>11, <2>1 DEF StopErase, After, CountersExact, Passed
<1>12. CASE StopResetConnects
  <2>1. Done' = {} /\ connects' = 0
    BY <1>12 DEF StopResetConnects, Done
  <2> QED
    BY <1>12, <2>1, FS_EmptySet DEF StopResetConnects, CountersExact
<1>13. CASE StopResetFails
  <2>1. cur = {} /\ Done' = Done /\ Failed' = {}
    BY <1>13 DEF StopResetFails, Done, Failed, Counted
  <2> QED
    BY <1>13, <2>1, FS_EmptySet DEF StopResetFails, CountersExact
<1>14. CASE StopSetStatus
  <2>1. Done' = Done /\ Failed' = Failed /\ cur' = cur
    BY <1>14 DEF StopSetStatus, Done, Failed, Counted
  <2> QED
    BY <1>14, <2>1 DEF StopSetStatus, CountersExact, Passed
<1>15. CASE StopTell
  <2>1. Done' = Done /\ Failed' = Failed /\ cur' = cur
    BY <1>15 DEF StopTell, Done, Failed, Counted
  <2> QED
    BY <1>15, <2>1 DEF StopTell, CountersExact, Passed
<1>16. ASSUME NEW a \in Attempts, ResolveFails(a) PROVE CountersExact'
  <2>1. Done' = Done /\ Failed' = Failed /\ cur' = cur
    BY <1>16 DEF ResolveFails, Go, Done, Failed, Counted
  <2> QED
    BY <1>16, <2>1 DEF ResolveFails, Go, CountersExact, Passed
<1>17. ASSUME NEW a \in Attempts, ResolveDone(a) PROVE CountersExact'
  <2>1. Done' = Done /\ Failed' = Failed /\ cur' = cur
    BY <1>17 DEF ResolveDone, Go, Done, Failed, Counted
  <2> QED
    BY <1>17, <2>1 DEF ResolveDone, Go, CountersExact, Passed
<1>18. ASSUME NEW a \in Attempts, ConnectDone(a) PROVE CountersExact'
  <2>1. Done' = Done /\ Failed' = Failed /\ cur' = cur
    BY <1>18 DEF ConnectDone, Go, Done, Failed, Counted
  <2> QED
    BY <1>18, <2>1 DEF ConnectDone, Go, CountersExact, Passed
<1>19. ASSUME NEW a \in Attempts, ConnectFails(a) PROVE CountersExact'
  <2>1. Done' = Done /\ Failed' = Failed /\ cur' = cur
    BY <1>19 DEF ConnectFails, Go, CloseSocket, Closed, Done, Failed, Counted
  <2> QED
    BY <1>19, <2>1 DEF ConnectFails, Go, CloseSocket, Closed, CountersExact, Passed
<1>20. ASSUME NEW a \in Attempts, CountConnect(a) PROVE CountersExact'
  <2>1. a \in cur /\ a \notin Done /\ IsFiniteSet(Done)
    <3>1. Done \in SUBSET cur
      BY DEF Done
    <3> QED
      BY <1>20, <3>1, MulFirstReport, FS_Subset DEF CountConnect, Go
  <2>2. Done' = Done \cup {a}
    BY <1>20, <2>1 DEF CountConnect, Go, Done, Counted
  <2>3. Failed' = Failed /\ cur' = cur
    BY <1>20 DEF CountConnect, Go, Failed
  <2>4. Cardinality(Done') = Cardinality(Done) + 1
    BY <2>1, <2>2, FS_AddElement
  <2> QED
    BY <1>20, <2>3, <2>4 DEF CountConnect, CountersExact, Passed
<1>21. ASSUME NEW a \in Attempts, CountFail(a) PROVE CountersExact'
  <2>1. a \in cur /\ a \notin Failed /\ IsFiniteSet(Failed) /\ ~Between
    <3>1. Failed \in SUBSET cur
      BY DEF Failed
    <3> QED
      BY <1>21, <3>1, FS_Subset DEF CountFail, Go, LiveIsOpen, Failed
  <2>2. Failed' = Failed \cup {a}
    BY <1>21, <2>1 DEF CountFail, Go, Failed
  <2>3. Done' = Done /\ cur' = cur
    BY <1>21 DEF CountFail, Go, Done, Counted
  <2>4. Cardinality(Failed') = Cardinality(Failed) + 1
    BY <2>1, <2>2, FS_AddElement
  <2> QED
    BY <1>21, <2>1, <2>3, <2>4 DEF CountFail, CountersExact, Passed
<1>22. ASSUME NEW a \in Attempts, AddChannel(a) PROVE CountersExact'
  <2>1. Done' = Done /\ Failed' = Failed /\ cur' = cur
    BY <1>22 DEF AddChannel, Go, Done, Failed, Counted
  <2> QED
    BY <1>22, <2>1 DEF AddChannel, Go, CountersExact, Passed
<1>23. ASSUME NEW a \in Attempts, Report(a) PROVE CountersExact'
  <2>1. Done' = Done /\ Failed' = Failed /\ cur' = cur
    BY <1>23 DEF Report, Done, Failed, Counted
  <2> QED
    BY <1>23, <2>1 DEF Report, CountersExact, Passed
<1>24. ASSUME NEW a \in Attempts, TellWindow(a) PROVE CountersExact'
  <2>1. Done' = Done /\ Failed' = Failed /\ cur' = cur
    BY <1>24 DEF TellWindow, Done, Failed, Counted
  <2> QED
    BY <1>24, <2>1 DEF TellWindow, CountersExact, Passed
<1>25. ASSUME NEW a \in Attempts, ReadFails(a) PROVE CountersExact'
  <2>1. Done' = Done /\ Failed' = Failed /\ cur' = cur
    BY <1>25 DEF ReadFails, CloseSocket, Closed, Done, Failed, Counted
  <2> QED
    BY <1>25, <2>1 DEF ReadFails, CloseSocket, Closed, CountersExact, Passed
<1>26. ASSUME NEW a \in Attempts, NotifyChannelClose(a) PROVE CountersExact'
  <2>1. Done' = Done /\ Failed' = Failed /\ cur' = cur
    BY <1>26 DEF NotifyChannelClose, Done, Failed, Counted
  <2> QED
    BY <1>26, <2>1 DEF NotifyChannelClose, CountersExact, Passed
<1>27. ASSUME NEW a \in Attempts, ClickClose(a) PROVE CountersExact'
  <2>1. Done' = Done /\ Failed' = Failed /\ cur' = cur
    BY <1>27 DEF ClickClose, CloseSocket, Done, Failed, Counted
  <2> QED
    BY <1>27, <2>1 DEF ClickClose, CloseSocket, CountersExact, Passed
<1> QED
  BY <1>2, <1>3, <1>4, <1>5, <1>6, <1>7, <1>8, <1>9, <1>10, <1>11, <1>12, <1>13, <1>14,
     <1>15, <1>16, <1>17, <1>18, <1>19, <1>20, <1>21, <1>22, <1>23, <1>24, <1>25, <1>26,
     <1>27
     DEF Next, UIThread, StartTask, StopTask, Completion

\* Every step keeps the status to the last attempt that counts.
LEMMA MulReporter == MultiIInv /\ [Next]_vars /\ ~cutShort' => ReporterIsLast'
<1> SUFFICES ASSUME MultiIInv, [Next]_vars, ~cutShort' PROVE ReporterIsLast'
  OBVIOUS
<1>1. /\ TypeOK /\ TasksAt /\ N \in Nat /\ \A i \in 1..N : slot[i] \in Attempts \cup {None}
      /\ slot' = slot => N' = N
  BY MulSlotType DEF MultiIInv, N
<1> USE <1>1, ClientAssumption DEF MultiIInv, TypeOK, SlotsApart, TasksAt, SessionInv,
            StopBusy, Between, BetweenRests, ReporterIsLast, vars, winVars, taskVars,
            chVars, runVars, cntVars, histVars
<1>2. CASE UNCHANGED vars
  BY <1>2
<1>3. ASSUME NEW n \in Canons, SetCanonsCount(n) PROVE ReporterIsLast'
  BY <1>3, MulSetCanons DEF SetCanonsCount
<1>4. CASE ClickConnect
  BY <1>4 DEF ClickConnect
<1>5. CASE StartResetConnects
  BY <1>5 DEF StartResetConnects
<1>6. CASE StartResetFails
  BY <1>6 DEF StartResetFails
<1>7. CASE ClickStop
  BY <1>7 DEF ClickStop
<1>8. CASE StartRefused
  BY <1>8 DEF StartRefused, After
<1>9. ASSUME NEW a \in Attempts, StartSlot(a) PROVE ReporterIsLast'
  <2>1. rep' = rep /\ rep[a] = "none" /\ cur' = cur \cup {a}
    BY <1>9 DEF StartSlot, Counted
  <2>2. N' = N /\ UNCHANGED <<connects, status, ui, stop, cutShort>>
    BY <1>9, MulStartSlot DEF StartSlot
  <2>3. \A b \in cur' : rep'[b] # "none" => b \in cur /\ rep[b] # "none"
    BY <2>1
  <2> QED
    BY <2>2, <2>3 DEF ReporterIsLast
<1>10. CASE StopSlot
  BY <1>10 DEF StopSlot, CloseSocket, Closed, After
<1>11. CASE StopErase
  BY <1>11, MulStopErase DEF StopErase, After
<1>12. CASE StopResetConnects
  BY <1>12 DEF StopResetConnects
<1>13. CASE StopResetFails
  BY <1>13 DEF StopResetFails
<1>14. CASE StopSetStatus
  BY <1>14 DEF StopSetStatus
<1>15. CASE StopTell
  BY <1>15 DEF StopTell, OnDeviceStatusChanged
<1>16. ASSUME NEW a \in Attempts, ResolveFails(a) PROVE ReporterIsLast'
  BY <1>16 DEF ResolveFails, Go
<1>17. ASSUME NEW a \in Attempts, ResolveDone(a) PROVE ReporterIsLast'
  BY <1>17 DEF ResolveDone, Go
<1>18. ASSUME NEW a \in Attempts, ConnectDone(a) PROVE ReporterIsLast'
  BY <1>18 DEF ConnectDone, Go
<1>19. ASSUME NEW a \in Attempts, ConnectFails(a) PROVE ReporterIsLast'
  BY <1>19 DEF ConnectFails, Go, CloseSocket, Closed
<1>20. ASSUME NEW a \in Attempts, CountConnect(a) PROVE ReporterIsLast'
  <2>1. ~Between /\ \A b \in cur : rep[b] = "none"
    BY <1>20, MulFirstReport DEF CountConnect, Go
  <2>2. cur' = cur /\ \A b \in Attempts : b # a => rep'[b] = rep[b]
    BY <1>20 DEF CountConnect
  <2>3. rep'[a] # "none" => connects' >= N'
    BY <1>20 DEF CountConnect
  <2> QED
    BY <2>1, <2>2, <2>3 DEF ReporterIsLast
<1>21. ASSUME NEW a \in Attempts, CountFail(a) PROVE ReporterIsLast'
  BY <1>21 DEF CountFail, Go
<1>22. ASSUME NEW a \in Attempts, AddChannel(a) PROVE ReporterIsLast'
  BY <1>22 DEF AddChannel, Go
<1>23. ASSUME NEW a \in Attempts, Report(a) PROVE ReporterIsLast'
  BY <1>23 DEF Report
<1>24. ASSUME NEW a \in Attempts, TellWindow(a) PROVE ReporterIsLast'
  BY <1>24 DEF TellWindow, OnDeviceStatusChanged
<1>25. ASSUME NEW a \in Attempts, ReadFails(a) PROVE ReporterIsLast'
  BY <1>25 DEF ReadFails, CloseSocket, Closed
<1>26. ASSUME NEW a \in Attempts, NotifyChannelClose(a) PROVE ReporterIsLast'
  BY <1>26 DEF NotifyChannelClose
<1>27. ASSUME NEW a \in Attempts, ClickClose(a) PROVE ReporterIsLast'
  BY <1>27 DEF ClickClose, CloseSocket
<1> QED
  BY <1>2, <1>3, <1>4, <1>5, <1>6, <1>7, <1>8, <1>9, <1>10, <1>11, <1>12, <1>13, <1>14,
     <1>15, <1>16, <1>17, <1>18, <1>19, <1>20, <1>21, <1>22, <1>23, <1>24, <1>25, <1>26,
     <1>27
     DEF Next, UIThread, StartTask, StopTask, Completion

\* Every step keeps a channel behind the status Connected.
LEMMA MulHasChannel == MultiIInv /\ [Next]_vars /\ ~cutShort' => ConnectedHasChannel'
<1> SUFFICES ASSUME MultiIInv, [Next]_vars, ~cutShort' PROVE ConnectedHasChannel'
  OBVIOUS
<1>1. /\ TypeOK /\ TasksAt /\ N \in Nat /\ \A i \in 1..N : slot[i] \in Attempts \cup {None}
      /\ slot' = slot => N' = N
  BY MulSlotType DEF MultiIInv, N
<1> USE <1>1, ClientAssumption DEF MultiIInv, TypeOK, CurApart, SessionInv, StopBusy,
            Between, BetweenRests, ConnectedHasChannel, vars, winVars, taskVars, chVars,
            runVars, cntVars, histVars
<1>2. CASE UNCHANGED vars
  BY <1>2
<1>3. ASSUME NEW n \in Canons, SetCanonsCount(n) PROVE ConnectedHasChannel'
  BY <1>3, MulSetCanons DEF SetCanonsCount
<1>4. CASE ClickConnect
  BY <1>4 DEF ClickConnect
<1>5. CASE StartResetConnects
  BY <1>5 DEF StartResetConnects
<1>6. CASE StartResetFails
  BY <1>6 DEF StartResetFails
<1>7. CASE ClickStop
  BY <1>7 DEF ClickStop
<1>8. CASE StartRefused
  BY <1>8 DEF StartRefused, After
<1>9. ASSUME NEW a \in Attempts, StartSlot(a) PROVE ConnectedHasChannel'
  BY <1>9, MulStartSlot DEF StartSlot, After
<1>10. CASE StopSlot
  BY <1>10 DEF StopSlot, CloseSocket, Closed, After
<1>11. CASE StopErase
  BY <1>11, MulStopErase DEF StopErase, After
<1>12. CASE StopResetConnects
  BY <1>12 DEF StopResetConnects
<1>13. CASE StopResetFails
  BY <1>13 DEF StopResetFails
<1>14. CASE StopSetStatus
  BY <1>14 DEF StopSetStatus
<1>15. CASE StopTell
  BY <1>15 DEF StopTell, OnDeviceStatusChanged
<1>16. ASSUME NEW a \in Attempts, ResolveFails(a) PROVE ConnectedHasChannel'
  BY <1>16 DEF ResolveFails, Go
<1>17. ASSUME NEW a \in Attempts, ResolveDone(a) PROVE ConnectedHasChannel'
  BY <1>17 DEF ResolveDone, Go
<1>18. ASSUME NEW a \in Attempts, ConnectDone(a) PROVE ConnectedHasChannel'
  BY <1>18 DEF ConnectDone, Go
<1>19. ASSUME NEW a \in Attempts, ConnectFails(a) PROVE ConnectedHasChannel'
  BY <1>19 DEF ConnectFails, Go, CloseSocket, Closed
<1>20. ASSUME NEW a \in Attempts, CountConnect(a) PROVE ConnectedHasChannel'
  BY <1>20 DEF CountConnect, Go
<1>21. ASSUME NEW a \in Attempts, CountFail(a) PROVE ConnectedHasChannel'
  BY <1>21 DEF CountFail, Go
<1>22. ASSUME NEW a \in Attempts, AddChannel(a) PROVE ConnectedHasChannel'
  BY <1>22 DEF AddChannel, Go
<1>23. ASSUME NEW a \in Attempts, Report(a) PROVE ConnectedHasChannel'
  <2>1. CASE fails = N
    BY <1>23, <2>1 DEF Report
  <2>2. CASE fails # N /\ ~raced'
    <3>1. a \in cur /\ ~Between /\ ~cutShort
      BY <1>23 DEF Report, LiveIsOpen
    <3>2. connects >= N
      BY <1>23, <3>1 DEF Report, ReporterIsLast
    <3>3. \A b \in cur : chain[b] # "failAgain"
      BY <1>23, <2>2 DEF Report
    <3>4. \E b \in cur : chain[b] \in {"okAdd", "ok"}
      BY <2>2, <3>1, <3>2, <3>3, MulNoneConnected
    <3> QED
      BY <1>23, <3>4 DEF Report
  <2>3. CASE raced'
    BY <2>3
  <2> QED
    BY <2>1, <2>2, <2>3
<1>24. ASSUME NEW a \in Attempts, TellWindow(a) PROVE ConnectedHasChannel'
  BY <1>24 DEF TellWindow, OnDeviceStatusChanged
<1>25. ASSUME NEW a \in Attempts, ReadFails(a) PROVE ConnectedHasChannel'
  BY <1>25 DEF ReadFails, CloseSocket, Closed
<1>26. ASSUME NEW a \in Attempts, NotifyChannelClose(a) PROVE ConnectedHasChannel'
  BY <1>26 DEF NotifyChannelClose
<1>27. ASSUME NEW a \in Attempts, ClickClose(a) PROVE ConnectedHasChannel'
  BY <1>27 DEF ClickClose, CloseSocket
<1> QED
  BY <1>2, <1>3, <1>4, <1>5, <1>6, <1>7, <1>8, <1>9, <1>10, <1>11, <1>12, <1>13, <1>14,
     <1>15, <1>16, <1>17, <1>18, <1>19, <1>20, <1>21, <1>22, <1>23, <1>24, <1>25, <1>26,
     <1>27
     DEF Next, UIThread, StartTask, StopTask, Completion
-----------------------------------------------------------------------------
(* Connecting.                                                              *)

\* Every step keeps an attempt, or a report to come, behind the status Connecting.
LEMMA MulConnecting == MultiIInv /\ [Next]_vars => (IsFiniteSet(Uncounted) /\ ConnectingInv)'
<1> SUFFICES ASSUME MultiIInv, [Next]_vars PROVE (IsFiniteSet(Uncounted) /\ ConnectingInv)'
  OBVIOUS
<1>1. /\ TypeOK /\ TasksAt /\ N \in Nat /\ \A i \in 1..N : slot[i] \in Attempts \cup {None}
      /\ slot' = slot => N' = N
  BY MulSlotType DEF MultiIInv, N
<1> USE <1>1, ClientAssumption DEF MultiIInv, TypeOK, TasksAt, vars, winVars, taskVars,
            chVars, runVars, cntVars, histVars
<1>2. CASE UNCHANGED vars
  <2>1. Uncounted' = Uncounted
    BY <1>2 DEF Uncounted
  <2> QED
    BY <1>2, <2>1 DEF ConnectingInv, Passed
<1>3. ASSUME NEW n \in Canons, SetCanonsCount(n)
      PROVE  (IsFiniteSet(Uncounted) /\ ConnectingInv)'
  <2>1. Uncounted' = Uncounted
    BY <1>3 DEF SetCanonsCount, Uncounted
  <2> QED
    BY <1>3, <2>1 DEF SetCanonsCount, ConnectingInv
<1>4. CASE ClickConnect
  <2>1. Uncounted' = Uncounted
    BY <1>4 DEF ClickConnect, Uncounted
  <2> QED
    BY <1>4, <2>1 DEF ClickConnect, ConnectingInv, Passed
<1>5. CASE StartResetConnects
  <2>1. Uncounted' = Uncounted
    BY <1>5 DEF StartResetConnects, Uncounted
  <2> QED
    BY <1>5, <2>1 DEF StartResetConnects, ConnectingInv, Passed
<1>6. CASE StartResetFails
  <2>1. Uncounted' = Uncounted /\ Cardinality(Uncounted) \in Nat
    BY <1>6, FS_CardinalityType DEF StartResetFails, Uncounted
  <2>2. N # 0 => Passed' = 0
    BY <1>6 DEF StartResetFails, Passed
  <2> QED
    BY <1>6, <2>1, <2>2 DEF StartResetFails, ConnectingInv
<1>7. CASE ClickStop
  <2>1. Uncounted' = Uncounted
    BY <1>7 DEF ClickStop, Uncounted
  <2> QED
    BY <1>7, <2>1 DEF ClickStop, ConnectingInv, Passed
<1>8. CASE StartRefused
  <2>1. Uncounted' = Uncounted
    BY <1>8 DEF StartRefused, After, Uncounted
  <2> QED
    BY <1>8, <2>1 DEF StartRefused, ConnectingInv
<1>9. ASSUME NEW a \in Attempts, StartSlot(a)
      PROVE  (IsFiniteSet(Uncounted) /\ ConnectingInv)'
  <2>1. a \notin Uncounted /\ Uncounted' = Uncounted \cup {a}
    BY <1>9 DEF StartSlot, Uncounted
  <2>2. /\ IsFiniteSet(Uncounted') /\ Cardinality(Uncounted) \in Nat
        /\ Cardinality(Uncounted') = Cardinality(Uncounted) + 1
    BY <2>1, FS_AddElement, FS_CardinalityType
  <2>3. Passed' = Passed + 1 /\ Passed \in Nat /\ N' = N
    BY <1>9, MulStartSlot DEF Passed, After
  <2>4. UNCHANGED <<connects, rep, ui, stop, status, refused>>
    BY <1>9 DEF StartSlot
  <2> QED
    BY <2>2, <2>3, <2>4 DEF ConnectingInv
<1>10. CASE StopSlot
  <2>1. Uncounted' = Uncounted /\ stop' \in {"close", "erase", "resetConnects"}
    BY <1>10 DEF StopSlot, Uncounted
  <2> QED
    BY <2>1 DEF ConnectingInv
<1>11. CASE StopErase
  <2>1. Uncounted' = Uncounted /\ stop' \in {"close", "resetConnects"}
    BY <1>11 DEF StopErase, Uncounted
  <2> QED
    BY <2>1 DEF ConnectingInv
<1>12. CASE StopResetConnects
  <2>1. Uncounted' = Uncounted
    BY <1>12 DEF StopResetConnects, Uncounted
  <2> QED
    BY <1>12, <2>1 DEF StopResetConnects, ConnectingInv, Passed
<1>13. CASE StopResetFails
  <2>1. Uncounted' = Uncounted
    BY <1>13 DEF StopResetFails, Uncounted
  <2> QED
    BY <1>13, <2>1 DEF StopResetFails, ConnectingInv, Passed
<1>14. CASE StopSetStatus
  <2>1. Uncounted' = Uncounted
    BY <1>14 DEF StopSetStatus, Uncounted
  <2> QED
    BY <1>14, <2>1 DEF StopSetStatus, ConnectingInv, Passed
<1>15. CASE StopTell
  <2>1. Uncounted' = Uncounted
    BY <1>15 DEF StopTell, Uncounted
  <2> QED
    BY <1>15, <2>1 DEF StopTell, ConnectingInv, Passed
<1>16. ASSUME NEW a \in Attempts, ResolveFails(a)
       PROVE  (IsFiniteSet(Uncounted) /\ ConnectingInv)'
  <2>1. Uncounted' = Uncounted
    BY <1>16 DEF ResolveFails, Go, Uncounted
  <2> QED
    BY <1>16, <2>1 DEF ResolveFails, Go, ConnectingInv, Passed
<1>17. ASSUME NEW a \in Attempts, ResolveDone(a)
       PROVE  (IsFiniteSet(Uncounted) /\ ConnectingInv)'
  <2>1. Uncounted' = Uncounted
    BY <1>17 DEF ResolveDone, Go, Uncounted
  <2> QED
    BY <1>17, <2>1 DEF ResolveDone, Go, ConnectingInv, Passed
<1>18. ASSUME NEW a \in Attempts, ConnectDone(a)
       PROVE  (IsFiniteSet(Uncounted) /\ ConnectingInv)'
  <2>1. Uncounted' = Uncounted
    BY <1>18 DEF ConnectDone, Go, Uncounted
  <2> QED
    BY <1>18, <2>1 DEF ConnectDone, Go, ConnectingInv, Passed
<1>19. ASSUME NEW a \in Attempts, ConnectFails(a)
       PROVE  (IsFiniteSet(Uncounted) /\ ConnectingInv)'
  <2>1. Uncounted' = Uncounted
    BY <1>19 DEF ConnectFails, Go, CloseSocket, Closed, Uncounted
  <2> QED
    BY <1>19, <2>1 DEF ConnectFails, Go, CloseSocket, Closed, ConnectingInv, Passed
<1>20. ASSUME NEW a \in Attempts, CountConnect(a)
       PROVE  (IsFiniteSet(Uncounted) /\ ConnectingInv)'
  <2>1. a \in Uncounted /\ Uncounted' = Uncounted \ {a}
    BY <1>20 DEF CountConnect, Go, Uncounted
  <2>2. /\ IsFiniteSet(Uncounted') /\ Cardinality(Uncounted) \in Nat
        /\ Cardinality(Uncounted') = Cardinality(Uncounted) - 1
    BY <2>1, FS_RemoveElement, FS_CardinalityType
  <2>3. connects' >= N => rep'[a] = "due"
    BY <1>20 DEF CountConnect
  <2>4. Passed' = Passed /\ Passed \in Int /\ connects' = connects + 1
    BY <1>20 DEF CountConnect, Passed
  <2> QED
    BY <1>20, <2>2, <2>3, <2>4 DEF CountConnect, ConnectingInv
<1>21. ASSUME NEW a \in Attempts, CountFail(a)
       PROVE  (IsFiniteSet(Uncounted) /\ ConnectingInv)'
  <2>1. Uncounted' = Uncounted
    BY <1>21 DEF CountFail, Go, Uncounted
  <2> QED
    BY <1>21, <2>1 DEF CountFail, Go, ConnectingInv, Passed
<1>22. ASSUME NEW a \in Attempts, AddChannel(a)
       PROVE  (IsFiniteSet(Uncounted) /\ ConnectingInv)'
  <2>1. Uncounted' = Uncounted
    BY <1>22 DEF AddChannel, Go, Uncounted
  <2> QED
    BY <1>22, <2>1 DEF AddChannel, Go, ConnectingInv, Passed
<1>23. ASSUME NEW a \in Attempts, Report(a) PROVE (IsFiniteSet(Uncounted) /\ ConnectingInv)'
  <2>1. Uncounted' = Uncounted
    BY <1>23 DEF Report, Uncounted
  <2> QED
    BY <1>23, <2>1 DEF Report, ConnectingInv, Passed
<1>24. ASSUME NEW a \in Attempts, TellWindow(a)
       PROVE  (IsFiniteSet(Uncounted) /\ ConnectingInv)'
  <2>1. Uncounted' = Uncounted
    BY <1>24 DEF TellWindow, Uncounted
  <2> QED
    BY <1>24, <2>1 DEF TellWindow, ConnectingInv, Passed
<1>25. ASSUME NEW a \in Attempts, ReadFails(a)
       PROVE  (IsFiniteSet(Uncounted) /\ ConnectingInv)'
  <2>1. Uncounted' = Uncounted
    BY <1>25 DEF ReadFails, CloseSocket, Closed, Uncounted
  <2> QED
    BY <1>25, <2>1 DEF ReadFails, CloseSocket, Closed, ConnectingInv, Passed
<1>26. ASSUME NEW a \in Attempts, NotifyChannelClose(a)
       PROVE  (IsFiniteSet(Uncounted) /\ ConnectingInv)'
  <2>1. Uncounted' = Uncounted
    BY <1>26 DEF NotifyChannelClose, Uncounted
  <2> QED
    BY <1>26, <2>1 DEF NotifyChannelClose, ConnectingInv, Passed
<1>27. ASSUME NEW a \in Attempts, ClickClose(a)
       PROVE  (IsFiniteSet(Uncounted) /\ ConnectingInv)'
  <2>1. Uncounted' = Uncounted
    BY <1>27 DEF ClickClose, CloseSocket, Uncounted
  <2> QED
    BY <1>27, <2>1 DEF ClickClose, CloseSocket, ConnectingInv, Passed
<1> QED
  BY <1>2, <1>3, <1>4, <1>5, <1>6, <1>7, <1>8, <1>9, <1>10, <1>11, <1>12, <1>13, <1>14,
     <1>15, <1>16, <1>17, <1>18, <1>19, <1>20, <1>21, <1>22, <1>23, <1>24, <1>25, <1>26,
     <1>27
     DEF Next, UIThread, StartTask, StopTask, Completion
-----------------------------------------------------------------------------
(* The theorems.                                                            *)

\* A client that was never started satisfies the invariant.
LEMMA MulStart == Init => MultiIInv
<1> SUFFICES ASSUME Init PROVE MultiIInv
  OBVIOUS
<1> USE ClientAssumption DEF Init
<1>1. slot \in Seq(Attempts \cup {None}) /\ N = 0
  BY EmptySeq DEF N
<1>2. TypeOK
  <2>1. chain \in [Attempts -> Phases] /\ rep \in [Attempts -> Reports]
    BY DEF Phases, Reports
  <2>2. start \in 0..N /\ stopAt \in 0..N
    BY <1>1
  <2> QED
    BY <1>1, <2>1, <2>2 DEF TypeOK, Statuses
<1>3. SlotsApart /\ TasksAt
  BY <1>1 DEF SlotsApart, TasksAt
<1>4. CurApart
  BY FS_EmptySet DEF CurApart
<1>5. BetweenRests /\ LiveIsOpen
  BY DEF BetweenRests, StopBusy, LiveIsOpen, Live
<1>6. SocketsKnown /\ NothingOpen /\ StopEmpties /\ ListedIsOpen
  BY DEF SocketsKnown, NothingOpen, StopEmpties, ListedIsOpen
<1>7. CountersExact /\ ReporterIsLast
  <2>1. Done = {} /\ Failed = {} /\ Between
    BY DEF Done, Failed, Between
  <2> QED
    BY <2>1, FS_EmptySet DEF CountersExact, ReporterIsLast
<1>8. IsFiniteSet(Uncounted)
  <2>1. Uncounted = {}
    BY DEF Uncounted
  <2> QED
    BY <2>1, FS_EmptySet
<1>9. ConnectedHasChannel /\ ConnectingInv
  BY DEF ConnectedHasChannel, ConnectingInv
<1> QED
  BY <1>2, <1>3, <1>4, <1>5, <1>6, <1>7, <1>8, <1>9 DEF MultiIInv, SessionInv

\* However attempts, Start, Stop and losses interleave, the invariant holds.
THEOREM MultiInvariant == Spec => []MultiIInv
<1>1. Init => MultiIInv
  BY MulStart
<1>2. MultiIInv /\ [Next]_vars => MultiIInv'
  <2> SUFFICES ASSUME MultiIInv, [Next]_vars PROVE MultiIInv'
    OBVIOUS
  <2>1. /\ TypeOK' /\ SlotsApart' /\ CurApart' /\ TasksAt'
        /\ IsFiniteSet(Uncounted)' /\ ConnectingInv'
    BY MulTypes, MulSlotsApart, MulCurApart, MulTasksAt, MulConnecting
  <2>2. SessionInv' /\ ConnectedHasChannel'
    <3>1. CASE cutShort'
      BY <3>1 DEF SessionInv, ConnectedHasChannel
    <3>2. CASE ~cutShort'
      <4>1. BetweenRests' /\ LiveIsOpen' /\ SocketsKnown' /\ NothingOpen' /\ StopEmpties'
        BY <3>2, MulRests, MulLive, MulSockets, MulNothingOpen, MulStopEmpties
      <4>2. ListedIsOpen' /\ CountersExact' /\ ReporterIsLast' /\ ConnectedHasChannel'
        BY <3>2, MulListed, MulCounters, MulReporter, MulHasChannel
      <4> QED
        BY <4>1, <4>2 DEF SessionInv
    <3> QED
      BY <3>1, <3>2
  <2> QED
    BY <2>1, <2>2 DEF MultiIInv
<1> QED
  BY <1>1, <1>2, PTL DEF Spec

\* As long as no Stop cuts a session short the two counters are exact, the session
\* is reported once, and Connected has a channel that succeeded or was reported
\* between the two counts of another (TCPClient.cpp:459).
THEOREM SessionCounted == Spec => []SessionIsCounted
<1>1. MultiIInv => SessionIsCounted
  <2> SUFFICES ASSUME MultiIInv PROVE SessionIsCounted
    OBVIOUS
  <2>1. CountersAgree
    BY DEF MultiIInv, SessionInv, CountersExact, CountersAgree, Done, Failed
  <2>2. ReportedOnce
    <3> DEFINE R == {a \in cur : rep[a] # "none"}
    <3> SUFFICES ASSUME ~cutShort PROVE Cardinality(R) <= 1
      BY DEF ReportedOnce
    <3>1. CASE R = {}
      BY <3>1, FS_EmptySet
    <3>2. CASE R # {}
      <4>1. PICK x : x \in R
        BY <3>2
      <4>2. R = {x}
        BY <4>1 DEF MultiIInv, SessionInv, ReporterIsLast
      <4> QED
        BY <4>2, FS_Singleton
    <3> QED
      BY <3>1, <3>2
  <2> QED
    BY <2>1, <2>2 DEF MultiIInv, SessionIsCounted
<1> QED
  BY <1>1, MultiInvariant, PTL

\* When every thread is done a Stop that cut no session short has left no socket
\* open, and no closed channel is listed (TCPClient.cpp:487).
THEOREM MultiStops == Spec => []NothingSurvivesStop
<1>1. MultiIInv => NothingSurvivesStop
  <2> SUFFICES ASSUME MultiIInv, Quiet, ~cutShort
               PROVE  /\ status = "Disconnected" => \A c \in Attempts : ~sock[c]
                      /\ \A c \in listed : opened[c]
    BY DEF NothingSurvivesStop
  <2>1. status = "Disconnected" => \A c \in Attempts : ~sock[c]
    BY DEF MultiIInv, SessionInv, NothingOpen
  <2>2. \A c \in listed : opened[c]
    BY DEF Quiet, MultiIInv, SessionInv, ListedIsOpen
  <2> QED
    BY <2>1, <2>2
<1> QED
  BY <1>1, MultiInvariant, PTL

\* Connecting ends when every thread is done: a completion that counts up to the
\* slots reports, also after a Stop and a new Start (TCPClient.cpp:459).
THEOREM MultiDecides == Spec => []ConnectingEnds
<1>1. MultiIInv => ConnectingEnds
  <2> SUFFICES ASSUME MultiIInv, Quiet, status = "Connecting", N # 0, ~refused
               PROVE  FALSE
    BY DEF ConnectingEnds
  <2>1. ui = "idle" /\ start = 0 /\ stop = "none" /\ \A a \in Attempts : ~InFlight(a)
    BY DEF Quiet
  <2>2. Uncounted = {}
    BY <2>1 DEF InFlight, Uncounted
  <2>3. Cardinality(Uncounted) = 0 /\ connects \in Nat /\ Passed = N
    BY <2>1, <2>2, FS_EmptySet DEF MultiIInv, TypeOK, Passed
  <2>4. N \in Nat /\ N <= connects + 0
    BY <2>1, <2>3, MulSlotType DEF MultiIInv, ConnectingInv
  <2>5. connects >= N
    BY <2>3, <2>4
  <2>6. \E a \in Attempts : rep[a] = "due"
    BY <2>1, <2>5 DEF MultiIInv, ConnectingInv
  <2> QED
    BY <2>1, <2>6 DEF InFlight
<1> QED
  BY <1>1, MultiInvariant, PTL
===============================================================================

