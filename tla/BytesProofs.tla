----------------------------- MODULE BytesProofs ------------------------------
(*****************************************************************************)
(* Proofs about the bytes that a device receives: the buffer of the main     *)
(* window, which the reading threads fill, save and clear (ReceiveBuffer);   *)
(* the handshake and the frames of a WebSocket connection (WebSocketSession);*)
(* the MQTT client (MQTTClient); and the list of blocks that holds bytes     *)
(* everywhere (DataBuffer), which is shown to implement ByteSequence.  Each  *)
(* part has its inductive invariant, the proof that every step keeps it, and *)
(* what follows from it.                                                     *)
(*****************************************************************************)
EXTENDS DataBuffer, ReceiveBuffer, WebSocketSession, MQTTClient, SequenceTheorems,
        WellFoundedInduction, TLAPS

-------------------------------------------------------------------------------
(* The receive buffer, for every set of threads, choice of limits and number *)
(* of blocks.                                                                *)

-----------------------------------------------------------------------------
(* Sequences in ascending order.                                            *)

Ascending(s) == \A i, j \in 1..Len(s) : i < j => s[i] < s[j]

\* The empty sequence has no elements.
LEMMA ToSetEmpty == ToSet(<<>>) = {}
BY DEF ToSet

\* Appending an element adds it to the set of the elements.
LEMMA ToSetAppend ==
  ASSUME NEW S, NEW s \in Seq(S), NEW x \in S
  PROVE  ToSet(Append(s, x)) = ToSet(s) \cup {x}
<1>1. /\ Len(Append(s, x)) = Len(s) + 1
      /\ \A i \in 1..Len(s) : Append(s, x)[i] = s[i]
      /\ Append(s, x)[Len(s) + 1] = x
  OBVIOUS
<1>2. DOMAIN s = 1..Len(s) /\ DOMAIN Append(s, x) = 1..(Len(s) + 1) /\ Len(s) \in Nat
  BY <1>1
<1> QED
  BY <1>1, <1>2 DEF ToSet

\* The elements of two sequences in a row are those of either.
LEMMA ToSetConcat ==
  ASSUME NEW S, NEW s \in Seq(S), NEW t \in Seq(S)
  PROVE  ToSet(s \o t) = ToSet(s) \cup ToSet(t)
<1>1. /\ Len(s \o t) = Len(s) + Len(t)
      /\ \A i \in 1..Len(s) : (s \o t)[i] = s[i]
      /\ \A i \in 1..Len(t) : (s \o t)[Len(s) + i] = t[i]
  BY ConcatProperties
<1>2. /\ DOMAIN s = 1..Len(s) /\ DOMAIN t = 1..Len(t) /\ Len(s) \in Nat /\ Len(t) \in Nat
      /\ DOMAIN (s \o t) = 1..(Len(s) + Len(t))
  BY <1>1, ConcatProperties
<1>3. ToSet(s) \cup ToSet(t) \subseteq ToSet(s \o t)
  <2>1. ASSUME NEW i \in DOMAIN s PROVE s[i] \in ToSet(s \o t)
    BY <1>1, <1>2 DEF ToSet
  <2>2. ASSUME NEW i \in DOMAIN t PROVE t[i] \in ToSet(s \o t)
    <3>1. Len(s) + i \in DOMAIN (s \o t) /\ (s \o t)[Len(s) + i] = t[i]
      BY <1>1, <1>2
    <3> QED
      BY <3>1 DEF ToSet
  <2> QED
    BY <2>1, <2>2 DEF ToSet
<1>4. ASSUME NEW i \in DOMAIN (s \o t) PROVE (s \o t)[i] \in ToSet(s) \cup ToSet(t)
  <2>1. CASE i <= Len(s)
    BY <1>1, <1>2, <2>1 DEF ToSet
  <2>2. CASE i > Len(s)
    <3>1. i - Len(s) \in 1..Len(t) /\ i = Len(s) + (i - Len(s))
      BY <1>2, <2>2
    <3> QED
      BY <1>1, <1>2, <3>1 DEF ToSet
  <2> QED
    BY <1>2, <2>1, <2>2
<1> QED
  BY <1>3, <1>4 DEF ToSet

\* The beginning of an ascending sequence ascends.
LEMMA AscendingStart ==
  ASSUME NEW s \in Seq(Blocks), NEW t \in Seq(Blocks), Ascending(s \o t)
  PROVE  Ascending(s)
<1>1. /\ Len(s \o t) = Len(s) + Len(t) /\ Len(s) \in Nat /\ Len(t) \in Nat
      /\ \A i \in 1..Len(s) : (s \o t)[i] = s[i]
  BY ConcatProperties
<1> QED
  BY <1>1 DEF Ascending

\* A sequence goes on ascending with a block later than all of it.
LEMMA AscendingAppend ==
  ASSUME NEW s \in Seq(Blocks), NEW t \in Seq(Blocks), NEW n \in Blocks,
         Ascending(s \o t), \A x \in ToSet(s) \cup ToSet(t) : x < n
  PROVE  Ascending(s \o Append(t, n))
<1>1. s \o t \in Seq(Blocks) /\ s \o Append(t, n) = Append(s \o t, n)
  OBVIOUS
<1>2. \A i \in 1..Len(s \o t) : (s \o t)[i] < n
  BY <1>1, ToSetConcat DEF ToSet
<1>3. /\ Len(Append(s \o t, n)) = Len(s \o t) + 1 /\ Len(s \o t) \in Nat
      /\ \A i \in 1..Len(s \o t) : Append(s \o t, n)[i] = (s \o t)[i]
      /\ Append(s \o t, n)[Len(s \o t) + 1] = n
  BY <1>1
<1> DEFINE u == Append(s \o t, n)
<1>4. ASSUME NEW i \in 1..Len(u), NEW j \in 1..Len(u), i < j PROVE u[i] < u[j]
  <2>1. i \in 1..Len(s \o t)
    BY <1>3, <1>4
  <2>2. CASE j = Len(s \o t) + 1
    BY <1>2, <1>3, <2>1, <2>2
  <2>3. CASE j \in 1..Len(s \o t)
    BY <1>3, <1>4, <2>1, <2>3 DEF Ascending
  <2> QED
    BY <1>3, <2>2, <2>3
<1> QED
  BY <1>1, <1>4 DEF Ascending

-----------------------------------------------------------------------------
(* The invariant.                                                           *)

Saved == {"enable", "clear"}

\* A reader that saves, or clears, holds the mutex.
Holds == \A r \in Readers : pc[r] \in AutoSaveSteps \cup {"clear"} => mutex = r

\* What a reader is about to clear has been written, or is dropped knowingly.
ClearsSaved ==
  \A r \in Readers : pc[r] \in Saved => ToSet(buf) \subseteq ToSet(file) \cup dropped

\* Only received blocks are in the buffer and in the file.
OnlyReceived == ToSet(buf) \cup ToSet(file) \subseteq 1..received

BufferIInv == TypeOK /\ Holds /\ ClearsSaved /\ OnlyReceived /\ NoBlockLost /\ SavedInOrder

\* Order, said without the LET.
LEMMA OrderMeans ==
  /\ (\E r \in Readers : pc[r] \in Saved) => (SavedInOrder <=> Ascending(file))
  /\ ~(\E r \in Readers : pc[r] \in Saved) => (SavedInOrder <=> Ascending(file \o buf))
BY DEF SavedInOrder, Ascending, Saved

\* SavedInOrder read in the next state, where its IF has two cases.
LEMMA OrderMeansNext ==
  /\ (\E r \in Readers : pc'[r] \in Saved) => (SavedInOrder' <=> Ascending(file'))
  /\ ~(\E r \in Readers : pc'[r] \in Saved) => (SavedInOrder' <=> Ascending(file' \o buf'))
BY DEF SavedInOrder, Ascending, Saved

\* Nothing is received, and nothing is lost.
LEMMA BufferStart == Init => BufferIInv
<1> SUFFICES ASSUME Init PROVE BufferIInv
  OBVIOUS
<1>1. TypeOK
  BY BufferAssumption DEF Init, TypeOK
<1>2. Holds /\ ClearsSaved
  BY DEF Init, Holds, ClearsSaved, AutoSaveSteps, Saved, Threads
<1>3. OnlyReceived /\ NoBlockLost
  BY ToSetEmpty DEF Init, OnlyReceived, NoBlockLost
<1>4. SavedInOrder
  BY DEF Init, SavedInOrder, Threads
<1> QED
  BY <1>1, <1>2, <1>3, <1>4 DEF BufferIInv

\* A step that moves threads between states in which nothing has been saved.
LEMMA Quietly ==
  ASSUME BufferIInv, TypeOK', Holds', UNCHANGED <<buf, file, received, dropped>>,
         \A r \in Readers : pc'[r] \in Saved <=> pc[r] \in Saved
  PROVE  BufferIInv'
<1>1. ClearsSaved' /\ OnlyReceived' /\ NoBlockLost'
  BY DEF BufferIInv, ClearsSaved, OnlyReceived, NoBlockLost
<1>2. SavedInOrder'
  BY OrderMeans, OrderMeansNext DEF BufferIInv
<1> QED
  BY <1>1, <1>2 DEF BufferIInv

\* Appending a received block to the buffer keeps the invariant.
LEMMA AppendKeeps == ASSUME BufferIInv, NEW r \in Readers, AppendBlock(r) PROVE BufferIInv'
<1> USE DEF BufferIInv
<1>1. /\ received' = received + 1 /\ received' \in Blocks /\ received \in Nat
      /\ buf' = Append(buf, received') /\ file' = file
      /\ buf \in Seq(Blocks) /\ file \in Seq(Blocks)
  BY BufferAssumption DEF AppendBlock, TypeOK, Blocks
<1>2. ToSet(buf') = ToSet(buf) \cup {received'}
  BY <1>1, ToSetAppend
<1>3. ~(\E q \in Readers : pc[q] \in Saved) /\ None \notin Readers
  BY BufferAssumption DEF AppendBlock, Holds, Saved, AutoSaveSteps
<1>4. TypeOK'
  <2>1. buf' \in Seq(Blocks) /\ received' \in 0..MaxBlocks
    BY <1>1 DEF Blocks
  <2>2. pc' \in [Threads -> AutoSaveSteps \cup {"idle", "append", "clear", "show", "save"}]
    BY DEF TypeOK, AppendBlock, Goto, AutoSaveSteps
  <2>3. ToSet(buf') \subseteq Blocks
    BY <2>1 DEF ToSet
  <2> QED
    BY <1>1, <2>1, <2>2, <2>3 DEF TypeOK, AppendBlock
<1>5. Holds'
  BY <1>3, BufferAssumption DEF TypeOK, Holds, AppendBlock, Goto, AutoSaveSteps, Threads
<1>6. ClearsSaved'
  BY <1>3, <1>1 DEF TypeOK, ClearsSaved, AppendBlock, Goto, Saved, Threads
<1>7. OnlyReceived' /\ NoBlockLost'
  BY <1>1, <1>2 DEF OnlyReceived, NoBlockLost, AppendBlock
<1>8. SavedInOrder'
  <2>1. Ascending(file \o buf)
    BY <1>3, OrderMeans
  <2>2. Ascending(file' \o buf')
    BY <1>1, <2>1, AscendingAppend DEF OnlyReceived
  <2>3. Ascending(file')
    BY <1>1, <2>1, AscendingStart
  <2> QED
    BY <2>2, <2>3, OrderMeansNext
<1> QED
  BY <1>4, <1>5, <1>6, <1>7, <1>8

\* Giving up the save: the buffer is dropped with no file to keep it.
LEMMA DropKeeps ==
  ASSUME BufferIInv, NEW r \in Readers,
         Goto(r, "path", "clear") \/ Goto(r, "open", "clear"), dropped' = dropped \cup ToSet(buf),
         UNCHANGED <<buf, mutex, ui, clearOn, autoSave, limit, file, received>>
  PROVE  BufferIInv'
<1> USE DEF BufferIInv
<1>1. mutex = r /\ \A q \in Readers : pc[q] \in Saved => q = r
  BY DEF Goto, Holds, Saved, AutoSaveSteps
<1>2. ~(\E q \in Readers : pc[q] \in Saved)
  BY <1>1 DEF Goto, Saved
<1>3. TypeOK'
  BY DEF TypeOK, Goto, AutoSaveSteps, ToSet
<1>4. Holds'
  BY <1>1 DEF TypeOK, Holds, Goto, Threads
<1>5. ClearsSaved'
  BY DEF TypeOK, ClearsSaved, Goto, Saved, Threads
<1>6. OnlyReceived' /\ NoBlockLost'
  BY DEF OnlyReceived, NoBlockLost
<1>7. SavedInOrder'
  <2>1. \E q \in Readers : pc'[q] \in Saved
    BY DEF TypeOK, Goto, Saved, Threads
  <2> QED
    BY <1>2, <2>1, OrderMeans, OrderMeansNext, AscendingStart DEF TypeOK
<1> QED
  BY <1>3, <1>4, <1>5, <1>6, <1>7

\* Writing a block of the buffer to the file keeps the invariant.
LEMMA WriteKeeps == ASSUME BufferIInv, NEW r \in Readers, WriteFile(r) PROVE BufferIInv'
<1> USE DEF BufferIInv
<1>1. mutex = r /\ pc[r] = "write" /\ \A q \in Readers : pc[q] \in Saved => q = r
  BY DEF WriteFile, Goto, Holds, Saved, AutoSaveSteps
<1>2. /\ file' = file \o buf /\ buf' = buf /\ file' \in Seq(Blocks)
      /\ ToSet(file') = ToSet(file) \cup ToSet(buf)
  BY ToSetConcat DEF WriteFile, TypeOK
<1>3. TypeOK'
  BY <1>2 DEF TypeOK, WriteFile, Goto, AutoSaveSteps
<1>4. Holds'
  BY <1>1 DEF TypeOK, Holds, WriteFile, Goto, Threads, AutoSaveSteps
<1>5. ClearsSaved' /\ OnlyReceived' /\ NoBlockLost'
  BY <1>2 DEF ClearsSaved, OnlyReceived, NoBlockLost, WriteFile
<1>6. SavedInOrder'
  <2>1. \E q \in Readers : pc'[q] \in Saved
    BY DEF TypeOK, WriteFile, Goto, Saved, Threads
  <2>2. ~(\E q \in Readers : pc[q] \in Saved)
    BY <1>1 DEF Saved
  <2> QED
    BY <1>2, <2>1, <2>2, OrderMeans, OrderMeansNext
<1> QED
  BY <1>3, <1>4, <1>5, <1>6

\* The buffer is emptied, by the reader that saved it or by the user.
LEMMA EmptyKeeps ==
  ASSUME BufferIInv, TypeOK', Holds', buf' = <<>>, UNCHANGED <<file, received>>,
         ToSet(buf) \subseteq ToSet(file) \cup dropped', dropped \subseteq dropped',
         \A r \in Readers : pc'[r] \notin Saved
  PROVE  BufferIInv'
<1> USE DEF BufferIInv
<1>1. ClearsSaved' /\ OnlyReceived' /\ NoBlockLost'
  BY ToSetEmpty DEF ClearsSaved, OnlyReceived, NoBlockLost
<1>2. Ascending(file)
  BY OrderMeans, AscendingStart DEF TypeOK
<1>3. file' \o buf' = file
  BY DEF TypeOK
<1>4. SavedInOrder'
  BY <1>2, <1>3, OrderMeansNext
<1> QED
  BY <1>1, <1>4

\* Every step of the readers and of the user keeps the invariant.
LEMMA BufferStep == BufferIInv /\ [Next]_vars => BufferIInv'
<1> SUFFICES ASSUME BufferIInv, [Next]_vars PROVE BufferIInv'
  OBVIOUS
<1> USE BufferAssumption DEF BufferIInv
<1>1. CASE UNCHANGED vars
  <2>1. TypeOK' /\ Holds'
    BY <1>1 DEF vars, TypeOK, Holds
  <2> QED
    BY <1>1, <2>1, Quietly DEF vars
<1>2. ASSUME NEW r \in Readers, Read(r) \/ Show(r) PROVE BufferIInv'
  <2>1. TypeOK' /\ Holds'
    BY <1>2 DEF Read, Show, Goto, TypeOK, Holds, AutoSaveSteps, Threads
  <2> QED
    BY <1>2, <2>1, Quietly DEF Read, Show, Goto, Saved, TypeOK, Threads
<1>3. ASSUME NEW r \in Readers, AppendBlock(r) PROVE BufferIInv'
  BY <1>3, AppendKeeps
<1>4. ASSUME NEW r \in Readers, GetPath(r) \/ OpenFile(r) PROVE BufferIInv'
  <2>1. CASE UNCHANGED dropped /\ (Goto(r, "path", "open") \/ Goto(r, "open", "disable"))
    <3>1. TypeOK' /\ Holds'
      BY <1>4, <2>1 DEF GetPath, OpenFile, Goto, TypeOK, Holds, AutoSaveSteps, Threads
    <3> QED
      BY <1>4, <2>1, <3>1, Quietly DEF GetPath, OpenFile, Goto, Saved, TypeOK, Threads
  <2>2. CASE ~UNCHANGED dropped \/ ~(Goto(r, "path", "open") \/ Goto(r, "open", "disable"))
    BY <1>4, <2>2, DropKeeps DEF GetPath, OpenFile
  <2> QED
    BY <2>1, <2>2
<1>5. ASSUME NEW t \in Threads, DisableClear(t) \/ EnableClear(t) PROVE BufferIInv'
  <2>1. TypeOK' /\ Holds'
    BY <1>5 DEF DisableClear, EnableClear, Goto, TypeOK, Holds, AutoSaveSteps, Threads
  <2> QED
    BY <1>5, <2>1, Quietly DEF DisableClear, EnableClear, Goto, Saved, TypeOK, Threads
<1>6. ASSUME NEW r \in Readers, WriteFile(r) PROVE BufferIInv'
  BY <1>6, WriteKeeps
<1>7. ASSUME NEW r \in Readers, ClearBuffer(r) PROVE BufferIInv'
  <2>1. pc[r] = "clear" /\ \A q \in Readers : pc[q] \in AutoSaveSteps \cup {"clear"} => q = r
    BY <1>7 DEF ClearBuffer, Goto, Holds
  <2>2. TypeOK' /\ Holds'
    BY <1>7, <2>1 DEF ClearBuffer, Goto, TypeOK, Holds, AutoSaveSteps, Threads
  <2>3. \A q \in Readers : pc'[q] \notin Saved
    BY <1>7, <2>1 DEF ClearBuffer, Goto, TypeOK, Saved, AutoSaveSteps, Threads
  <2> QED
    BY <1>7, <2>1, <2>2, <2>3, EmptyKeeps DEF ClearBuffer, ClearsSaved, Saved
<1>8. ASSUME NEW t \in Savers, ClickSave(t) \/ SaveCopy(t) PROVE BufferIInv'
  <2>1. TypeOK' /\ Holds'
    BY <1>8 DEF ClickSave, SaveCopy, Goto, TypeOK, Holds, AutoSaveSteps, Threads
  <2> QED
    BY <1>8, <2>1, Quietly DEF ClickSave, SaveCopy, Goto, Saved, TypeOK, Threads
<1>9. CASE ClearByUser
  <2>1. \A q \in Readers : pc'[q] \notin Saved
    BY <1>9 DEF ClearByUser, Holds, Saved, AutoSaveSteps
  <2>2. TypeOK' /\ Holds'
    BY <1>9 DEF ClearByUser, TypeOK, Holds, ToSet
  <2> QED
    BY <1>9, <2>1, <2>2, EmptyKeeps DEF ClearByUser
<1>10. CASE CopyForDisplay \/ ClickClear \/ ClickDisplayType \/ ClickAutoSave
            \/ \E n \in Limits : SelectLimit(n)
  <2>1. TypeOK' /\ Holds'
    BY <1>10 DEF CopyForDisplay, ClickClear, ClickDisplayType, ClickAutoSave, SelectLimit,
       TypeOK, Holds
  <2> QED
    BY <1>10, <2>1, Quietly
       DEF CopyForDisplay, ClickClear, ClickDisplayType, ClickAutoSave, SelectLimit
<1> QED
  BY <1>1, <1>2, <1>3, <1>4, <1>5, <1>6, <1>7, <1>8, <1>9, <1>10
     DEF Next, ReaderThread, SaverThread, UIHandler, Threads

(* The theorems.                                                            *)

\* However readers, automatic saving and clearing interleave, the invariant holds.
THEOREM BufferInvariant == Spec => []BufferIInv
<1> QED
  BY BufferStart, BufferStep, PTL DEF Spec

\* However the reading threads, a manual save, a clear and a change of the limit
\* interleave, the buffer and the file hold every block that was received and
\* not dropped, once and in the order of reception (NetDebuggerDlg.cpp:1349).
THEOREM BlocksAreKept == FairSpec => []ReceivedIsKept
<1>1. BufferIInv => ReceivedIsKept
  BY DEF BufferIInv, ReceivedIsKept
<1> QED
  BY <1>1, BufferInvariant, PTL DEF FairSpec

-------------------------------------------------------------------------------
(* A WebSocket connection.                                                   *)

SessionSpec == SessionInit /\ [][SessionNext]_sessionVars

UpgradeRequest  == HttpConnectString(url.tail)
UpgradeResponse ==
    HttpConnectResponseString(Status(UpgradeRequest.target),
                              ParseHttpHeaders(UpgradeRequest.headers))

Items == {UpgradeRequest, UpgradeResponse}
           \cup {Byte8(n) : n \in Int} \cup {Byte8(ByteOf(n, i)) : n, i \in Int}
           \cup [kind : {"payload"}, id : Nat, len : Nat, mask : BOOLEAN]

SessionTypeOK ==
    /\ url \in URLs /\ serverURL \in ServerURLs
    /\ upgrade \in [Sides -> {"idle", "asking", "up", "failed", "reading", "answering",
                              "refused", "dropped"}]
    /\ upgrade["client"] \in {"idle", "asking", "up", "failed"}
    /\ upgrade["server"] \in {"reading", "answering", "refused", "up", "dropped"}
    /\ wire \in [Sides -> Seq(Items)]
    /\ frame = [e \in Sides |-> frame[e]]
    /\ sent \in [Sides -> Seq(Nat \X Nat)]

\* An end reads and writes frames once it has taken the upgrade for done.
FramesAfterUpgrade == \A e \in Sides : upgrade[e] # "up" => frame[e].at = "closed"

\* Until the server has read the request nothing else is on the wire.
RequestFirst ==
    /\ upgrade["client"] = "idle" => upgrade["server"] = "reading" /\ wire["server"] = <<>>
    /\ upgrade["server"] = "reading" =>
         /\ upgrade["client"] # "up" /\ wire["client"] = <<>>
         /\ wire["server"] \in {<<>>, <<UpgradeRequest>>}

\* The response stays in front of all frames until the client has read it.
ResponseFirst ==
    upgrade["client"] = "asking" /\ upgrade["server"] # "reading" =>
        wire["client"] # <<>> /\ wire["client"][1] = UpgradeResponse

\* The server's side of the handshake says what it answered.
Answered ==
    /\ upgrade["server"] \in {"answering", "up", "dropped"} => Status(UpgradeRequest.target) = 101
    /\ upgrade["server"] = "refused" => Status(UpgradeRequest.target) # 101
    /\ upgrade["client"] = "up" =>
         /\ Status(UpgradeRequest.target) = 101
         /\ answer["Sec-WebSocket-Accept"] = Digest(Key)

SessionIInv == SessionTypeOK /\ FramesAfterUpgrade /\ RequestFirst /\ ResponseFirst /\ Answered

\* A header read back from its line has the value that the line was written with.
LEMMA HeaderRead ==
    ASSUME NEW n, NEW v
    PROVE  ParseHttpHeaders({HeaderLine(n, ": ", v)})[n] = v
<1> DEFINE l == HeaderLine(n, ": ", v)
<1>1. l.name = n /\ l.sep = ": " /\ l.value = v
    BY DEF HeaderLine
<1> HIDE DEF l
<1>2. (CHOOSE x \in {l} : x.name = n) = l
    BY <1>1
<1>3. n \in {y.name : y \in {l}}
    BY <1>1
<1>4. ParseHttpHeaders({l})[n] = v
    BY <1>1, <1>2, <1>3 DEF ParseHttpHeaders
<1> QED BY <1>4 DEF l

\* A set of positions that is not empty has a first one.
LEMMA LeastIndex ==
    ASSUME NEW S \in SUBSET Nat, S # {}
    PROVE  \E i \in S : \A j \in S : i <= j
<1>1. PICK i \in S : \A j \in S : <<j, i>> \notin OpToRel(<, Nat)
    BY NatLessThanWellFounded, WFMin
<1>2. \A j \in S : ~(j < i)
    <2> SUFFICES ASSUME NEW j \in S, j < i
                 PROVE  <<j, i>> \in OpToRel(<, Nat)
        BY <1>1
    <2>1. <<j, i>> \in Nat \X Nat /\ <<j, i>>[1] = j /\ <<j, i>>[2] = i
        OBVIOUS
    <2> QED BY <2>1 DEF OpToRel
<1> QED BY <1>2

\* Cutting the query and the fragment off a target leaves no empty path.
LEMMA PathOfSomething ==
    ASSUME NEW S, NEW q \in Seq(S), q # <<>>
    PROVE  GetHttpQueryStringPath(q) # <<>>
<1> DEFINE stops == {i \in DOMAIN q : q[i] \in {"?", "#"}}
           first == CHOOSE i \in stops : \A j \in stops : i <= j
<1>1. CASE stops = {}
    BY <1>1 DEF GetHttpQueryStringPath
<1>2. CASE stops # {} /\ first = 1
    BY <1>2 DEF GetHttpQueryStringPath
<1>3. CASE stops # {} /\ first # 1
    <2>1. stops \in SUBSET Nat
        OBVIOUS
    <2>2. \E i \in stops : \A j \in stops : i <= j
        BY <1>3, <2>1, LeastIndex
    <2>3. first \in stops
        BY <2>2
    <2>4. first \in 2..Len(q)
        BY <1>3, <2>3
    <2> HIDE DEF first
    <2>5. first - 1 \in 1..Len(q)
        BY <2>4
    <2>6. SubSeq(q, 1, first - 1) # <<>>
        BY <2>5
    <2> USE DEF first
    <2> QED BY <1>3, <2>6 DEF GetHttpQueryStringPath
<1> QED BY <1>1, <1>2, <1>3

\* There is nothing to cut off an empty path, or off the root.
LEMMA PathOfNothing ==
    /\ GetHttpQueryStringPath(<<>>) = <<>>
    /\ GetHttpQueryStringPath(<<"/">>) = <<"/">>
BY DEF GetHttpQueryStringPath

\* A server that answers 101 has compared its path with the one of the client's URL.
LEMMA PathCompared ==
    ASSUME SessionTypeOK, Status(UpgradeRequest.target) = 101, serverURL # <<>>
    PROVE  GetHttpPathCompare(GetHttpQueryStringPath(serverURL), GetHttpQueryStringPath(url.tail))
<1>1. GetHttpQueryStringPath(serverURL) # <<>>
    <2>0. serverURL \in Tails \cup ServerURLs
        BY DEF SessionTypeOK
    <2>1. serverURL \in Seq({serverURL[i] : i \in DOMAIN serverURL})
        BY <2>0, SessionAssumption
    <2> QED BY <2>1, PathOfSomething
<1>2. GetHttpPathCompare(GetHttpQueryStringPath(serverURL),
                         GetHttpQueryStringPath(UpgradeRequest.target))
    BY <1>1 DEF Status
<1>3. UpgradeRequest.target = IF url.tail = <<>> THEN <<"/">> ELSE url.tail
    BY DEF UpgradeRequest, HttpConnectString
<1>4. Unrooted(<<"/">>) = <<>> /\ Unrooted(<<>>) = <<>>
    BY DEF Unrooted
<1> QED BY <1>2, <1>3, <1>4, PathOfNothing DEF GetHttpPathCompare

\* Request and response are settled by the two URLs, which no step changes.
LEMMA ItemsStay ==
    ASSUME UNCHANGED <<url, serverURL>>
    PROVE  UpgradeRequest' = UpgradeRequest /\ UpgradeResponse' = UpgradeResponse /\ Items' = Items
BY DEF UpgradeRequest, UpgradeResponse, Items, Status

\* The server reads the client's key, and answers it with a digest of that key.
LEMMA RequestRead ==
    /\ ParseHttpHeaders(UpgradeRequest.headers)["Sec-WebSocket-Key"] = Key
    /\ UpgradeResponse.code = Status(UpgradeRequest.target)
    /\ ParseHttpHeaders(UpgradeResponse.headers)["Sec-WebSocket-Accept"] = Digest(Key)
<1>1. UpgradeRequest.headers = {HeaderLine("Sec-WebSocket-Key", ": ", Key)}
    BY DEF UpgradeRequest, HttpConnectString
<1>2. ParseHttpHeaders(UpgradeRequest.headers)["Sec-WebSocket-Key"] = Key
    BY <1>1, HeaderRead
<1>3. UpgradeResponse.headers = {HeaderLine("Sec-WebSocket-Accept", ": ", Digest(Key))}
      /\ UpgradeResponse.code = Status(UpgradeRequest.target)
    BY <1>2 DEF UpgradeResponse, HttpConnectResponseString
<1> QED BY <1>2, <1>3, HeaderRead

\* A frame is written as bytes and a payload.
LEMMA BufferItems ==
    ASSUME NEW m \in [id : Nat, len : Nat, mask : BOOLEAN, opcode : {1, 2}]
    PROVE  ToBuffer(m) \in Seq(Items)
<1> DEFINE second == ShortLength(m.len) + (IF m.mask THEN 128 ELSE 0)
<1>1. Width(m.len) \in {0, 2, 8} /\ ShortLength(m.len) \in Int
    BY DEF Width, ShortLength
<1>2. Byte8(128 + m.opcode) \in Items /\ Byte8(second) \in Items
    <2>1. \A n \in Int : Byte8(n) \in Items
        BY DEF Items
    <2>2. 128 + m.opcode \in Int /\ second \in Int
        BY <1>1
    <2> HIDE DEF second
    <2> QED BY <2>1, <2>2
<1> HIDE DEF second
<1>3. <<Byte8(128 + m.opcode), Byte8(second)>> \in Seq(Items)
    BY <1>2
<1>4. \A k \in {0, 2, 8} : BigEndian(m.len, k) \in Seq(Items)
    <2>1. \A i \in Int : Byte8(ByteOf(m.len, i)) \in Items
        BY DEF Items
    <2>2. ASSUME NEW k \in {0, 2, 8}
          PROVE  BigEndian(m.len, k) \in Seq(Items)
        <3>1. k \in Nat /\ \A i \in 1..k : k - i \in Int
            OBVIOUS
        <3>2. \A i \in 1..k : Byte8(ByteOf(m.len, k - i)) \in Items
            BY <2>1, <3>1
        <3> QED BY <3>1, <3>2 DEF BigEndian
    <2> QED BY <2>2
<1>5. Payload(m) \in Seq(Items)
    <2>1. [kind |-> "payload", id |-> m.id, len |-> m.len, mask |-> m.mask] \in Items
        BY DEF Items
    <2> QED BY <2>1 DEF Payload
<1> QED BY <1>1, <1>3, <1>4, <1>5 DEF ToBuffer, second

\* Before the client connects nothing is on the wire, and both ends are closed.
LEMMA SessionInitially == SessionInit => SessionIInv
<1> SUFFICES ASSUME SessionInit PROVE SessionIInv
    OBVIOUS
<1>1. SessionTypeOK
    BY DEF SessionInit, SessionTypeOK, Sides, Reading
<1>2. FramesAfterUpgrade
    BY DEF SessionInit, FramesAfterUpgrade, Sides, Reading
<1>3. RequestFirst /\ ResponseFirst /\ Answered
    BY DEF SessionInit, RequestFirst, ResponseFirst, Answered, Sides
<1> QED BY <1>1, <1>2, <1>3 DEF SessionIInv

\* What a step must keep, when it keeps the two ends of the handshake apart.
LEMMA SessionStep == SessionIInv /\ [SessionNext]_sessionVars => SessionIInv'
<1> SUFFICES ASSUME SessionIInv, [SessionNext]_sessionVars
             PROVE  SessionIInv'
    OBVIOUS
<1> USE DEF SessionIInv
<1>0. UNCHANGED <<url, serverURL>> /\ UpgradeRequest' = UpgradeRequest /\ UpgradeResponse' = UpgradeResponse
      /\ Items' = Items /\ Status(UpgradeRequest.target)' = Status(UpgradeRequest.target)
    <2>1. UNCHANGED <<url, serverURL>>
        BY DEF SessionNext, sessionVars, Connect, ResponseWebsocketRequest, AnswerWritten,
               ResponseRead, HandshakeFails, Write, ReadPacket, ReadPacketLength,
               ReadPacketData, EmptyIsReset, IoEnds, ConnectionBreaks
    <2> QED BY <2>1, ItemsStay DEF Status
<1>c. "client" \in Sides /\ "server" \in Sides
      /\ Peer("client") = "server" /\ Peer("server") = "client"
    BY DEF Sides, Peer
<1>1. CASE Connect
    <2>1. CASE Upgrade("client", "asking") /\ Put("server", <<UpgradeRequest>>)
        <3>1. upgrade' = [upgrade EXCEPT !["client"] = "asking"]
              /\ wire' = [wire EXCEPT !["server"] = @ \o <<UpgradeRequest>>]
              /\ UNCHANGED <<answer, frame, sent>> /\ upgrade["client"] = "idle"
            BY <1>1, <2>1 DEF Connect, Upgrade, Put
        <3>2. wire["server"] = <<>> /\ upgrade["server"] = "reading"
            BY <3>1 DEF RequestFirst
        <3>3. UpgradeRequest \in Items /\ <<>> \o <<UpgradeRequest>> = <<UpgradeRequest>>
            BY DEF Items
        <3>4. wire' = [wire EXCEPT !["server"] = <<UpgradeRequest>>]
            BY <3>1, <3>2, <3>3
        <3>5. wire' \in [Sides -> Seq(Items)]
            <4>1. <<UpgradeRequest>> \in Seq(Items)
                BY <3>3
            <4> QED BY <3>4, <4>1 DEF SessionTypeOK
        <3>6. SessionTypeOK'
            BY <1>0, <1>c, <3>1, <3>5 DEF SessionTypeOK
        <3>7. wire'["server"] = <<UpgradeRequest>> /\ wire'["client"] = wire["client"]
              /\ upgrade'["client"] = "asking" /\ upgrade'["server"] = "reading"
            BY <1>c, <3>1, <3>2, <3>4 DEF SessionTypeOK
        <3>8. RequestFirst' /\ ResponseFirst' /\ Answered'
            BY <1>0, <3>2, <3>7 DEF RequestFirst, ResponseFirst, Answered
        <3>9. FramesAfterUpgrade'
            BY <3>1, <3>2, <3>7 DEF FramesAfterUpgrade, Sides
        <3> QED BY <3>6, <3>8, <3>9
    <2>2. CASE Upgrade("client", "failed") /\ UNCHANGED wire
        BY <1>0, <1>1, <2>2
           DEF SessionTypeOK, FramesAfterUpgrade, RequestFirst, ResponseFirst,
           Answered, Connect, Upgrade, Sides
    <2>3. URLParse(url).port > 0 => URLParse(url).query = url.tail
        BY DEF URLParse
    <2> QED BY <1>1, <2>1, <2>2, <2>3 DEF Connect, UpgradeRequest
<1>2. CASE ResponseWebsocketRequest
    <2>1. wire["server"] = <<UpgradeRequest>> /\ wire["client"] = <<>> /\ Head(wire["server"]) = UpgradeRequest
        BY <1>2 DEF ResponseWebsocketRequest, RequestFirst
    <2>2. wire' = [wire EXCEPT !["server"] = <<>>, !["client"] = <<UpgradeResponse>>]
        <3>1. Append(<<>>, UpgradeResponse) = <<UpgradeResponse>> /\ Tail(<<UpgradeRequest>>) = <<>>
            OBVIOUS
        <3> QED BY <1>2, <2>1, <3>1 DEF ResponseWebsocketRequest, UpgradeResponse
    <2>3. upgrade' = [upgrade EXCEPT !["server"] = IF Status(UpgradeRequest.target) = 101
                                                   THEN "answering" ELSE "refused"]
        BY <1>2, <2>1 DEF ResponseWebsocketRequest, Upgrade
    <2>4. UNCHANGED <<frame, answer, sent>> /\ upgrade["server"] = "reading"
        BY <1>2 DEF ResponseWebsocketRequest
    <2>5. wire' \in [Sides -> Seq(Items)]
        <3>1. UpgradeResponse \in Items
            BY DEF Items
        <3>2. <<UpgradeResponse>> \in Seq(Items) /\ <<>> \in Seq(Items)
            BY <3>1
        <3> QED BY <2>2, <3>2 DEF SessionTypeOK
    <2> HIDE DEF SessionIInv
    <2>6. SessionTypeOK'
        BY <1>0, <2>3, <2>4, <2>5 DEF SessionTypeOK, Sides, SessionIInv
    <2>7. wire'["client"] = <<UpgradeResponse>> /\ upgrade'["client"] = upgrade["client"]
          /\ upgrade'["server"] = IF Status(UpgradeRequest.target) = 101 THEN "answering" ELSE "refused"
        BY <1>c, <2>2, <2>3 DEF SessionTypeOK, SessionIInv
    <2>8. upgrade["client"] \in {"asking", "failed"}
        BY <2>1, <2>4 DEF SessionTypeOK, SessionIInv, RequestFirst
    <2>9. FramesAfterUpgrade'
        BY <2>4, <2>7 DEF FramesAfterUpgrade, SessionIInv, Sides
    <2>10. RequestFirst' /\ ResponseFirst' /\ Answered'
        BY <1>0, <2>7, <2>8 DEF RequestFirst, ResponseFirst, Answered, SessionIInv
    <2> QED BY <2>6, <2>9, <2>10 DEF SessionIInv
<1>3. CASE AnswerWritten
    BY <1>0, <1>3 DEF AnswerWritten, SessionTypeOK, FramesAfterUpgrade, RequestFirst,
       ResponseFirst, Answered, Upgrade, Opens, Reading, Sides
<1>4. CASE HandshakeFails
    BY <1>0, <1>4 DEF HandshakeFails, SessionTypeOK, FramesAfterUpgrade, RequestFirst,
       ResponseFirst, Answered, Upgrade, Sides
<1>5. CASE ConnectionBreaks
    BY <1>0, <1>5 DEF ConnectionBreaks, SessionTypeOK, FramesAfterUpgrade, RequestFirst,
       ResponseFirst, Answered
<1>6. ASSUME NEW n \in 0..Len(wire["client"]), ResponseRead(n) PROVE SessionIInv'
    <2>1. upgrade["server"] # "reading" /\ Head(wire["client"]) = UpgradeResponse
        BY <1>6 DEF ResponseRead, RequestFirst, ResponseFirst, SessionTypeOK, Sides
    <2>2. wire' \in [Sides -> Seq(Items)]
        <3>1. SubSeq(wire["client"], 2 + n, Len(wire["client"])) \in Seq(Items)
            BY <1>c DEF SessionTypeOK
        <3> QED BY <1>6, <3>1 DEF ResponseRead, SessionTypeOK
    <2>3. CASE UpgradeResponse.code = 101
        <3>1. answer'["Sec-WebSocket-Accept"] = Digest(Key) /\ Status(UpgradeRequest.target) = 101
            BY <1>6, <2>1, <2>3, RequestRead DEF ResponseRead
        <3> QED BY <1>0, <1>6, <2>1, <2>2, <2>3, <3>1 DEF ResponseRead, SessionTypeOK,
               FramesAfterUpgrade, RequestFirst, ResponseFirst, Answered, Upgrade, Opens,
               Reading, Sides
    <2>4. CASE UpgradeResponse.code # 101
        <3>1. /\ upgrade' = [upgrade EXCEPT !["client"] = "failed"]
              /\ UNCHANGED <<frame, sent>> /\ upgrade["client"] = "asking"
              /\ wire'["server"] = wire["server"]
            BY <1>c, <1>6, <2>1, <2>4 DEF ResponseRead, Upgrade, SessionTypeOK
        <3>2. /\ upgrade'["client"] = "failed" /\ upgrade'["server"] = upgrade["server"]
              /\ upgrade' \in [Sides -> {"idle", "asking", "up", "failed", "reading",
                                         "answering", "refused", "dropped"}]
            BY <1>c, <3>1 DEF SessionTypeOK, Sides
        <3>3. SessionTypeOK'
            BY <1>0, <1>c, <2>2, <3>1, <3>2 DEF SessionTypeOK
        <3>4. FramesAfterUpgrade'
            BY <1>c, <3>1, <3>2 DEF FramesAfterUpgrade, Sides
        <3> QED BY <1>0, <1>c, <2>1, <3>1, <3>2, <3>3, <3>4
                DEF RequestFirst, ResponseFirst, Answered, SessionIInv
    <2> QED BY <2>3, <2>4
<1>7. ASSUME NEW e \in Sides, NEW l \in Lengths, NEW k \in BOOLEAN, NEW o \in Opcodes,
             Write(e, l, k, o)
      PROVE  SessionIInv'
    <2> DEFINE id == Len(sent["client"]) + Len(sent["server"]) + 1
               m  == [id |-> id, len |-> l, mask |-> k, opcode |-> o]
    <2>1. m \in [id : Nat, len : Nat, mask : BOOLEAN, opcode : {1, 2}] /\ Message(id, l) \in Nat \X Nat
        <3>1. l \in Nat /\ o \in {1, 2}
            <4>1. LongestLength \in Nat
                BY SMT DEF LongestLength
            <4>2. l \in 0..LongestLength /\ o \in {1, 2}
                BY SessionAssumption
            <4> QED BY <4>1, <4>2
        <3>2. id \in Nat
            BY <1>c DEF SessionTypeOK
        <3> HIDE DEF id
        <3> QED BY <3>1, <3>2 DEF Message
    <2> HIDE DEF m
    <2>2. ToBuffer(m) \in Seq(Items)
        BY <2>1, BufferItems
    <2>3. wire' = [wire EXCEPT ![e] = @ \o ToBuffer(m)]
        BY <1>7 DEF Write, Put, m
    <2>4. wire' \in [Sides -> Seq(Items)]
        BY <2>2, <2>3 DEF SessionTypeOK
    <2>5. sent' \in [Sides -> Seq(Nat \X Nat)]
        <3>1. sent' = [sent EXCEPT ![e] = Append(@, Message(id, l))]
            BY <1>7 DEF Write
        <3> HIDE DEF id
        <3> QED BY <2>1, <3>1 DEF SessionTypeOK
    <2>6. UNCHANGED <<upgrade, answer, frame>> /\ frame[Peer(e)].at # "closed"
        BY <1>7 DEF Write
    <2>7. SessionTypeOK' /\ FramesAfterUpgrade' /\ Answered'
        BY <1>0, <2>4, <2>5, <2>6 DEF SessionTypeOK, FramesAfterUpgrade, Answered
    <2>8. upgrade["client"] = "up" \/ (e = "client" /\ upgrade["server"] = "up")
        BY <1>c, <2>6 DEF FramesAfterUpgrade, Sides
    <2>9. e = "client" /\ upgrade["client"] = "asking" =>
             wire'["client"] # <<>> /\ wire'["client"][1] = wire["client"][1]
        <3> SUFFICES ASSUME e = "client", upgrade["client"] = "asking"
                     PROVE  wire'["client"] # <<>> /\ wire'["client"][1] = wire["client"][1]
            OBVIOUS
        <3>1. wire["client"] \in Seq(Items) /\ wire["client"] # <<>>
            BY <1>c, <2>8 DEF SessionTypeOK, ResponseFirst
        <3>2. wire'["client"] = wire["client"] \o ToBuffer(m)
            BY <1>c, <2>3 DEF SessionTypeOK
        <3> QED BY <2>2, <3>1, <3>2
    <2>10. RequestFirst' /\ ResponseFirst'
        BY <1>0, <2>3, <2>6, <2>8, <2>9
           DEF RequestFirst, ResponseFirst, SessionTypeOK, Sides
    <2> QED BY <2>7, <2>10
<1>8. ASSUME NEW e \in Sides, ReadPacket(e) \/ ReadPacketLength(e) \/ ReadPacketData(e)
      PROVE  SessionIInv'
    <2>1. upgrade[e] = "up"
        BY <1>8
           DEF ReadPacket, ReadPacketLength, ReadPacketData, Follows, FramesAfterUpgrade
    <2>2. \A s \in Seq(Items), k \in Nat \ {0} : SubSeq(s, k, Len(s)) \in Seq(Items)
        OBVIOUS
    <2>3. wire' \in [Sides -> Seq(Items)] /\ \A x \in Sides : x # e => wire'[x] = wire[x]
        <3> DEFINE Rest(k) == SubSeq(wire[e], k, Len(wire[e]))
        <3>1. \/ \E k \in {3, 9} : wire' = [wire EXCEPT ![e] = Rest(k)]
              \/ wire' = [wire EXCEPT ![e] = Tail(wire[e])] /\ wire[e] # <<>>
            <4>1. CASE ReadPacket(e)
                <5>1. wire' = [wire EXCEPT ![e] = Rest(3)]
                    BY <4>1 DEF ReadPacket
                <5> HIDE DEF Rest
                <5> QED BY <5>1
            <4>2. CASE ReadPacketLength(e)
                <5> DEFINE k == IF frame[e].len = 126 THEN 2 ELSE 8
                <5>1. wire' = [wire EXCEPT ![e] = Rest(k + 1)]
                    BY <4>2 DEF ReadPacketLength
                <5>2. k + 1 \in {3, 9}
                    OBVIOUS
                <5> HIDE DEF k, Rest
                <5> QED BY <5>1, <5>2
            <4>3. CASE ReadPacketData(e)
                BY <4>3 DEF ReadPacketData
            <4> QED BY <1>8, <4>1, <4>2, <4>3
        <3>2. wire[e] \in Seq(Items)
            BY DEF SessionTypeOK
        <3>3. \A k \in {3, 9} : Rest(k) \in Seq(Items)
            BY <2>2, <3>2
        <3>4. wire[e] # <<>> => Tail(wire[e]) \in Seq(Items)
            BY <3>2
        <3> HIDE DEF Rest
        <3> QED BY <3>1, <3>3, <3>4 DEF SessionTypeOK
    <2>4. frame' = [x \in Sides |-> frame'[x]] /\ \A x \in Sides : x # e => frame'[x] = frame[x]
        BY <1>8 DEF ReadPacket, ReadPacketLength, ReadPacketData, SessionTypeOK, Opens
    <2>5. UNCHANGED <<upgrade, answer, sent>>
        BY <1>8 DEF ReadPacket, ReadPacketLength, ReadPacketData
    <2> QED BY <1>0, <2>1, <2>3, <2>4, <2>5 DEF SessionTypeOK, FramesAfterUpgrade, RequestFirst,
           ResponseFirst, Answered, Sides
<1>9. ASSUME NEW e \in Sides, EmptyIsReset(e) \/ IoEnds(e)
      PROVE  SessionIInv'
    <2>1. frame' = [frame EXCEPT ![e] = Reading("closed")]
          /\ UNCHANGED <<upgrade, answer, wire, sent>>
        BY <1>9 DEF EmptyIsReset, IoEnds, Closes
    <2>2. SessionTypeOK' /\ RequestFirst' /\ ResponseFirst' /\ Answered'
        BY <1>0, <2>1 DEF SessionTypeOK, RequestFirst, ResponseFirst, Answered
    <2>3. FramesAfterUpgrade'
        BY <2>1 DEF SessionTypeOK, FramesAfterUpgrade, Reading
    <2> QED BY <2>2, <2>3
<1>10. CASE UNCHANGED sessionVars
    BY <1>0, <1>10 DEF sessionVars, SessionTypeOK, FramesAfterUpgrade, RequestFirst,
       ResponseFirst, Answered
<1> QED BY <1>1, <1>2, <1>3, <1>4, <1>5, <1>6, <1>7, <1>8, <1>9, <1>10 DEF SessionNext

\* The handshake keeps its order, whatever the two ends send, read and lose.
THEOREM SessionInvariant == SessionSpec => []SessionIInv
BY SessionInitially, SessionStep, PTL DEF SessionSpec

\* What the invariant says of a client that is up is what was to be shown.
LEMMA UpgradedAgrees == SessionIInv => UpgradesAgree
<1> SUFFICES ASSUME SessionIInv, upgrade["client"] = "up"
             PROVE  /\ upgrade["server"] \in {"answering", "up", "dropped"}
                    /\ serverURL # <<>> =>
                         GetHttpPathCompare(GetHttpQueryStringPath(serverURL),
                                            GetHttpQueryStringPath(url.tail))
                    /\ answer["Sec-WebSocket-Accept"] = Digest(Key)
    BY DEF UpgradesAgree
<1>1. SessionTypeOK /\ RequestFirst /\ Answered
    BY DEF SessionIInv
<1>2. Status(UpgradeRequest.target) = 101 /\ answer["Sec-WebSocket-Accept"] = Digest(Key)
    BY <1>1 DEF Answered
<1>3. upgrade["server"] \in {"answering", "up", "dropped"}
    BY <1>1, <1>2 DEF Answered, RequestFirst, SessionTypeOK
<1> QED BY <1>1, <1>2, <1>3, PathCompared

\* A client that takes itself for connected was answered 101 by the server, under the
\* path of its URL and to its own key.
THEOREM SessionUpgrades == SessionSpec => []UpgradesAgree
BY SessionInvariant, UpgradedAgrees, PTL

-------------------------------------------------------------------------------
(* Frames: what is on its way to an end is the rest of one message and the     *)
(* messages behind it.                                                         *)

Messages == {m \in [id : Nat, len : Nat, mask : BOOLEAN, opcode : {1, 2}] : m.len <= LongestLength}

Empty(m) == m.len = 0 /\ ~m.mask
Size(m)  == 2 + Width(m.len) + (IF Empty(m) THEN 0 ELSE 1)

\* Each item of w is one of a message of ms: item off[x] of message own[x].
Belongs(w, ms, own, off) ==
    /\ own \in [1..Len(w) -> 1..Len(ms)] /\ off \in [1..Len(w) -> Nat]
    /\ \A x \in 1..Len(w) :
         /\ off[x] \in 1..Size(ms[own[x]])
         /\ w[x] = ToBuffer(ms[own[x]])[off[x]]

\* The items of a message follow one another.
Together(w, ms, own, off) ==
    \A x \in 1..Len(w) : \A d \in Nat : off[x] + d <= Size(ms[own[x]]) =>
        x + d <= Len(w) /\ own[x + d] = own[x] /\ off[x + d] = off[x] + d

\* The last one is followed by the first of the next message, if there is one.
InTurn(w, ms, own, off) ==
    \A x \in 1..Len(w) : off[x] = Size(ms[own[x]]) =>
        IF x = Len(w) THEN own[x] = Len(ms) ELSE own[x + 1] = own[x] + 1 /\ off[x + 1] = 1

\* The first item is item o of message j.
StartsAt(w, ms, own, off, j, o) ==
    IF w = <<>> THEN j = Len(ms) + 1 /\ o = 1 ELSE own[1] = j /\ off[1] = o

\* w are the messages ms from item o of message j on.
Carries(w, ms, j, o) ==
    \E own, off :
        /\ Belongs(w, ms, own, off) /\ Together(w, ms, own, off) /\ InTurn(w, ms, own, off)
        /\ StartsAt(w, ms, own, off, j, o)

\* The widths of the length.
LEMMA Widths ==
    ASSUME NEW n \in Nat
    PROVE  /\ Width(n) \in {0, 2, 8} /\ ShortLength(n) \in 0..127
           /\ Width(n) = 0 => n < 126 /\ ShortLength(n) = n
           /\ Width(n) = 2 => n < 65536 /\ ShortLength(n) = 126
           /\ Width(n) = 8 => ShortLength(n) = 127
BY DEF Width, ShortLength

\* Two sequences joined.
LEMMA Joined ==
    ASSUME NEW S, NEW s \in Seq(S), NEW t \in Seq(S)
    PROVE  /\ s \o t \in Seq(S) /\ Len(s \o t) = Len(s) + Len(t)
           /\ \A i \in 1..Len(s) : (s \o t)[i] = s[i]
           /\ \A i \in 1..Len(t) : (s \o t)[Len(s) + i] = t[i]
OBVIOUS

\* What the header says of the width.
LEMMA Shorts ==
    ASSUME NEW n \in Nat
    PROVE  \/ Width(n) = 0
           \/ Width(n) = 2 /\ ShortLength(n) = 126
           \/ Width(n) = 8 /\ ShortLength(n) = 127
BY DEF Width, ShortLength

\* The items of a message: two bytes, the bytes of a length that does not fit
\* there, and the payload.
LEMMA BufferOf ==
    ASSUME NEW m \in Messages
    PROVE  /\ Len(ToBuffer(m)) = Size(m) /\ Size(m) \in Nat /\ Size(m) >= 2
           /\ ToBuffer(m)[2] = Byte8(ShortLength(m.len) + (IF m.mask THEN 128 ELSE 0))
           /\ \A i \in 1..Width(m.len) :
                ToBuffer(m)[2 + i] = Byte8(ByteOf(m.len, Width(m.len) - i))
           /\ ~Empty(m) => ToBuffer(m)[3 + Width(m.len)]
                = [kind |-> "payload", id |-> m.id, len |-> m.len, mask |-> m.mask]
<1> DEFINE a == Byte8(128 + m.opcode)
           b == Byte8(ShortLength(m.len) + (IF m.mask THEN 128 ELSE 0))
           k == Width(m.len)
           c == BigEndian(m.len, k)
           p == [kind |-> "payload", id |-> m.id, len |-> m.len, mask |-> m.mask]
           S == {a, b, p} \cup {c[i] : i \in 1..k}
<1>1. k \in Nat
    BY Widths DEF Messages
<1>2. c = [i \in 1..k |-> Byte8(ByteOf(m.len, k - i))]
    BY DEF BigEndian
<1> DEFINE q == Payload(m)
<1>3. q = IF Empty(m) THEN <<>> ELSE <<p>>
    BY DEF Payload, Empty
<1>4. ToBuffer(m) = <<a, b>> \o c \o q
    BY DEF ToBuffer
<1>5. Size(m) = 2 + k + (IF Empty(m) THEN 0 ELSE 1)
    BY DEF Size
<1> HIDE DEF a, b, k, p
<1>6. c \in Seq(S) /\ Len(c) = k
    BY <1>1, <1>2
<1>7. \A i \in 1..k : c[i] = Byte8(ByteOf(m.len, k - i))
    BY <1>2
<1> HIDE DEF c
<1>8. <<a, b>> \in Seq(S) /\ Len(<<a, b>>) = 2 /\ <<a, b>>[2] = b
    OBVIOUS
<1> HIDE DEF q
<1>17. p \in S
    OBVIOUS
<1> HIDE DEF S
<1>9. q \in Seq(S) /\ Len(q) = (IF Empty(m) THEN 0 ELSE 1) /\ (~Empty(m) => q[1] = p)
    <2>1. <<>> \in Seq(S) /\ <<p>> \in Seq(S) /\ Len(<<p>>) = 1 /\ <<p>>[1] = p /\ Len(<<>>) = 0
        BY <1>17
    <2> QED BY <1>3, <2>1
<1>10. DEFINE h == <<a, b>>
<1> HIDE DEF h
<1>11. h \in Seq(S) /\ Len(h) = 2 /\ h[2] = b /\ ToBuffer(m) = h \o c \o q
    BY <1>4, <1>8 DEF h
<1>12. /\ h \o c \in Seq(S) /\ Len(h \o c) = 2 + k /\ (h \o c)[2] = b
       /\ \A i \in 1..k : (h \o c)[2 + i] = c[i]
    <2>1. /\ h \o c \in Seq(S) /\ Len(h \o c) = 2 + k /\ \A i \in 1..2 : (h \o c)[i] = h[i]
          /\ \A i \in 1..k : (h \o c)[2 + i] = c[i]
        <3>1. h \in Seq(S) /\ c \in Seq(S)
            BY <1>6, <1>11
        <3>2. /\ h \o c \in Seq(S) /\ Len(h \o c) = Len(h) + Len(c)
              /\ \A i \in 1..Len(h) : (h \o c)[i] = h[i]
              /\ \A i \in 1..Len(c) : (h \o c)[Len(h) + i] = c[i]
            BY ONLY <3>1, Joined
        <3>3. Len(h) = 2 /\ Len(c) = k
            BY <1>6, <1>11
        <3> QED BY ONLY <3>2, <3>3
    <2>2. (h \o c)[2] = h[2]
        <3>1. 2 \in 1..2
            OBVIOUS
        <3> QED BY <2>1, <3>1
    <2> QED BY <1>11, <2>1, <2>2
<1> DEFINE g == h \o c
<1>13. g \in Seq(S) /\ Len(g) = 2 + k /\ g[2] = b /\ \A i \in 1..k : g[2 + i] = c[i]
    BY <1>12
<1>14. ToBuffer(m) = g \o q
    BY <1>11
<1> HIDE DEF g
<1>15. /\ Len(g \o q) = 2 + k + Len(q) /\ (g \o q)[2] = b
       /\ \A i \in 1..k : (g \o q)[2 + i] = g[2 + i]
       /\ Len(q) = 1 => (g \o q)[3 + k] = q[1]
    <2>1. \A i \in 1..2 + k : (g \o q)[i] = g[i]
        BY <1>9, <1>13, Joined
    <2>2. Len(g \o q) = 2 + k + Len(q)
        BY <1>9, <1>13, Joined
    <2>3. Len(q) = 1 => (g \o q)[2 + k + 1] = q[1]
        BY <1>9, <1>13, Joined
    <2>4. 2 + k + 1 = 3 + k /\ 2 \in 1..2 + k /\ \A i \in 1..k : 2 + i \in 1..2 + k
        BY <1>1
    <2> QED BY <1>13, <2>1, <2>2, <2>3, <2>4
<1>16. Size(m) \in Nat /\ Size(m) >= 2 /\ Size(m) = 2 + k + Len(q)
    BY <1>1, <1>5, <1>9
<1> QED
    BY <1>5, <1>7, <1>9, <1>13, <1>14, <1>15, <1>16 DEF b, k, p

\* Before anything is sent.
LEMMA CarriesNothing == Carries(<<>>, <<>>, 1, 1)
<1> DEFINE f == [x \in 1..0 |-> 1]
<1>1. f \in [1..0 -> 1..0] /\ f \in [1..0 -> Nat] /\ Len(<<>>) = 0 /\ 1..0 = {}
    OBVIOUS
<1>2. Belongs(<<>>, <<>>, f, f) /\ Together(<<>>, <<>>, f, f) /\ InTurn(<<>>, <<>>, f, f)
      /\ StartsAt(<<>>, <<>>, f, f, 1, 1)
    BY <1>1 DEF Belongs, Together, InTurn, StartsAt
<1> QED BY <1>2 DEF Carries

\* What is first on the way is an item of one of the messages.
LEMMA CarriesFirst ==
    ASSUME NEW S, NEW w \in Seq(S), w # <<>>, NEW ms, NEW j, NEW o, Carries(w, ms, j, o)
    PROVE  j \in 1..Len(ms) /\ o \in 1..Size(ms[j])
<1>1. PICK own, off : Belongs(w, ms, own, off) /\ own[1] = j /\ off[1] = o
    BY DEF Carries, StartsAt
<1>2. 1 \in 1..Len(w)
    OBVIOUS
<1> QED BY <1>1, <1>2 DEF Belongs

\* Items read off the front are those of one message, and the rest goes on behind them.
LEMMA CarriesRest ==
    ASSUME NEW S, NEW w \in Seq(S), w # <<>>, NEW ms \in Seq(Messages), NEW j, NEW o,
           Carries(w, ms, j, o), NEW k \in Nat \ {0}, o + k - 1 <= Size(ms[j])
    PROVE  /\ j \in 1..Len(ms) /\ o \in Nat /\ k <= Len(w)
           /\ \A i \in 1..k : w[i] = ToBuffer(ms[j])[o + i - 1]
           /\ o + k <= Size(ms[j]) => Carries(SubSeq(w, k + 1, Len(w)), ms, j, o + k)
           /\ o + k > Size(ms[j]) => Carries(SubSeq(w, k + 1, Len(w)), ms, j + 1, 1)
<1>1. PICK own, off :
          /\ Belongs(w, ms, own, off) /\ Together(w, ms, own, off) /\ InTurn(w, ms, own, off)
          /\ own[1] = j /\ off[1] = o
    BY DEF Carries, StartsAt
<1>2. Len(w) \in Nat \ {0} /\ Len(ms) \in Nat
    OBVIOUS
<1>3. /\ own \in [1..Len(w) -> 1..Len(ms)] /\ off \in [1..Len(w) -> Nat]
      /\ \A x \in 1..Len(w) : off[x] >= 1 /\ off[x] <= Size(ms[own[x]]) /\ off[x] \in Nat
      /\ \A x \in 1..Len(w) : w[x] = ToBuffer(ms[own[x]])[off[x]]
    BY <1>1 DEF Belongs
<1>4. j \in 1..Len(ms) /\ o \in Nat /\ o >= 1 /\ o <= Size(ms[j])
    BY <1>1, <1>2, <1>3
<1>5. \A x \in 1..Len(ms) : Size(ms[x]) \in Nat
    <2>1. \A x \in 1..Len(ms) : ms[x] \in Messages
        OBVIOUS
    <2> QED BY <2>1, BufferOf
<1>6. \A i \in 1..k : i <= Len(w) /\ own[i] = j /\ off[i] = o + i - 1
    <2> SUFFICES ASSUME NEW i \in 1..k PROVE i <= Len(w) /\ own[i] = j /\ off[i] = o + i - 1
        OBVIOUS
    <2>1. i - 1 \in Nat /\ off[1] + (i - 1) <= Size(ms[own[1]]) /\ 1 \in 1..Len(w)
        BY <1>1, <1>2, <1>4, <1>5
    <2>2. 1 + (i - 1) <= Len(w) /\ own[1 + (i - 1)] = own[1] /\ off[1 + (i - 1)] = off[1] + (i - 1)
        BY <1>1, <2>1 DEF Together
    <2> QED BY <1>1, <1>4, <2>2
<1>7. k <= Len(w) /\ own[k] = j /\ off[k] = o + k - 1
    BY <1>6
<1>8. \A i \in 1..k : w[i] = ToBuffer(ms[j])[o + i - 1]
    BY <1>3, <1>6
<1> DEFINE n    == Len(w) - k
           v    == SubSeq(w, k + 1, Len(w))
           own2 == [x \in 1..n |-> own[x + k]]
           off2 == [x \in 1..n |-> off[x + k]]
<1>9. n \in Nat /\ Len(v) = n /\ \A x \in 1..n : v[x] = w[x + k] /\ x + k \in 1..Len(w)
    BY <1>2, <1>7
<1>10. v = <<>> <=> n = 0
    <2>1. v \in Seq(S)
        BY <1>2, <1>7
    <2> HIDE DEF v
    <2> QED BY <1>9, <2>1
<1> HIDE DEF v
<1>11. /\ own2 \in [1..n -> 1..Len(ms)] /\ off2 \in [1..n -> Nat]
       /\ \A x \in 1..n : own2[x] = own[x + k] /\ off2[x] = off[x + k]
    BY <1>3, <1>9
<1> HIDE DEF own2, off2
<1>12. Belongs(v, ms, own2, off2)
    <2>1. ASSUME NEW x \in 1..n
          PROVE  off2[x] \in 1..Size(ms[own2[x]]) /\ v[x] = ToBuffer(ms[own2[x]])[off2[x]]
        <3>1. x + k \in 1..Len(w) /\ v[x] = w[x + k]
            BY <1>9
        <3>2. own[x + k] \in 1..Len(ms)
            BY <1>3, <3>1
        <3> QED BY <1>3, <1>5, <1>11, <3>1, <3>2
    <2> QED BY <1>9, <1>11, <2>1 DEF Belongs
<1>13. Together(v, ms, own2, off2)
    <2> SUFFICES ASSUME NEW x \in 1..n, NEW d \in Nat, off2[x] + d <= Size(ms[own2[x]])
                 PROVE  x + d <= n /\ own2[x + d] = own2[x] /\ off2[x + d] = off2[x] + d
        BY <1>9 DEF Together
    <2>1. x + k \in 1..Len(w) /\ off[x + k] + d <= Size(ms[own[x + k]])
        BY <1>9, <1>11
    <2>2. /\ x + k + d <= Len(w) /\ own[x + k + d] = own[x + k]
          /\ off[x + k + d] = off[x + k] + d
        BY <1>1, <2>1 DEF Together
    <2>3. x + d \in 1..n /\ x + d + k = x + k + d
        BY <1>2, <1>9, <2>2
    <2> QED BY <1>11, <2>2, <2>3
<1>14. InTurn(v, ms, own2, off2)
    <2> SUFFICES ASSUME NEW x \in 1..n, off2[x] = Size(ms[own2[x]])
                 PROVE  IF x = n THEN own2[x] = Len(ms)
                        ELSE own2[x + 1] = own2[x] + 1 /\ off2[x + 1] = 1
        BY <1>9 DEF InTurn
    <2>1. x + k \in 1..Len(w) /\ off[x + k] = Size(ms[own[x + k]])
        BY <1>9, <1>11
    <2>2. IF x + k = Len(w) THEN own[x + k] = Len(ms)
          ELSE own[x + k + 1] = own[x + k] + 1 /\ off[x + k + 1] = 1
        BY <1>1, <2>1 DEF InTurn
    <2>3. CASE x = n
        BY <1>2, <1>11, <2>2, <2>3
    <2>4. CASE x # n
        <3>1. x + k # Len(w) /\ x + 1 \in 1..n /\ x + 1 + k = x + k + 1
            BY <1>2, <1>9, <2>4
        <3> QED BY <1>11, <2>2, <2>4, <3>1
    <2> QED BY <2>3, <2>4
<1>15. ASSUME o + k <= Size(ms[j]) PROVE Carries(v, ms, j, o + k)
    <2>1. k + 1 <= Len(w) /\ own[k + 1] = own[k] /\ off[k + 1] = off[k] + 1
        <3>1. k \in 1..Len(w) /\ off[k] + 1 <= Size(ms[own[k]])
            BY <1>2, <1>4, <1>5, <1>7, <1>15
        <3> QED BY <1>1, <3>1 DEF Together
    <2>2. n >= 1 /\ own2[1] = j /\ off2[1] = o + k
        BY <1>2, <1>4, <1>7, <1>11, <2>1
    <2>3. StartsAt(v, ms, own2, off2, j, o + k)
        BY <1>10, <2>2 DEF StartsAt
    <2> QED BY <1>12, <1>13, <1>14, <2>3 DEF Carries
<1>16. ASSUME o + k > Size(ms[j]) PROVE Carries(v, ms, j + 1, 1)
    <2>1. k \in 1..Len(w) /\ off[k] = Size(ms[own[k]])
        <3>1. Size(ms[j]) \in Nat
            BY <1>4, <1>5
        <3>2. o + k - 1 = Size(ms[j])
            BY <1>4, <1>16, <3>1
        <3> QED BY <1>2, <1>7, <3>2
    <2>2. IF k = Len(w) THEN own[k] = Len(ms) ELSE own[k + 1] = own[k] + 1 /\ off[k + 1] = 1
        BY <1>1, <2>1 DEF InTurn
    <2>3. CASE k = Len(w)
        <3>1. StartsAt(v, ms, own2, off2, j + 1, 1)
            BY <1>2, <1>7, <1>10, <2>2, <2>3 DEF StartsAt
        <3> QED BY <1>12, <1>13, <1>14, <3>1 DEF Carries
    <2>4. CASE k # Len(w)
        <3>1. n >= 1 /\ own2[1] = j + 1 /\ off2[1] = 1
            BY <1>2, <1>7, <1>11, <2>2, <2>4
        <3>2. StartsAt(v, ms, own2, off2, j + 1, 1)
            BY <1>10, <3>1 DEF StartsAt
        <3> QED BY <1>12, <1>13, <1>14, <3>2 DEF Carries
    <2> QED BY <2>3, <2>4
<1> QED BY <1>4, <1>7, <1>8, <1>15, <1>16 DEF v

\* A message that is written goes behind those on their way.
LEMMA CarriesMore ==
    ASSUME NEW S, NEW w \in Seq(S), NEW ms \in Seq(Messages), NEW j, NEW o,
           Carries(w, ms, j, o), NEW m \in Messages, ToBuffer(m) \in Seq(S)
    PROVE  Carries(w \o ToBuffer(m), Append(ms, m), j, o)
<1>1. PICK own, off :
          /\ Belongs(w, ms, own, off) /\ Together(w, ms, own, off) /\ InTurn(w, ms, own, off)
          /\ StartsAt(w, ms, own, off, j, o)
    BY DEF Carries
<1> DEFINE L    == Len(w)
           B    == Len(ToBuffer(m))
           n    == Len(ms)
           ms2  == Append(ms, m)
           v    == w \o ToBuffer(m)
           own2 == [x \in 1..L + B |-> IF x <= L THEN own[x] ELSE n + 1]
           off2 == [x \in 1..L + B |-> IF x <= L THEN off[x] ELSE x - L]
<1>2. L \in Nat /\ n \in Nat /\ B \in Nat /\ B >= 2 /\ Size(m) = B
    <2>1. L \in Nat /\ n \in Nat
        OBVIOUS
    <2>2. B \in Nat /\ B >= 2 /\ Size(m) = B
        BY BufferOf
    <2> QED BY <2>1, <2>2
<1>3. Len(v) = L + B /\ (\A x \in 1..L : v[x] = w[x]) /\ \A i \in 1..B : v[L + i] = ToBuffer(m)[i]
    BY Joined
<1>4. Len(ms2) = n + 1 /\ ms2[n + 1] = m /\ \A x \in 1..n : ms2[x] = ms[x]
    OBVIOUS
<1>5. w = <<>> <=> L = 0
    OBVIOUS
<1>6. v = <<>> <=> L + B = 0
    <2>1. v \in Seq(S)
        BY Joined
    <2> QED BY <1>3, <2>1
<1> HIDE DEF v, ms2, L, B, n
<1>7. /\ own \in [1..L -> 1..n] /\ off \in [1..L -> Nat]
      /\ \A x \in 1..L : off[x] >= 1 /\ off[x] <= Size(ms[own[x]])
      /\ \A x \in 1..L : w[x] = ToBuffer(ms[own[x]])[off[x]]
    BY <1>1 DEF Belongs, L, n
<1>8. \A x \in 1..n : Size(ms[x]) \in Nat
    <2>1. \A x \in 1..n : ms[x] \in Messages
        BY DEF n
    <2> QED BY <2>1, BufferOf
<1>9. /\ \A x \in 1..L : own2[x] = own[x] /\ off2[x] = off[x] /\ own[x] \in 1..n
                           /\ own2[x] \in 1..n + 1 /\ ms2[own2[x]] = ms[own[x]]
      /\ \A x \in L + 1..L + B : own2[x] = n + 1 /\ off2[x] = x - L /\ ms2[own2[x]] = m
      /\ \A x \in 1..L + B : x \in 1..L \/ x \in L + 1..L + B
    BY <1>2, <1>4, <1>7
<1>10. own2 \in [1..L + B -> 1..n + 1] /\ off2 \in [1..L + B -> Nat]
    BY <1>2, <1>7
<1> HIDE DEF own2, off2
<1>11. Belongs(v, ms2, own2, off2)
    <2>1. ASSUME NEW x \in 1..L
          PROVE  off2[x] \in 1..Size(ms2[own2[x]]) /\ v[x] = ToBuffer(ms2[own2[x]])[off2[x]]
        BY <1>3, <1>7, <1>8, <1>9
    <2>2. ASSUME NEW x \in L + 1..L + B
          PROVE  off2[x] \in 1..Size(ms2[own2[x]]) /\ v[x] = ToBuffer(ms2[own2[x]])[off2[x]]
        <3>1. x - L \in 1..B /\ v[L + (x - L)] = ToBuffer(m)[x - L] /\ L + (x - L) = x
            BY <1>2, <1>3
        <3> QED BY <1>2, <1>9, <3>1
    <2> QED BY <1>3, <1>4, <1>9, <1>10, <2>1, <2>2 DEF Belongs
<1>12. Together(v, ms2, own2, off2)
    <2> SUFFICES ASSUME NEW x \in 1..L + B, NEW d \in Nat, off2[x] + d <= Size(ms2[own2[x]])
                 PROVE  x + d <= L + B /\ own2[x + d] = own2[x] /\ off2[x + d] = off2[x] + d
        BY <1>3 DEF Together
    <2>1. CASE x \in 1..L
        <3>1. off[x] + d <= Size(ms[own[x]])
            BY <1>9, <2>1
        <3>2. x + d <= L /\ own[x + d] = own[x] /\ off[x + d] = off[x] + d
            BY <1>1, <2>1, <3>1 DEF Together, L
        <3> QED BY <1>2, <1>9, <2>1, <3>2
    <2>2. CASE x \in L + 1..L + B
        <3>1. x - L + d <= B
            BY <1>2, <1>9, <2>2
        <3>2. x + d \in L + 1..L + B
            BY <1>2, <2>2, <3>1
        <3> QED BY <1>2, <1>9, <2>2, <3>2
    <2> QED BY <1>9, <2>1, <2>2
<1>13. InTurn(v, ms2, own2, off2)
    <2> SUFFICES ASSUME NEW x \in 1..L + B, off2[x] = Size(ms2[own2[x]])
                 PROVE  IF x = L + B THEN own2[x] = n + 1
                        ELSE own2[x + 1] = own2[x] + 1 /\ off2[x + 1] = 1
        BY <1>3, <1>4 DEF InTurn
    <2>1. CASE x \in 1..L
        <3>1. off[x] = Size(ms[own[x]])
            BY <1>9, <2>1
        <3>2. IF x = L THEN own[x] = n ELSE own[x + 1] = own[x] + 1 /\ off[x + 1] = 1
            BY <1>1, <2>1, <3>1 DEF InTurn, L, n
        <3>3. CASE x = L
            <4>1. x + 1 \in L + 1..L + B /\ x # L + B
                BY <1>2, <3>3
            <4> QED BY <1>2, <1>9, <2>1, <3>2, <3>3, <4>1
        <3>4. CASE x # L
            <4>1. x + 1 \in 1..L /\ x # L + B
                BY <1>2, <2>1, <3>4
            <4> QED BY <1>9, <2>1, <3>2, <3>4, <4>1
        <3> QED BY <3>3, <3>4
    <2>2. CASE x \in L + 1..L + B
        <3>1. x = L + B
            BY <1>2, <1>9, <2>2
        <3> QED BY <1>9, <2>2, <3>1
    <2> QED BY <1>9, <2>1, <2>2
<1>14. StartsAt(v, ms2, own2, off2, j, o)
    <2>1. CASE w = <<>>
        <3>1. j = n + 1 /\ o = 1 /\ L = 0 /\ 1 \in L + 1..L + B
            BY <1>1, <1>2, <1>5, <2>1 DEF StartsAt, n
        <3> QED BY <1>2, <1>6, <1>9, <3>1 DEF StartsAt
    <2>2. CASE w # <<>>
        <3>1. own[1] = j /\ off[1] = o /\ 1 \in 1..L
            BY <1>1, <1>2, <1>5, <2>2 DEF StartsAt
        <3> QED BY <1>2, <1>6, <1>9, <3>1 DEF StartsAt
    <2> QED BY <2>1, <2>2
<1>15. Carries(v, ms2, j, o)
    BY <1>11, <1>12, <1>13, <1>14 DEF Carries
<1> QED BY <1>15 DEF v, ms2

\* The bytes of a length are those that its places say.
LEMMA LengthBytes ==
    ASSUME NEW n \in Nat, n <= LongestLength
    PROVE  /\ \A i \in Nat : ByteOf(n, i) \in Int
           /\ \A i \in Nat : i > 3 => ByteOf(n, i) = 0
           /\ n < 65536 => n = ByteOf(n, 1) * 256 + ByteOf(n, 0)
           /\ n = ((ByteOf(n, 3) * 256 + ByteOf(n, 2)) * 256 + ByteOf(n, 1)) * 256 + ByteOf(n, 0)
<1>1. /\ ByteOf(n, 0) = n % 256 /\ ByteOf(n, 1) = (n \div 256) % 256
      /\ ByteOf(n, 2) = (n \div 65536) % 256 /\ ByteOf(n, 3) = (n \div 16777216) % 256
    BY SMT DEF ByteOf, Place
<1>2. \A i \in Nat : i > 3 => ByteOf(n, i) = 0
    BY DEF ByteOf
<1>3. ASSUME n < 65536 PROVE n = (n % 256) + ((n \div 256) % 256) * 256
    BY ONLY n \in Nat, <1>3, SMTT(30)
<1>5. n < 4294967296
    BY SMT DEF LongestLength
<1>4. n = (n % 256) + ((n \div 256) % 256) * 256 + ((n \div 65536) % 256) * 65536
            + ((n \div 16777216) % 256) * 16777216
    BY ONLY n \in Nat, <1>5, SMTT(30)
<1>6. \A i \in Nat : i > 3 \/ i \in {0, 1, 2, 3}
    OBVIOUS
<1>7. ByteOf(n, 0) \in Int /\ ByteOf(n, 1) \in Int /\ ByteOf(n, 2) \in Int /\ ByteOf(n, 3) \in Int
    BY <1>1
<1>8. \A i \in Nat : ByteOf(n, i) \in Int
    BY <1>2, <1>6, <1>7
<1>9. \A a, b, c, d \in Int :
          ((d * 256 + c) * 256 + b) * 256 + a = a + b * 256 + c * 65536 + d * 16777216
    BY SMT
<1>10. n < 65536 => n = ByteOf(n, 1) * 256 + ByteOf(n, 0)
    BY ONLY <1>1, <1>3, <1>7, SMT
<1>11. n = ByteOf(n, 0) + ByteOf(n, 1) * 256 + ByteOf(n, 2) * 65536 + ByteOf(n, 3) * 16777216
    BY ONLY <1>1, <1>4, SMT
<1>12. n = ((ByteOf(n, 3) * 256 + ByteOf(n, 2)) * 256 + ByteOf(n, 1)) * 256 + ByteOf(n, 0)
    BY ONLY <1>7, <1>9, <1>11, SMT
<1> QED BY <1>2, <1>8, <1>10, <1>12

\* A sum of bytes that meets its equations is there, and so what is read meets them.
LEMMA ValueFolded ==
    ASSUME NEW b, Len(b) \in Nat, NEW g, g = [i \in 0..Len(b) |-> g[i]],
           g[0] = 0, \A i \in 1..Len(b) : g[i] = g[i - 1] * 256 + b[i].value
    PROVE  \E f : /\ f[0] = 0 /\ \A i \in 1..Len(b) : f[i] = f[i - 1] * 256 + b[i].value
                  /\ ValueOf(b) = f[Len(b)]
<1> DEFINE f[i \in 0..Len(b)] == IF i = 0 THEN 0 ELSE f[i - 1] * 256 + b[i].value
<1>1. g = [i \in 0..Len(b) |-> IF i = 0 THEN 0 ELSE g[i - 1] * 256 + b[i].value]
    <2>1. \A i \in 0..Len(b) : i = 0 \/ i \in 1..Len(b)
        OBVIOUS
    <2> QED BY <2>1
<1>2. f = [i \in 0..Len(b) |-> IF i = 0 THEN 0 ELSE f[i - 1] * 256 + b[i].value]
    BY ONLY <1>1
<1>3. ValueOf(b) = f[Len(b)]
    BY DEF ValueOf
<1> HIDE DEF f
<1>4. f[0] = 0 /\ \A i \in 1..Len(b) : f[i] = f[i - 1] * 256 + b[i].value
    <2>1. 0 \in 0..Len(b) /\ \A i \in 1..Len(b) : i \in 0..Len(b) /\ i # 0
        OBVIOUS
    <2>2. \A i \in 0..Len(b) : f[i] = IF i = 0 THEN 0 ELSE f[i - 1] * 256 + b[i].value
        BY ONLY <1>2
    <2> QED BY <2>1, <2>2
<1> QED BY <1>3, <1>4

\* A length is read as it was written, in two bytes and in eight.
LEMMA LengthReadBack ==
    ASSUME NEW n \in Nat, n <= LongestLength, Width(n) # 0,
           NEW b, Len(b) = Width(n), \A i \in 1..Width(n) : b[i] = Byte8(ByteOf(n, Width(n) - i))
    PROVE  ValueOf(b) = n
<1> DEFINE k    == Width(n)
           v(i) == b[i].value
<1>1. \A i \in 1..k : v(i) = ByteOf(n, k - i)
    BY DEF Byte8
<1>2. k \in {2, 8} /\ (k = 2 => n < 65536)
    BY Widths
<1> HIDE DEF k
<1>3. CASE k = 2
    <2> DEFINE g == [i \in 0..2 |-> IF i = 0 THEN 0 ELSE IF i = 1 THEN v(1) ELSE v(1) * 256 + v(2)]
    <2>1. v(1) = ByteOf(n, 1) /\ v(2) = ByteOf(n, 0)
        BY <1>1, <1>3
    <2>2. v(1) \in Int /\ v(2) \in Int
        BY <2>1, LengthBytes
    <2> HIDE DEF v
    <2>3. g = [i \in 0..2 |-> IF i = 0 THEN 0 ELSE g[i - 1] * 256 + v(i)]
        <3>1. \A i \in 0..2 : i \in {0, 1, 2}
            OBVIOUS
        <3> QED BY <2>2, <3>1
    <2> HIDE DEF g
    <2>4. PICK f : /\ f[0] = 0 /\ \A i \in 1..2 : f[i] = f[i - 1] * 256 + v(i)
                   /\ ValueOf(b) = f[2]
        <3>1. Len(b) = 2
            BY <1>3 DEF k
        <3>2. g = [i \in 0..Len(b) |-> g[i]] /\ g[0] = 0
              /\ \A i \in 1..Len(b) : g[i] = g[i - 1] * 256 + b[i].value
            BY <2>3, <3>1 DEF v
        <3>3. Len(b) \in Nat
            BY <3>1
        <3>4. \E f : /\ f[0] = 0 /\ \A i \in 1..Len(b) : f[i] = f[i - 1] * 256 + b[i].value
                     /\ ValueOf(b) = f[Len(b)]
            BY ONLY <3>2, <3>3, ValueFolded
        <3> QED BY <3>1, <3>4 DEF v
    <2>5. f[0] = 0 /\ f[1] = f[0] * 256 + v(1) /\ f[2] = f[1] * 256 + v(2)
        BY <2>4
    <2>6. f[2] = v(1) * 256 + v(2)
        BY <2>2, <2>5
    <2>7. n = v(1) * 256 + v(2)
        BY <1>2, <1>3, <2>1, LengthBytes
    <2> QED BY <2>4, <2>6, <2>7
<1>4. CASE k = 8
    <2> DEFINE h(i) == IF i < 5 THEN 0
                       ELSE IF i = 5 THEN v(5)
                       ELSE IF i = 6 THEN v(5) * 256 + v(6)
                       ELSE IF i = 7 THEN (v(5) * 256 + v(6)) * 256 + v(7)
                       ELSE ((v(5) * 256 + v(6)) * 256 + v(7)) * 256 + v(8)
               g == [i \in 0..8 |-> h(i)]
    <2>1. /\ v(5) = ByteOf(n, 3) /\ v(6) = ByteOf(n, 2) /\ v(7) = ByteOf(n, 1)
          /\ v(8) = ByteOf(n, 0) /\ \A i \in 1..4 : v(i) = 0
        <3>1. v(5) = ByteOf(n, 3) /\ v(6) = ByteOf(n, 2) /\ v(7) = ByteOf(n, 1) /\ v(8) = ByteOf(n, 0)
            BY <1>1, <1>4
        <3>2. \A i \in 1..4 : v(i) = ByteOf(n, 8 - i) /\ 8 - i \in Nat /\ 8 - i > 3
            BY <1>1, <1>4
        <3>4. \A i \in Nat : i > 3 => ByteOf(n, i) = 0
            BY LengthBytes
        <3>3. \A i \in 1..4 : v(i) = 0
            BY <3>2, <3>4
        <3> QED BY <3>1, <3>3
    <2>2. v(5) \in Int /\ v(6) \in Int /\ v(7) \in Int /\ v(8) \in Int
        BY <2>1, LengthBytes
    <2> HIDE DEF v
    <2>3. g = [i \in 0..8 |-> IF i = 0 THEN 0 ELSE g[i - 1] * 256 + v(i)]
        <3>1. \A i \in 0..8 : i \in {0, 1, 2, 3, 4, 5, 6, 7, 8}
            OBVIOUS
        <3>2. h(0) = 0 /\ \A i \in 1..8 : h(i) = h(i - 1) * 256 + v(i)
            <4>1. h(0) = 0 /\ \A i \in {1, 2, 3, 4} : h(i) = h(i - 1) * 256 + v(i)
                BY <2>1
            <4>2. h(5) = h(4) * 256 + v(5) /\ h(6) = h(5) * 256 + v(6)
                BY <2>2
            <4>3. h(7) = h(6) * 256 + v(7) /\ h(8) = h(7) * 256 + v(8)
                BY <2>2
            <4>4. \A i \in 1..8 : i \in {1, 2, 3, 4} \/ i = 5 \/ i = 6 \/ i = 7 \/ i = 8
                OBVIOUS
            <4>5. 5 - 1 = 4 /\ 6 - 1 = 5 /\ 7 - 1 = 6 /\ 8 - 1 = 7
                OBVIOUS
            <4> HIDE DEF h
            <4> QED BY <4>1, <4>2, <4>3, <4>4, <4>5
        <3> HIDE DEF h
        <3>3. \A i \in 0..8 : g[i] = h(i) /\ (i # 0 => i \in 1..8 /\ g[i - 1] = h(i - 1))
            OBVIOUS
        <3>4. \A i \in 0..8 : h(i) = IF i = 0 THEN 0 ELSE g[i - 1] * 256 + v(i)
            BY <3>2, <3>3
        <3> QED BY <3>4
    <2> HIDE DEF g
    <2>4. PICK f : /\ f[0] = 0 /\ \A i \in 1..8 : f[i] = f[i - 1] * 256 + v(i)
                   /\ ValueOf(b) = f[8]
        <3>1. Len(b) = 8
            BY <1>4 DEF k
        <3>2. g = [i \in 0..Len(b) |-> g[i]] /\ g[0] = 0
              /\ \A i \in 1..Len(b) : g[i] = g[i - 1] * 256 + b[i].value
            BY <2>3, <3>1 DEF v
        <3>3. Len(b) \in Nat
            BY <3>1
        <3>4. \E f : /\ f[0] = 0 /\ \A i \in 1..Len(b) : f[i] = f[i - 1] * 256 + b[i].value
                     /\ ValueOf(b) = f[Len(b)]
            BY ONLY <3>2, <3>3, ValueFolded
        <3> QED BY <3>1, <3>4 DEF v
    <2>5. f[0] = 0 /\ \A i \in 1..8 : f[i] = f[i - 1] * 256 + v(i)
        BY <2>4
    <2>6. f[1] = 0 /\ f[2] = 0 /\ f[3] = 0 /\ f[4] = 0
        BY <2>1, <2>5
    <2>7. f[5] = v(5) /\ f[6] = v(5) * 256 + v(6)
        BY <2>2, <2>5, <2>6
    <2>8. f[8] = ((v(5) * 256 + v(6)) * 256 + v(7)) * 256 + v(8)
        <3>1. f[7] = f[6] * 256 + v(7) /\ f[8] = f[7] * 256 + v(8)
            BY <2>5
        <3> QED BY <2>7, <3>1
    <2>9. n = ((v(5) * 256 + v(6)) * 256 + v(7)) * 256 + v(8)
        BY <2>1, LengthBytes
    <2> QED BY <2>4, <2>8, <2>9
<1> QED BY <1>2, <1>3, <1>4

\* An end that waits for the handshake to end, and will then read frames.
Awaits(e) ==
    IF e = "client" THEN upgrade["client"] = "asking" /\ upgrade["server"] # "reading"
    ELSE upgrade["server"] = "answering"

Followed(e) == Follows(e) \/ Awaits(e)

\* The frames on their way to e.
Frames(e) ==
    IF e = "client" /\ upgrade["client"] = "asking" THEN Tail(wire[e]) ELSE wire[e]

Said(e, ms) ==
    Len(ms) = Len(sent[e]) /\ \A j \in 1..Len(ms) : sent[e][j] = Message(ms[j].id, ms[j].len)

\* An end that has read n messages has the next one before it, up to what it has
\* taken of it already.
ReadsNext(f, w, ms, n) ==
    /\ f.at \in {"closed", "header"} => Carries(w, ms, n + 1, 1)
    /\ f.at \in {"length", "data"} => n + 1 <= Len(ms) /\ f.mask = ms[n + 1].mask
    /\ f.at = "length" =>
         /\ Width(ms[n + 1].len) # 0 /\ f.len = ShortLength(ms[n + 1].len)
         /\ Carries(w, ms, n + 1, 3)
    /\ f.at = "data" =>
         /\ f.len = ms[n + 1].len
         /\ Empty(ms[n + 1]) => Carries(w, ms, n + 2, 1)
         /\ ~Empty(ms[n + 1]) => Carries(w, ms, n + 1, 3 + Width(ms[n + 1].len))

\* What is sent to an end and not read yet is on its way to it.
OnItsWay(e) ==
    Followed(e) => \E ms \in Seq(Messages) :
                 Said(e, ms) /\ ReadsNext(frame[e], Frames(e), ms, Len(got[e]))

\* What has been read is what was sent first.
ReadsSent(e) ==
    Len(got[e]) <= Len(sent[e]) /\ \A i \in 1..Len(got[e]) : got[e][i] = sent[e][i]

NothingSentFirst ==
    upgrade["server"] = "reading" => \A e \in Sides : sent[e] = <<>> /\ got[e] = <<>>

FrameTypeOK ==
    /\ frame \in [Sides -> [at : {"closed", "header", "length", "data"}, len : Nat, mask : BOOLEAN]]
    /\ got \in [Sides -> Seq(Nat \X Nat)]

WholeIInv ==
    /\ SessionIInv /\ FrameTypeOK /\ NothingSentFirst
    /\ \A e \in Sides : ReadsSent(e) /\ OnItsWay(e)

\* A step that leaves an end alone.
LEMMA SideStays ==
    ASSUME NEW e \in Sides, OnItsWay(e), ReadsSent(e), Followed(e)' => Followed(e),
           frame'[e] = frame[e], Frames(e)' = Frames(e), sent'[e] = sent[e], got'[e] = got[e]
    PROVE  OnItsWay(e)' /\ ReadsSent(e)'
<1>1. ReadsSent(e)'
    BY DEF ReadsSent
<1>2. ASSUME Followed(e)' PROVE OnItsWay(e)'
    <2>1. PICK ms \in Seq(Messages) :
              Said(e, ms) /\ ReadsNext(frame[e], Frames(e), ms, Len(got[e]))
        BY <1>2 DEF OnItsWay
    <2>2. Said(e, ms)' /\ ReadsNext(frame'[e], Frames(e)', ms, Len(got'[e]))
        BY <2>1 DEF Said
    <2> QED BY <2>2 DEF OnItsWay
<1> QED BY <1>1, <1>2 DEF OnItsWay

\* A step after which an end is no longer followed.
LEMMA SideLeft ==
    ASSUME NEW e \in Sides, ReadsSent(e), ~Followed(e)', sent'[e] = sent[e], got'[e] = got[e]
    PROVE  OnItsWay(e)' /\ ReadsSent(e)'
BY DEF OnItsWay, ReadsSent

\* An end that reads has upgraded, and all that is on its way is frames.
LEMMA FollowsUp ==
    ASSUME SessionIInv, NEW e \in Sides, frame[e].at # "closed"
    PROVE  upgrade[e] = "up" /\ ~Awaits(e) /\ Frames(e) = wire[e] /\ wire[e] \in Seq(Items)
<1>1. upgrade[e] = "up"
    BY DEF SessionIInv, FramesAfterUpgrade
<1> QED BY <1>1 DEF Awaits, Frames, Sides, SessionIInv, SessionTypeOK

\* The step of one end that reads does not concern the other.
LEMMA OtherSide ==
    ASSUME WholeIInv, NEW e \in Sides, NEW x \in Sides, x # e, upgrade' = upgrade, mixed' = mixed,
           frame'[x] = frame[x], wire'[x] = wire[x], sent'[x] = sent[x], got'[x] = got[x]
    PROVE  OnItsWay(x)' /\ ReadsSent(x)'
<1>1. Followed(x)' = Followed(x) /\ Frames(x)' = Frames(x)
    BY DEF Followed, Awaits, Follows, Frames
<1> QED BY <1>1, SideStays DEF WholeIInv

\* The two bytes of a header give the length, or say how many bytes it has, and
\* whether there is a masking key.
LEMMA HeaderTold ==
    ASSUME NEW m \in Messages, NEW b, b = ToBuffer(m)[2]
    PROVE  b.value % 128 = ShortLength(m.len) /\ (b.value >= 128 <=> m.mask)
<1>1. b.value = ShortLength(m.len) + (IF m.mask THEN 128 ELSE 0)
    <2> DEFINE x == ShortLength(m.len) + (IF m.mask THEN 128 ELSE 0)
    <2>1. b = Byte8(x)
        BY BufferOf
    <2> HIDE DEF x
    <2>2. b.value = x
        BY <2>1 DEF Byte8
    <2> QED BY <2>2 DEF x
<1>2. ShortLength(m.len) \in 0..127 /\ m.mask \in BOOLEAN
    BY Widths DEF Messages
<1>3. \A n \in 0..127 : n % 128 = n /\ (n + 128) % 128 = n /\ (n + 128 >= 128) /\ ~(n >= 128)
    BY SMT
<1> QED BY <1>1, <1>2, <1>3

\* The header of a frame is read.
LEMMA HeaderTaken ==
    ASSUME WholeIInv, NEW e \in Sides, ReadPacket(e)
    PROVE  FrameTypeOK' /\ OnItsWay(e)' /\ ReadsSent(e)'
<1>1. /\ Follows(e) /\ frame[e].at = "header" /\ HeaderAt(e) /\ Followed(e)
      /\ UNCHANGED <<upgrade, sent, got, mixed>>
    BY DEF ReadPacket, Followed
<1> DEFINE w      == wire[e]
           v      == SubSeq(w, 3, Len(w))
           n      == Len(got[e])
           second == w[2].value
           short  == second % 128
           f      == [at |-> IF short < 126 THEN "data" ELSE "length",
                      len |-> short, mask |-> second >= 128]
<1>2. frame' = [frame EXCEPT ![e] = f] /\ wire' = [wire EXCEPT ![e] = v]
    BY DEF ReadPacket
<1>3. /\ upgrade[e] = "up" /\ ~Awaits(e) /\ Frames(e) = w /\ w \in Seq(Items)
      /\ wire = [x \in Sides |-> wire[x]]
      /\ frame \in [Sides -> [at : {"closed", "header", "length", "data"}, len : Nat, mask : BOOLEAN]]
      /\ got \in [Sides -> Seq(Nat \X Nat)]
    BY <1>1, FollowsUp DEF WholeIInv, SessionIInv, SessionTypeOK, FrameTypeOK
<1>4. PICK ms \in Seq(Messages) : Said(e, ms) /\ ReadsNext(frame[e], Frames(e), ms, n)
    BY <1>1 DEF WholeIInv, OnItsWay
<1>5. Carries(w, ms, n + 1, 1) /\ Len(w) >= 2 /\ w # <<>> /\ n \in Nat
    BY <1>1, <1>3, <1>4 DEF ReadsNext, HeaderAt
<1>6. n + 1 \in 1..Len(ms)
    BY <1>3, <1>5, CarriesFirst
<1> DEFINE m == ms[n + 1]
<1>7. m \in Messages
    BY <1>6
<1> HIDE DEF m, n, w, f
<1>8. Size(m) >= 2 /\ Size(m) \in Nat
    BY <1>7, BufferOf
<1>9. /\ w[2] = ToBuffer(m)[2]
      /\ Size(m) >= 3 => Carries(v, ms, n + 1, 3)
      /\ Size(m) < 3 => Carries(v, ms, n + 2, 1)
    <2>1. 2 \in Nat \ {0} /\ 1 + 2 - 1 <= Size(ms[n + 1]) /\ 1 \in Nat
        BY <1>8 DEF m
    <2>2. /\ \A i \in 1..2 : w[i] = ToBuffer(ms[n + 1])[1 + i - 1]
          /\ 1 + 2 <= Size(ms[n + 1]) => Carries(SubSeq(w, 2 + 1, Len(w)), ms, n + 1, 1 + 2)
          /\ 1 + 2 > Size(ms[n + 1]) => Carries(SubSeq(w, 2 + 1, Len(w)), ms, n + 1 + 1, 1)
        <3>1. w \in Seq(Items) /\ w # <<>> /\ ms \in Seq(Messages) /\ Carries(w, ms, n + 1, 1)
            BY <1>3, <1>5
        <3> QED BY ONLY <2>1, <3>1, CarriesRest
    <2>3. 1 + 2 = 3 /\ 2 + 1 = 3 /\ n + 1 + 1 = n + 2 /\ 1 + 2 - 1 = 2 /\ 2 \in 1..2
        BY <1>5
    <2> QED BY <1>8, <2>2, <2>3 DEF m
<1>10. short = ShortLength(m.len) /\ (second >= 128 <=> m.mask)
    BY <1>7, <1>9, HeaderTold
<1> HIDE DEF short, second
<1>11. /\ Size(m) = 2 + Width(m.len) + (IF Empty(m) THEN 0 ELSE 1)
       /\ Width(m.len) \in {0, 2, 8} /\ ShortLength(m.len) \in 0..127
       /\ Width(m.len) = 0 => m.len < 126 /\ ShortLength(m.len) = m.len
       /\ Width(m.len) # 0 => ShortLength(m.len) >= 126
       /\ m.mask \in BOOLEAN /\ m.len \in Nat /\ (Width(m.len) = 0 \/ ~Empty(m))
    <2>1. m.mask \in BOOLEAN /\ m.len \in Nat
        BY <1>7 DEF Messages
    <2>2. Width(m.len) # 0 => ~Empty(m)
        BY <2>1 DEF Empty, Width
    <2> QED BY <2>1, <2>2, Widths DEF Size
<1>12. /\ f.at = (IF Width(m.len) = 0 THEN "data" ELSE "length")
       /\ f.len = ShortLength(m.len) /\ f.mask = m.mask
       /\ f \in [at : {"closed", "header", "length", "data"}, len : Nat, mask : BOOLEAN]
    <2>6. short \in Nat /\ (Width(m.len) # 0 => short >= 126)
        <3>1. ShortLength(m.len) \in 0..127 /\ (Width(m.len) # 0 => ShortLength(m.len) >= 126)
            BY <1>11
        <3>2. short = ShortLength(m.len)
            BY <1>10
        <3>3. short \in 0..127
            BY <3>1, <3>2
        <3>4. short \in Nat
            BY <3>3
        <3>5. Width(m.len) # 0 => short >= 126
            BY <3>1, <3>2
        <3> QED BY <3>4, <3>5
    <2>1. short < 126 <=> Width(m.len) = 0
        <3>1. CASE Width(m.len) = 0
            BY <1>10, <1>11, <3>1
        <3>2. CASE Width(m.len) # 0
            BY <2>6, <3>2
        <3> QED BY <3>1, <3>2
    <2>2. (second >= 128) = m.mask
        BY <1>10, <1>11
    <2>3. f.at = IF short < 126 THEN "data" ELSE "length"
        BY DEF f
    <2>4. f.len = short /\ f.mask = (second >= 128) /\ f = [at |-> f.at, len |-> f.len, mask |-> f.mask]
        BY DEF f
    <2>5. f.at = (IF Width(m.len) = 0 THEN "data" ELSE "length")
        BY <2>1, <2>3
    <2> QED BY <1>10, <1>11, <2>2, <2>4, <2>5, <2>6
<1>13. ReadsNext(f, v, ms, n)
    <2>1. CASE Width(m.len) = 0
        <3>1. f.at = "data" /\ f.len = m.len
            BY <1>11, <1>12, <2>1
        <3>2. Empty(m) => Size(m) < 3
            BY <1>11, <2>1
        <3>3. ~Empty(m) => Size(m) >= 3 /\ 3 + Width(m.len) = 3
            BY <1>11, <2>1
        <3> QED BY <1>6, <1>9, <1>12, <3>1, <3>2, <3>3 DEF ReadsNext, m
    <2>2. CASE Width(m.len) # 0
        <3>1. f.at = "length" /\ f.len = ShortLength(m.len) /\ Size(m) >= 3
            BY <1>11, <1>12, <2>2
        <3> QED BY <1>6, <1>9, <1>12, <2>2, <3>1 DEF ReadsNext, m
    <2> QED BY <2>1, <2>2
<1>14. frame'[e] = f /\ wire'[e] = v /\ FrameTypeOK'
    BY <1>1, <1>2, <1>3, <1>12 DEF FrameTypeOK, w
<1>15. Frames(e)' = v /\ Said(e, ms)' /\ Len(got'[e]) = n
    BY <1>1, <1>3, <1>4, <1>14 DEF Frames, Said, n
<1>16. ReadsSent(e)'
    BY <1>1 DEF WholeIInv, ReadsSent
<1>17. OnItsWay(e)'
    BY <1>13, <1>14, <1>15 DEF OnItsWay
<1> QED BY <1>14, <1>16, <1>17

\* The bytes of a longer length are read.
LEMMA LengthTaken ==
    ASSUME WholeIInv, NEW e \in Sides, ReadPacketLength(e)
    PROVE  FrameTypeOK' /\ OnItsWay(e)' /\ ReadsSent(e)'
<1> DEFINE w     == wire[e]
           n     == Len(got[e])
           k     == IF frame[e].len = 126 THEN 2 ELSE 8
           bytes == SubSeq(w, 1, k)
           v     == SubSeq(w, k + 1, Len(w))
<1>1. /\ Follows(e) /\ frame[e].at = "length" /\ Len(w) >= k /\ Followed(e)
      /\ UNCHANGED <<upgrade, sent, got, mixed>>
      /\ frame' = [frame EXCEPT ![e] = [at |-> "data", len |-> ValueOf(bytes), mask |-> @.mask]]
      /\ wire' = [wire EXCEPT ![e] = v]
    BY DEF ReadPacketLength, Followed
<1>2. /\ upgrade[e] = "up" /\ ~Awaits(e) /\ Frames(e) = w /\ w \in Seq(Items)
      /\ wire = [x \in Sides |-> wire[x]]
      /\ frame \in [Sides -> [at : {"closed", "header", "length", "data"}, len : Nat, mask : BOOLEAN]]
      /\ got \in [Sides -> Seq(Nat \X Nat)]
    BY <1>1, FollowsUp DEF WholeIInv, SessionIInv, SessionTypeOK, FrameTypeOK
<1>3. PICK ms \in Seq(Messages) : Said(e, ms) /\ ReadsNext(frame[e], Frames(e), ms, n)
    BY <1>1 DEF WholeIInv, OnItsWay
<1> DEFINE m == ms[n + 1]
<1>4. /\ n \in Nat /\ n + 1 <= Len(ms) /\ n + 1 \in 1..Len(ms)
      /\ frame[e].mask = m.mask /\ Width(m.len) # 0 /\ frame[e].len = ShortLength(m.len)
      /\ Carries(w, ms, n + 1, 3)
    <2>1. n \in Nat /\ Len(ms) \in Nat
        BY <1>2
    <2>2. n + 1 <= Len(ms)
        BY <1>1, <1>3 DEF ReadsNext
    <2>3. n + 1 \in 1..Len(ms)
        BY <2>1, <2>2
    <2> QED BY <1>1, <1>2, <1>3, <2>1, <2>2, <2>3 DEF ReadsNext
<1>5. m \in Messages
    BY <1>4
<1> HIDE DEF m, n
<1>6. m.len \in Nat /\ m.len <= LongestLength /\ ~Empty(m) /\ m.mask \in BOOLEAN
    BY <1>4, <1>5 DEF Messages, Empty, Width
<1>7. k = Width(m.len) /\ k \in {2, 8}
    <2>1. \/ Width(m.len) = 2 /\ ShortLength(m.len) = 126
          \/ Width(m.len) = 8 /\ ShortLength(m.len) = 127
        BY <1>4, <1>6, Shorts
    <2> QED BY <1>4, <2>1
<1>8. Size(m) = 3 + k
    BY <1>6, <1>7 DEF Size
<1> HIDE DEF w, k
<1>9. w # <<>> /\ Len(w) \in Nat
    BY <1>1, <1>2, <1>7
<1>10. /\ \A i \in 1..k : w[i] = ToBuffer(m)[2 + i]
       /\ Carries(v, ms, n + 1, 3 + k)
    <2>1. k \in Nat \ {0} /\ 3 + k - 1 <= Size(ms[n + 1]) /\ 3 + k <= Size(ms[n + 1])
        BY <1>7, <1>8 DEF m
    <2>2. /\ \A i \in 1..k : w[i] = ToBuffer(ms[n + 1])[3 + i - 1]
          /\ 3 + k <= Size(ms[n + 1]) => Carries(SubSeq(w, k + 1, Len(w)), ms, n + 1, 3 + k)
        <3>1. w \in Seq(Items) /\ w # <<>> /\ ms \in Seq(Messages) /\ Carries(w, ms, n + 1, 3)
            BY <1>2, <1>4, <1>9
        <3> QED BY ONLY <2>1, <3>1, CarriesRest
    <2>3. \A i \in 1..k : 3 + i - 1 = 2 + i
        BY <1>7
    <2> QED BY <2>1, <2>2, <2>3 DEF m
<1>11. ValueOf(bytes) = m.len
    <2>1. Len(bytes) = k /\ \A i \in 1..k : bytes[i] = w[i]
        BY <1>1, <1>2, <1>7
    <2> HIDE DEF bytes
    <2>2. \A i \in 1..Width(m.len) : ToBuffer(m)[2 + i] = Byte8(ByteOf(m.len, Width(m.len) - i))
        BY <1>5, BufferOf
    <2>3. \A i \in 1..Width(m.len) : bytes[i] = Byte8(ByteOf(m.len, Width(m.len) - i))
        BY <1>7, <1>10, <2>1, <2>2
    <2> QED BY <1>4, <1>6, <1>7, <2>1, <2>3, LengthReadBack
<1> DEFINE f == [at |-> "data", len |-> m.len, mask |-> m.mask]
<1>12. frame'[e] = f /\ wire'[e] = v /\ FrameTypeOK'
    <2>1. frame' = [frame EXCEPT ![e] = f]
        BY <1>1, <1>2, <1>4, <1>11
    <2>3. f \in [at : {"closed", "header", "length", "data"}, len : Nat, mask : BOOLEAN]
        BY <1>6
    <2> HIDE DEF f, v
    <2> QED BY <1>1, <1>2, <2>1, <2>3 DEF FrameTypeOK
<1>13. ReadsNext(f, v, ms, n)
    BY <1>4, <1>6, <1>7, <1>10 DEF ReadsNext, m
<1> HIDE DEF f, v
<1>14. Frames(e)' = v /\ Said(e, ms)' /\ Len(got'[e]) = n
    BY <1>1, <1>2, <1>3, <1>12 DEF Frames, Said, n
<1>15. ReadsSent(e)'
    BY <1>1 DEF WholeIInv, ReadsSent
<1>16. OnItsWay(e)'
    BY <1>12, <1>13, <1>14 DEF OnItsWay
<1> QED BY <1>12, <1>15, <1>16

\* The payload is read, and the message is handed over.
LEMMA DataTaken ==
    ASSUME WholeIInv, NEW e \in Sides, ReadPacketData(e)
    PROVE  FrameTypeOK' /\ OnItsWay(e)' /\ ReadsSent(e)'
<1> DEFINE w     == wire[e]
           n     == Len(got[e])
           p     == Head(w)
           f     == frame[e]
           whole == /\ p.kind = "payload" /\ p.mask = f.mask
                    /\ p.len + MaskSize(p.mask) = f.len + MaskSize(f.mask)
           item  == Message(IF whole THEN p.id ELSE Garbage, f.len)
           v     == Tail(w)
           h     == Reading("header")
<1>1. /\ Follows(e) /\ f.at = "data" /\ w # <<>> /\ f.len + MaskSize(f.mask) > 0 /\ Followed(e)
      /\ UNCHANGED <<upgrade, sent, mixed>>
      /\ got' = [got EXCEPT ![e] = Append(@, item)] /\ frame' = [frame EXCEPT ![e] = h]
      /\ wire' = [wire EXCEPT ![e] = v]
    BY DEF ReadPacketData, Followed, Opens
<1>2. /\ upgrade[e] = "up" /\ ~Awaits(e) /\ Frames(e) = w /\ w \in Seq(Items)
      /\ wire = [x \in Sides |-> wire[x]]
      /\ frame \in [Sides -> [at : {"closed", "header", "length", "data"}, len : Nat, mask : BOOLEAN]]
      /\ got \in [Sides -> Seq(Nat \X Nat)]
    BY <1>1, FollowsUp DEF WholeIInv, SessionIInv, SessionTypeOK, FrameTypeOK
<1>3. PICK ms \in Seq(Messages) : Said(e, ms) /\ ReadsNext(frame[e], Frames(e), ms, n)
    BY <1>1 DEF WholeIInv, OnItsWay
<1> DEFINE m == ms[n + 1]
<1>4. n \in Nat /\ n + 1 \in 1..Len(ms)
    <2>1. n \in Nat /\ Len(ms) \in Nat
        BY <1>2
    <2>2. n + 1 <= Len(ms)
        BY <1>1, <1>3 DEF ReadsNext
    <2> QED BY <2>1, <2>2
<1>5. m \in Messages
    BY <1>4
<1>6. /\ f.len = m.len /\ f.mask = m.mask /\ m.len \in Nat /\ m.mask \in BOOLEAN /\ m.id \in Nat
      /\ ~Empty(m) => Carries(w, ms, n + 1, 3 + Width(m.len))
    BY <1>1, <1>2, <1>3, <1>5 DEF ReadsNext, Messages
<1>7. ~Empty(m)
    BY <1>1, <1>6 DEF Empty, MaskSize
<1> HIDE DEF m, n
<1>8. Size(m) = 3 + Width(m.len) /\ Width(m.len) \in Nat
    BY <1>6, <1>7, Widths DEF Size
<1>9. /\ w[1] = ToBuffer(m)[3 + Width(m.len)]
      /\ Carries(SubSeq(w, 2, Len(w)), ms, n + 2, 1)
    <2> DEFINE o == 3 + Width(m.len)
    <2>1. 1 \in Nat \ {0} /\ o + 1 - 1 <= Size(ms[n + 1]) /\ o + 1 > Size(ms[n + 1]) /\ o \in Nat
        BY <1>8 DEF m
    <2>2. w \in Seq(Items) /\ w # <<>> /\ ms \in Seq(Messages) /\ Carries(w, ms, n + 1, o)
        BY <1>1, <1>2, <1>6, <1>7
    <2> HIDE DEF o
    <2>3. /\ \A i \in 1..1 : w[i] = ToBuffer(ms[n + 1])[o + i - 1]
          /\ o + 1 > Size(ms[n + 1]) => Carries(SubSeq(w, 1 + 1, Len(w)), ms, n + 1 + 1, 1)
        BY ONLY <2>1, <2>2, CarriesRest
    <2>4. 1 + 1 = 2 /\ n + 1 + 1 = n + 2 /\ 1 \in 1..1 /\ o + 1 - 1 = o
        BY <1>4, <2>1
    <2> QED BY <2>1, <2>3, <2>4 DEF m, o
<1>10. v = SubSeq(w, 2, Len(w)) /\ p = w[1]
    BY <1>1, <1>2
<1>11. p = [kind |-> "payload", id |-> m.id, len |-> m.len, mask |-> m.mask]
    BY <1>5, <1>7, <1>9, <1>10, BufferOf
<1>12. item = Message(m.id, m.len) /\ item \in Nat \X Nat
    <2> HIDE DEF p, f
    <2>1. whole
        BY <1>6, <1>11
    <2> HIDE DEF whole
    <2> QED BY <1>6, <1>11, <2>1 DEF Message
<1> HIDE DEF item, v, w, p, f
<1>13. /\ frame'[e] = h /\ wire'[e] = v /\ got'[e] = Append(got[e], item)
       /\ FrameTypeOK'
    <2>1. h \in [at : {"closed", "header", "length", "data"}, len : Nat, mask : BOOLEAN]
        BY DEF Reading
    <2>2. Append(got[e], item) \in Seq(Nat \X Nat)
        BY <1>2, <1>12
    <2> HIDE DEF h
    <2> QED BY <1>1, <1>2, <2>1, <2>2 DEF FrameTypeOK
<1>14. /\ Len(got'[e]) = n + 1 /\ got'[e][n + 1] = item
       /\ \A i \in 1..n : got'[e][i] = got[e][i]
    BY <1>2, <1>13 DEF n
<1>15. ReadsNext(h, v, ms, n + 1)
    <2>1. n + 1 + 1 = n + 2 /\ h.at = "header"
        BY <1>4 DEF Reading
    <2>2. Carries(v, ms, n + 1 + 1, 1)
        BY <1>9, <1>10, <2>1
    <2> HIDE DEF h
    <2> QED BY <2>1, <2>2 DEF ReadsNext
<1> HIDE DEF h
<1>16. Frames(e)' = v /\ Said(e, ms)'
    BY <1>1, <1>2, <1>3, <1>13 DEF Frames, Said
<1>17. ReadsSent(e)'
    <2>1. /\ n + 1 <= Len(sent[e]) /\ sent[e][n + 1] = item
          /\ \A i \in 1..n : got[e][i] = sent[e][i]
        BY <1>3, <1>4, <1>12 DEF Said, m, n, WholeIInv, ReadsSent
    <2>2. \A i \in 1..n + 1 : i \in 1..n \/ i = n + 1
        BY <1>4
    <2> QED BY <1>1, <1>14, <2>1, <2>2 DEF ReadsSent
<1>18. OnItsWay(e)'
    BY <1>13, <1>14, <1>15, <1>16 DEF OnItsWay
<1> QED BY <1>13, <1>17, <1>18

\* Nothing is sent before the handshake.
LEMMA WholeInitially == SessionInit => WholeIInv
<1> SUFFICES ASSUME SessionInit PROVE WholeIInv
    OBVIOUS
<1>1. SessionIInv
    BY SessionInitially
<1>2. FrameTypeOK /\ NothingSentFirst
    BY DEF SessionInit, FrameTypeOK, NothingSentFirst, Reading
<1>3. ASSUME NEW e \in Sides PROVE ReadsSent(e) /\ OnItsWay(e)
    <2>1. sent[e] = <<>> /\ got[e] = <<>> /\ ~Followed(e)
        BY DEF SessionInit, Followed, Awaits, Follows, Reading, Sides
    <2> QED BY <2>1 DEF ReadsSent, OnItsWay
<1> QED BY <1>1, <1>2, <1>3 DEF WholeIInv

\* What goes behind does not change what is first.
LEMMA TailJoined ==
    ASSUME NEW S, NEW s \in Seq(S), s # <<>>, NEW t \in Seq(S)
    PROVE  Tail(s \o t) = Tail(s) \o t /\ Tail(s) \in Seq(S)
<1>1. Len(s) \in Nat \ {0} /\ Len(t) \in Nat
    OBVIOUS
<1>2. /\ Tail(s) \in Seq(S) /\ Len(Tail(s)) = Len(s) - 1
      /\ \A i \in 1..Len(s) - 1 : Tail(s)[i] = s[i + 1]
    BY HeadTailProperties
<1>3. /\ s \o t \in Seq(S) /\ Len(s \o t) = Len(s) + Len(t)
      /\ \A i \in 1..Len(s) + Len(t) : (s \o t)[i] = IF i <= Len(s) THEN s[i] ELSE t[i - Len(s)]
    BY ConcatProperties
<1> DEFINE u == s \o t
           v == Tail(s) \o t
<1>4. u # <<>>
    BY <1>1, <1>3
<1> HIDE DEF u
<1>5. /\ Tail(u) \in Seq(S) /\ Len(Tail(u)) = Len(u) - 1
      /\ \A i \in 1..Len(u) - 1 : Tail(u)[i] = u[i + 1]
    BY <1>3, <1>4, HeadTailProperties DEF u
<1>6. /\ v \in Seq(S) /\ Len(v) = Len(Tail(s)) + Len(t)
      /\ \A i \in 1..Len(Tail(s)) + Len(t) :
           v[i] = IF i <= Len(Tail(s)) THEN Tail(s)[i] ELSE t[i - Len(Tail(s))]
    BY <1>2, ConcatProperties
<1> HIDE DEF v
<1>7. Len(u) = Len(s) + Len(t) /\ Len(v) = Len(s) + Len(t) - 1
    BY <1>1, <1>2, <1>3, <1>6 DEF u
<1>8. ASSUME NEW i \in 1..Len(s) + Len(t) - 1 PROVE Tail(u)[i] = v[i]
    <2>1. Tail(u)[i] = u[i + 1] /\ i + 1 \in 1..Len(s) + Len(t)
        BY <1>1, <1>5, <1>7
    <2>2. u[i + 1] = IF i + 1 <= Len(s) THEN s[i + 1] ELSE t[i + 1 - Len(s)]
        BY <1>3, <2>1 DEF u
    <2>3. v[i] = IF i <= Len(s) - 1 THEN Tail(s)[i] ELSE t[i - (Len(s) - 1)]
        BY <1>1, <1>2, <1>6
    <2>4. CASE i + 1 <= Len(s)
        <3>1. i <= Len(s) - 1 /\ i \in 1..Len(s) - 1
            BY <1>1, <2>4
        <3> QED BY <1>2, <2>1, <2>2, <2>3, <2>4, <3>1
    <2>5. CASE ~(i + 1 <= Len(s))
        <3>1. i - (Len(s) - 1) = i + 1 - Len(s) /\ ~(i <= Len(s) - 1)
            BY <1>1, <2>5
        <3> QED BY <2>1, <2>2, <2>3, <2>5, <3>1
    <2> QED BY <2>4, <2>5
<1>9. Tail(u) = v
    BY <1>5, <1>6, <1>7, <1>8, SeqEqual
<1> QED BY <1>2, <1>9 DEF u, v

\* A message is put on its way.
LEMMA WholeWrite ==
    ASSUME WholeIInv, NEW e \in Sides, NEW l \in Lengths, NEW k \in BOOLEAN, NEW o \in Opcodes,
           Write(e, l, k, o), SessionIInv'
    PROVE  WholeIInv'
<1>0. PICK id, m : /\ id = Len(sent["client"]) + Len(sent["server"]) + 1
                   /\ m = [id |-> id, len |-> l, mask |-> k, opcode |-> o]
    OBVIOUS
<1>1. /\ frame[Peer(e)].at # "closed" /\ UNCHANGED <<upgrade, frame, got, mixed>>
      /\ wire' = [wire EXCEPT ![e] = @ \o ToBuffer(m)]
      /\ sent' = [sent EXCEPT ![e] = Append(@, Message(id, l))]
    BY <1>0 DEF Write, Put
<1>2. SessionIInv /\ FrameTypeOK /\ NothingSentFirst
      /\ wire \in [Sides -> Seq(Items)] /\ sent \in [Sides -> Seq(Nat \X Nat)]
      /\ \A x \in Sides : ReadsSent(x) /\ OnItsWay(x)
    BY DEF WholeIInv, SessionIInv, SessionTypeOK
<1>3. "client" \in Sides /\ "server" \in Sides /\ Peer(e) \in Sides
      /\ Peer("client") = "server" /\ Peer("server") = "client" /\ e \in {"client", "server"}
    BY DEF Sides, Peer
<1>4. upgrade[Peer(e)] = "up"
    BY <1>1, <1>2, <1>3, FollowsUp
<1>5. upgrade["server"] # "reading"
    BY <1>2, <1>3, <1>4 DEF SessionIInv, RequestFirst
<1>6. m \in Messages /\ Message(id, l) \in Nat \X Nat /\ m.id = id /\ m.len = l
    <2>1. l \in Nat /\ l <= LongestLength /\ o \in {1, 2}
        <3>1. LongestLength \in Nat
            BY SMT DEF LongestLength
        <3>2. l \in 0..LongestLength /\ o \in {1, 2}
            BY SessionAssumption
        <3> QED BY <3>1, <3>2
    <2>2. id \in Nat
        BY <1>0, <1>2, <1>3
    <2> QED BY <1>0, <2>1, <2>2 DEF Messages, Message
<1>7. ToBuffer(m) \in Seq(Items)
    <2>1. m \in [id : Nat, len : Nat, mask : BOOLEAN, opcode : {1, 2}]
        BY <1>6 DEF Messages
    <2> QED BY <2>1, BufferItems
<1>8. FrameTypeOK' /\ NothingSentFirst'
    BY <1>1, <1>2, <1>5 DEF FrameTypeOK, NothingSentFirst
<1>9. ASSUME NEW x \in Sides, x # e PROVE ReadsSent(x)' /\ OnItsWay(x)'
    BY <1>1, <1>2, <1>9, OtherSide
<1>10. /\ wire'[e] = wire[e] \o ToBuffer(m) /\ wire[e] \in Seq(Items)
       /\ sent'[e] = Append(sent[e], Message(id, l)) /\ sent[e] \in Seq(Nat \X Nat)
    BY <1>1, <1>2
<1>11. /\ Len(sent'[e]) = Len(sent[e]) + 1 /\ sent'[e][Len(sent[e]) + 1] = Message(id, l)
       /\ \A i \in 1..Len(sent[e]) : sent'[e][i] = sent[e][i]
    BY <1>10
<1>12. ReadsSent(e)'
    <2>1. /\ Len(got[e]) \in Nat /\ Len(sent[e]) \in Nat /\ Len(got[e]) <= Len(sent[e])
          /\ \A i \in 1..Len(got[e]) : got[e][i] = sent[e][i]
        BY <1>2, <1>10 DEF ReadsSent, FrameTypeOK
    <2> QED BY <1>1, <1>11, <2>1 DEF ReadsSent
<1>13. ASSUME Followed(e)' PROVE OnItsWay(e)'
    <2>1. Followed(e)
        BY <1>1, <1>13 DEF Followed, Awaits, Follows
    <2>2. Frames(e)' = Frames(e) \o ToBuffer(m) /\ Frames(e) \in Seq(Items)
        <3>1. CASE e = "client" /\ upgrade["client"] = "asking"
            <4>1. wire[e] # <<>>
                BY <1>2, <1>5, <3>1 DEF SessionIInv, ResponseFirst
            <4>2. Tail(wire[e] \o ToBuffer(m)) = Tail(wire[e]) \o ToBuffer(m)
                  /\ Tail(wire[e]) \in Seq(Items)
                BY <1>7, <1>10, <4>1, TailJoined
            <4> QED BY <1>1, <1>10, <3>1, <4>2 DEF Frames
        <3>2. CASE ~(e = "client" /\ upgrade["client"] = "asking")
            BY <1>1, <1>10, <3>2 DEF Frames
        <3> QED BY <3>1, <3>2
    <2>3. PICK ms \in Seq(Messages) :
              Said(e, ms) /\ ReadsNext(frame[e], Frames(e), ms, Len(got[e]))
        BY <1>2, <2>1 DEF OnItsWay
    <2> DEFINE n   == Len(got[e])
               ms2 == Append(ms, m)
    <2>4. /\ Len(ms) \in Nat /\ Len(ms2) = Len(ms) + 1 /\ ms2[Len(ms) + 1] = m
          /\ ms2 \in Seq(Messages) /\ \A i \in 1..Len(ms) : ms2[i] = ms[i]
        BY <1>6
    <2>5. n \in Nat
        BY <1>2 DEF FrameTypeOK
    <2>6. \A j, p : Carries(Frames(e), ms, j, p) => Carries(Frames(e)', ms2, j, p)
        <3> SUFFICES ASSUME NEW j, NEW p, Carries(Frames(e), ms, j, p)
                     PROVE  Carries(Frames(e) \o ToBuffer(m), Append(ms, m), j, p)
            BY <2>2
        <3> QED BY <1>6, <1>7, <2>2, CarriesMore
    <2> HIDE DEF ms2, n
    <2>7. Said(e, ms2)'
        <3>1. /\ Len(ms2) = Len(sent'[e])
              /\ \A i \in 1..Len(ms) : sent'[e][i] = Message(ms2[i].id, ms2[i].len)
              /\ sent'[e][Len(ms) + 1] = Message(ms2[Len(ms) + 1].id, ms2[Len(ms) + 1].len)
            BY <1>6, <1>11, <2>3, <2>4 DEF Said
        <3>2. \A i \in 1..Len(ms2) : i \in 1..Len(ms) \/ i = Len(ms) + 1
            BY <2>4
        <3>3. \A j \in 1..Len(ms2) : sent'[e][j] = Message(ms2[j].id, ms2[j].len)
            BY <3>1, <3>2
        <3> QED BY <3>1, <3>3 DEF Said
    <2>8. ReadsNext(frame[e], Frames(e)', ms2, n)
        <3>1. ReadsNext(frame[e], Frames(e), ms, n)
            BY <2>3 DEF n
        <3>2. n + 1 <= Len(ms) => n + 1 <= Len(ms2) /\ ms2[n + 1] = ms[n + 1]
            BY <2>4, <2>5
        <3>3. frame[e].at \in {"length", "data"} =>
                  n + 1 <= Len(ms2) /\ ms2[n + 1] = ms[n + 1] /\ frame[e].mask = ms2[n + 1].mask
            BY <3>1, <3>2 DEF ReadsNext
        <3>4. CASE frame[e].at = "length"
            BY <2>6, <3>1, <3>3, <3>4 DEF ReadsNext
        <3>5. CASE frame[e].at = "data"
            BY <2>6, <3>1, <3>3, <3>5 DEF ReadsNext
        <3>6. CASE frame[e].at \in {"closed", "header"}
            BY <2>6, <3>1, <3>6 DEF ReadsNext
        <3> QED BY <3>4, <3>5, <3>6 DEF ReadsNext
    <2> QED BY <1>1, <2>4, <2>7, <2>8 DEF OnItsWay, n
<1>14. OnItsWay(e)'
    BY <1>13 DEF OnItsWay
<1> QED BY <1>8, <1>9, <1>12, <1>14 DEF WholeIInv

\* What is on its way to an end stays complete, whatever the two ends and the
\* connection do.
LEMMA WholeStep == WholeIInv /\ [SessionNext]_sessionVars => WholeIInv'
<1> SUFFICES ASSUME WholeIInv, [SessionNext]_sessionVars PROVE WholeIInv'
    OBVIOUS
<1>0. SessionIInv'
    BY SessionStep DEF WholeIInv
<1>a. /\ SessionIInv /\ FrameTypeOK /\ NothingSentFirst
      /\ \A e \in Sides : ReadsSent(e) /\ OnItsWay(e)
      /\ wire \in [Sides -> Seq(Items)] /\ wire = [x \in Sides |-> wire[x]]
      /\ upgrade = [x \in Sides |-> upgrade[x]] /\ frame = [x \in Sides |-> frame[x]]
    BY DEF WholeIInv, SessionIInv, SessionTypeOK
<1>c. "client" \in Sides /\ "server" \in Sides /\ \A e \in Sides : e = "client" \/ e = "server"
    BY DEF Sides
<1>d. \A e \in Sides : upgrade[e] # "up" => frame[e].at = "closed"
    BY <1>a DEF SessionIInv, FramesAfterUpgrade
<1>1. CASE Connect
    <2>1. /\ upgrade["client"] = "idle" /\ upgrade["server"] = "reading"
          /\ upgrade'["server"] = "reading" /\ upgrade'["client"] \in {"asking", "failed"}
          /\ UNCHANGED <<frame, sent, got, mixed>>
        BY <1>1, <1>a, <1>c DEF Connect, Upgrade, SessionIInv, RequestFirst
    <2>2. FrameTypeOK' /\ NothingSentFirst'
        BY <1>a, <2>1 DEF FrameTypeOK, NothingSentFirst
    <2>3. ASSUME NEW e \in Sides PROVE ~Followed(e)'
        BY <1>c, <1>d, <2>1 DEF Followed, Follows, Awaits
    <2>4. ASSUME NEW e \in Sides PROVE OnItsWay(e)' /\ ReadsSent(e)'
        BY <1>a, <2>1, <2>3, SideLeft
    <2> QED BY <1>0, <2>2, <2>4 DEF WholeIInv
<1>2. CASE ResponseWebsocketRequest
    <2>1. /\ upgrade["server"] = "reading" /\ wire["server"] # <<>>
          /\ upgrade'["client"] = upgrade["client"] /\ upgrade'["server"] \in {"answering", "refused"}
          /\ UNCHANGED <<frame, sent, got, mixed>>
          /\ \E said : wire'["client"] = Append(wire["client"], said)
          /\ wire'["server"] = Tail(wire["server"])
        BY <1>2, <1>a, <1>c DEF ResponseWebsocketRequest, Upgrade
    <2>2. /\ wire["client"] = <<>> /\ wire["server"] = <<UpgradeRequest>> /\ upgrade["client"] # "up"
          /\ \A e \in Sides : sent[e] = <<>> /\ got[e] = <<>>
        BY <1>a, <2>1 DEF SessionIInv, RequestFirst, NothingSentFirst
    <2>3. Tail(wire'["client"]) = <<>> /\ wire'["server"] = <<>>
        BY <2>1, <2>2
    <2>4. FrameTypeOK' /\ NothingSentFirst'
        BY <1>a, <2>1 DEF FrameTypeOK, NothingSentFirst
    <2>5. ASSUME NEW e \in Sides, Followed(e)' PROVE Frames(e)' = <<>>
        <3>1. frame'[e].at = "closed"
            BY <1>c, <1>d, <2>1, <2>2
        <3>2. Awaits(e)'
            BY <2>5, <3>1 DEF Followed, Follows
        <3> QED BY <1>c, <2>3, <3>2 DEF Awaits, Frames
    <2>6. ASSUME NEW e \in Sides PROVE OnItsWay(e)' /\ ReadsSent(e)'
        <3>1. frame'[e].at = "closed" /\ sent'[e] = <<>> /\ got'[e] = <<>>
            BY <1>c, <1>d, <2>1, <2>2
        <3>2. ASSUME Followed(e)' PROVE OnItsWay(e)'
            <4>1. Said(e, <<>>)' /\ <<>> \in Seq(Messages) /\ Len(<<>>) = 0
                BY <3>1 DEF Said
            <4>2. ReadsNext(frame'[e], <<>>, <<>>, 0)
                BY <3>1, CarriesNothing DEF ReadsNext
            <4> QED BY <2>5, <3>1, <3>2, <4>1, <4>2 DEF OnItsWay
        <3>3. ReadsSent(e)'
            BY <3>1 DEF ReadsSent
        <3> QED BY <3>2, <3>3 DEF OnItsWay
    <2> QED BY <1>0, <2>4, <2>6 DEF WholeIInv
<1>3. CASE AnswerWritten
    <2>1. /\ upgrade["server"] = "answering" /\ UNCHANGED <<wire, sent, got, mixed>>
          /\ upgrade'["client"] = upgrade["client"] /\ frame'["client"] = frame["client"]
          /\ frame["server"].at = "closed"
          /\ \/ upgrade'["server"] = "up" /\ frame' = [frame EXCEPT !["server"] = Reading("header")]
             \/ upgrade'["server"] = "dropped" /\ frame' = frame
        BY <1>3, <1>a, <1>c, <1>d DEF AnswerWritten, Upgrade, Opens
    <2>2. FrameTypeOK'
        <3>1. Reading("header") \in
                [at : {"closed", "header", "length", "data"}, len : Nat, mask : BOOLEAN]
            BY DEF Reading
        <3> HIDE DEF Reading
        <3>2. frame' \in
                [Sides -> [at : {"closed", "header", "length", "data"}, len : Nat, mask : BOOLEAN]]
            <4>1. CASE frame' = frame
                BY <1>a, <4>1 DEF FrameTypeOK
            <4>2. CASE frame' = [frame EXCEPT !["server"] = Reading("header")]
                BY <1>a, <3>1, <4>2 DEF FrameTypeOK
            <4> QED BY <2>1, <4>1, <4>2
        <3> QED BY <1>a, <2>1, <3>2 DEF FrameTypeOK
    <2>3. NothingSentFirst'
        BY <2>1 DEF NothingSentFirst
    <2>4. OnItsWay("client")' /\ ReadsSent("client")'
        <3>1. Followed("client")' = Followed("client") /\ Frames("client")' = Frames("client")
            BY <2>1 DEF Followed, Follows, Awaits, Frames
        <3> QED BY <1>a, <1>c, <2>1, <3>1, SideStays
    <2>5. CASE upgrade'["server"] = "dropped" /\ frame' = frame
        <3>1. ~Followed("server")'
            BY <2>1, <2>5 DEF Followed, Follows, Awaits
        <3>2. OnItsWay("server")' /\ ReadsSent("server")'
            BY <1>a, <1>c, <2>1, <3>1, SideLeft
        <3> QED BY <1>0, <1>c, <2>2, <2>3, <2>4, <3>2 DEF WholeIInv
    <2>6. CASE upgrade'["server"] = "up" /\ frame' = [frame EXCEPT !["server"] = Reading("header")]
        <3>1. frame'["server"].at = "header" /\ Followed("server")
              /\ Frames("server")' = Frames("server")
            BY <1>a, <1>c, <2>1, <2>6 DEF Reading, Followed, Awaits, Frames
        <3>2. PICK ms \in Seq(Messages) :
                  Said("server", ms)
                  /\ ReadsNext(frame["server"], Frames("server"), ms, Len(got["server"]))
            BY <1>a, <1>c, <3>1 DEF OnItsWay
        <3>3. Said("server", ms)'
              /\ ReadsNext(frame'["server"], Frames("server")', ms, Len(got'["server"]))
            BY <2>1, <3>1, <3>2 DEF Said, ReadsNext
        <3>4. OnItsWay("server")' /\ ReadsSent("server")'
            BY <1>a, <1>c, <2>1, <3>3 DEF OnItsWay, ReadsSent
        <3> QED BY <1>0, <1>c, <2>2, <2>3, <2>4, <3>4 DEF WholeIInv
    <2> QED BY <2>1, <2>5, <2>6
<1>4. CASE HandshakeFails
    <2>1. /\ upgrade["client"] \in {"idle", "asking"} /\ upgrade'["client"] = "failed"
          /\ upgrade'["server"] = upgrade["server"] /\ UNCHANGED <<wire, frame, sent, got, mixed>>
        BY <1>4, <1>a, <1>c DEF HandshakeFails, Upgrade
    <2>2. FrameTypeOK' /\ NothingSentFirst'
        BY <1>a, <2>1 DEF FrameTypeOK, NothingSentFirst
    <2>3. ~Followed("client")'
        BY <1>c, <1>d, <2>1 DEF Followed, Follows, Awaits
    <2>4. OnItsWay("client")' /\ ReadsSent("client")'
        BY <1>a, <1>c, <2>1, <2>3, SideLeft
    <2>5. Followed("server")' = Followed("server") /\ Frames("server")' = Frames("server")
        BY <2>1 DEF Followed, Follows, Awaits, Frames
    <2>6. OnItsWay("server")' /\ ReadsSent("server")'
        BY <1>a, <1>c, <2>1, <2>5, SideStays
    <2> QED BY <1>0, <1>c, <2>2, <2>4, <2>6 DEF WholeIInv
<1>5. CASE ConnectionBreaks \/ UNCHANGED sessionVars
    <2>1. UNCHANGED <<upgrade, wire, frame, sent, got, mixed>>
        BY <1>5 DEF ConnectionBreaks, sessionVars
    <2>2. FrameTypeOK' /\ NothingSentFirst'
        BY <1>a, <2>1 DEF FrameTypeOK, NothingSentFirst
    <2>3. ASSUME NEW e \in Sides PROVE OnItsWay(e)' /\ ReadsSent(e)'
        <3>1. Followed(e)' = Followed(e) /\ Frames(e)' = Frames(e)
            BY <2>1 DEF Followed, Follows, Awaits, Frames
        <3> QED BY <1>a, <2>1, <3>1, SideStays
    <2> QED BY <1>0, <2>2, <2>3 DEF WholeIInv
<1>6. ASSUME NEW k \in 0..Len(wire["client"]), ResponseRead(k) PROVE WholeIInv'
    <2>1. /\ upgrade["client"] = "asking" /\ wire["client"] # <<>> /\ frame["client"].at = "closed"
          /\ upgrade'["server"] = upgrade["server"] /\ frame'["server"] = frame["server"]
          /\ wire'["server"] = wire["server"] /\ UNCHANGED <<sent, got>>
          /\ wire'["client"] = SubSeq(wire["client"], 2 + k, Len(wire["client"]))
          /\ mixed' = (k > 0)
          /\ \/ upgrade'["client"] = "up" /\ frame' = [frame EXCEPT !["client"] = Reading("header")]
             \/ upgrade'["client"] = "failed" /\ frame' = frame
        <3>1. upgrade["client"] = "asking" /\ wire["client"] # <<>>
            BY <1>6 DEF ResponseRead
        <3>2. /\ wire' = [wire EXCEPT !["client"] = SubSeq(@, 2 + k, Len(@))]
              /\ mixed' = (k > 0) /\ UNCHANGED <<sent, got>>
            BY <1>6 DEF ResponseRead
        <3>3. \/ /\ upgrade' = [upgrade EXCEPT !["client"] = "up"]
                 /\ frame' = [frame EXCEPT !["client"] = Reading("header")]
              \/ upgrade' = [upgrade EXCEPT !["client"] = "failed"] /\ frame' = frame
            BY <1>6 DEF ResponseRead, Upgrade, Opens
        <3>4. frame["client"].at = "closed"
            BY <1>c, <1>d, <3>1
        <3>5. wire'["server"] = wire["server"]
              /\ wire'["client"] = SubSeq(wire["client"], 2 + k, Len(wire["client"]))
            BY <1>a, <1>c, <3>2
        <3>6. CASE /\ upgrade' = [upgrade EXCEPT !["client"] = "up"]
                   /\ frame' = [frame EXCEPT !["client"] = Reading("header")]
            <4>1. upgrade'["client"] = "up" /\ upgrade'["server"] = upgrade["server"]
                  /\ frame'["server"] = frame["server"]
                BY <1>a, <1>c, <3>6
            <4> QED BY <3>1, <3>2, <3>4, <3>5, <3>6, <4>1
        <3>7. CASE upgrade' = [upgrade EXCEPT !["client"] = "failed"] /\ frame' = frame
            <4>1. upgrade'["client"] = "failed" /\ upgrade'["server"] = upgrade["server"]
                BY <1>a, <1>c, <3>7
            <4> QED BY <3>1, <3>2, <3>4, <3>5, <3>7, <4>1
        <3> QED BY <3>3, <3>6, <3>7
    <2>2. upgrade["server"] # "reading"
        BY <1>a, <2>1 DEF SessionIInv, RequestFirst
    <2>3. FrameTypeOK' /\ NothingSentFirst'
        <3>1. Reading("header") \in
                [at : {"closed", "header", "length", "data"}, len : Nat, mask : BOOLEAN]
            BY DEF Reading
        <3> HIDE DEF Reading
        <3>2. frame' \in
                [Sides -> [at : {"closed", "header", "length", "data"}, len : Nat, mask : BOOLEAN]]
            <4>1. CASE frame' = frame
                BY <1>a, <4>1 DEF FrameTypeOK
            <4>2. CASE frame' = [frame EXCEPT !["client"] = Reading("header")]
                BY <1>a, <3>1, <4>2 DEF FrameTypeOK
            <4> QED BY <2>1, <4>1, <4>2
        <3> QED BY <1>a, <2>1, <2>2, <3>2 DEF FrameTypeOK, NothingSentFirst
    <2>4. OnItsWay("server")' /\ ReadsSent("server")'
        <3>1. Followed("server")' = Followed("server") /\ Frames("server")' = Frames("server")
            BY <2>1 DEF Followed, Follows, Awaits, Frames
        <3> QED BY <1>a, <1>c, <2>1, <3>1, SideStays
    <2>5. CASE k > 0 \/ upgrade'["client"] = "failed"
        <3>1. ~Followed("client")'
            BY <2>1, <2>5 DEF Followed, Follows, Awaits
        <3>2. OnItsWay("client")' /\ ReadsSent("client")'
            BY <1>a, <1>c, <2>1, <3>1, SideLeft
        <3> QED BY <1>0, <1>c, <2>3, <2>4, <3>2 DEF WholeIInv
    <2>6. CASE k = 0 /\ upgrade'["client"] # "failed"
        <3>1. /\ upgrade'["client"] = "up" /\ frame'["client"].at = "header" /\ Followed("client")
              /\ Frames("client") = Tail(wire["client"]) /\ Frames("client")' = wire'["client"]
            BY <1>a, <1>c, <2>1, <2>2, <2>6 DEF Reading, Followed, Awaits, Frames
        <3>2. wire'["client"] = Tail(wire["client"])
            BY <1>a, <1>c, <2>1, <2>6, TailIsSubSeq
        <3>3. PICK ms \in Seq(Messages) :
                  Said("client", ms)
                  /\ ReadsNext(frame["client"], Frames("client"), ms, Len(got["client"]))
            BY <1>a, <1>c, <3>1 DEF OnItsWay
        <3>4. Said("client", ms)'
              /\ ReadsNext(frame'["client"], Frames("client")', ms, Len(got'["client"]))
            BY <2>1, <3>1, <3>2, <3>3 DEF Said, ReadsNext
        <3>5. OnItsWay("client")' /\ ReadsSent("client")'
            BY <1>a, <1>c, <2>1, <3>4 DEF OnItsWay, ReadsSent
        <3> QED BY <1>0, <1>c, <2>3, <2>4, <3>5 DEF WholeIInv
    <2> QED BY <2>5, <2>6
<1>7. ASSUME NEW e \in Sides, NEW l \in Lengths, NEW k \in BOOLEAN, NEW o \in Opcodes,
             Write(e, l, k, o)
      PROVE  WholeIInv'
    BY <1>0, <1>7, WholeWrite
<1>8. ASSUME NEW e \in Sides, ReadPacket(e) \/ ReadPacketLength(e) \/ ReadPacketData(e)
      PROVE  WholeIInv'
    <2>1. FrameTypeOK' /\ OnItsWay(e)' /\ ReadsSent(e)'
        BY <1>8, HeaderTaken, LengthTaken, DataTaken
    <2>2. /\ UNCHANGED <<upgrade, sent, mixed>>
          /\ \A x \in Sides : x # e =>
               frame'[x] = frame[x] /\ wire'[x] = wire[x] /\ got'[x] = got[x]
        <3>1. got = [x \in Sides |-> got[x]]
            BY <1>a DEF FrameTypeOK
        <3> QED BY <1>8, <1>a, <3>1 DEF ReadPacket, ReadPacketLength, ReadPacketData, Opens
    <2>3. ASSUME NEW x \in Sides, x # e PROVE OnItsWay(x)' /\ ReadsSent(x)'
        BY <2>2, <2>3, OtherSide
    <2>4. upgrade["server"] # "reading"
        <3>1. frame[e].at # "closed"
            BY <1>8 DEF ReadPacket, ReadPacketLength, ReadPacketData, Follows
        <3>2. upgrade[e] = "up"
            BY <1>a, <3>1, FollowsUp
        <3> QED BY <1>a, <1>c, <3>2 DEF SessionIInv, RequestFirst
    <2>5. NothingSentFirst'
        BY <2>2, <2>4 DEF NothingSentFirst
    <2> QED BY <1>0, <2>1, <2>3, <2>5 DEF WholeIInv
<1>9. ASSUME NEW e \in Sides, EmptyIsReset(e) \/ IoEnds(e) PROVE WholeIInv'
    <2>1. frame' = [frame EXCEPT ![e] = Reading("closed")] /\ frame[e].at # "closed"
          /\ UNCHANGED <<upgrade, wire, sent, got, mixed>>
        BY <1>9 DEF EmptyIsReset, IoEnds, Closes, Follows
    <2>2. FrameTypeOK' /\ NothingSentFirst'
        <3>1. Reading("closed") \in
                [at : {"closed", "header", "length", "data"}, len : Nat, mask : BOOLEAN]
            BY DEF Reading
        <3> HIDE DEF Reading
        <3> QED BY <1>a, <2>1, <3>1 DEF FrameTypeOK, NothingSentFirst
    <2>3. ~Awaits(e) /\ frame'[e].at = "closed"
        BY <1>a, <2>1, FollowsUp DEF Reading
    <2>4. ~Followed(e)'
        BY <2>1, <2>3 DEF Followed, Follows, Awaits
    <2>5. OnItsWay(e)' /\ ReadsSent(e)'
        BY <1>a, <2>1, <2>4, SideLeft
    <2>6. ASSUME NEW x \in Sides, x # e PROVE OnItsWay(x)' /\ ReadsSent(x)'
        <3>1. frame'[x] = frame[x]
            BY <1>a, <2>1, <2>6
        <3> QED BY <2>1, <2>6, <3>1, OtherSide
    <2> QED BY <1>0, <2>2, <2>5, <2>6 DEF WholeIInv
<1> QED BY <1>1, <1>2, <1>3, <1>4, <1>5, <1>6, <1>7, <1>8, <1>9 DEF SessionNext

\* What is sent to an end is on its way to it, every byte in its place, until it
\* has been read, for every length that 31 bits count.
THEOREM WholeInvariant == SessionSpec => []WholeIInv
BY WholeInitially, WholeStep, PTL DEF SessionSpec

\* The messages read are the first of those sent.
LEMMA ReadsArePrefix == WholeIInv => MessagesArriveWhole
<1> SUFFICES ASSUME WholeIInv, NEW e \in Sides PROVE IsPrefix(got[e], sent[e])
    BY DEF MessagesArriveWhole
<1>1. /\ got[e] \in Seq(Nat \X Nat) /\ sent[e] \in Seq(Nat \X Nat)
      /\ Len(got[e]) <= Len(sent[e]) /\ \A i \in 1..Len(got[e]) : got[e][i] = sent[e][i]
    BY DEF WholeIInv, FrameTypeOK, SessionIInv, SessionTypeOK, ReadsSent
<1> DEFINE s == got[e]
           t == sent[e]
<1> HIDE DEF s, t
<1>2. /\ s \in Seq(Nat \X Nat) /\ t \in Seq(Nat \X Nat) /\ Len(s) <= Len(t)
      /\ \A i \in 1..Len(s) : s[i] = t[i]
    BY <1>1 DEF s, t
<1>3. SubSeq(s, 1, Len(s)) = SubSeq(t, 1, Len(s))
    BY <1>2
<1> QED BY <1>2, <1>3 DEF IsPrefix, s, t

\* Each end of a WebSocket connection reads the messages sent to it whole and in
\* their order (Websocket.cpp:77), for as long as it reads: for every length that
\* 31 bits count, every choice of keys and every number of messages.
THEOREM SessionWhole == SessionSpec => []MessagesArriveWhole
BY WholeInvariant, ReadsArePrefix, PTL

-------------------------------------------------------------------------------
(* The MQTT client.                                                          *)

\* The bytes of a remaining length that has k of them.
LEMMA LengthOfBytes ==
    ASSUME NEW n \in Nat, NEW k \in 1..4, n < Weight[k + 1], k = 1 \/ n >= Weight[k]
    PROVE  RemainingLength(n) =
             [i \in 1..k |-> ((n \div Weight[i]) % 128) + (IF i < k THEN 128 ELSE 0)]
<1> DEFINE Wide(i) == n < Weight[i + 2] /\ (i = 0 \/ n >= Weight[i + 1])
<1>1. k - 1 \in 0..3 /\ Wide(k - 1)
    OBVIOUS
<1>2. \A i \in 0..3 : Wide(i) => i = k - 1
    BY DEF Weight
<1>3. (CHOOSE i \in 0..3 : Wide(i)) = k - 1
    <2> HIDE DEF Wide
    <2> QED BY <1>1, <1>2
<1> DEFINE Digit(i) == (n \div Weight[i]) % 128
<1>4. RemainingLength(n) = [i \in 1..(k - 1) + 1 |-> Digit(i) + (IF i <= k - 1 THEN 128 ELSE 0)]
    BY <1>3 DEF RemainingLength
<1> HIDE DEF Digit
<1>5. 1..(k - 1) + 1 = 1..k /\ \A i \in 1..k : i <= k - 1 <=> i < k
    OBVIOUS
<1>6. RemainingLength(n) = [i \in 1..k |-> Digit(i) + (IF i < k THEN 128 ELSE 0)]
    BY <1>4, <1>5
<1> QED BY <1>6 DEF Digit

\* Whatever the number of bytes, the reader finds the last of them.
LEMMA LengthRead ==
    ASSUME NEW k \in 1..4, NEW b, DOMAIN b = 1..k,
           \A i \in 1..k : b[i] \in Nat /\ (b[i] < 128 <=> i = k)
    PROVE  onReadMQTTPacketLength(b) = k
<1> DEFINE Stops(i) == b[i] < 128 /\ \A j \in 1..i - 1 : b[j] >= 128
<1>1. Stops(k)
    OBVIOUS
<1>2. \A i \in DOMAIN b : Stops(i) => i = k
    OBVIOUS
<1> HIDE DEF Stops
<1>3. (CHOOSE i \in DOMAIN b : Stops(i)) = k
    BY <1>1, <1>2
<1> QED BY <1>3 DEF onReadMQTTPacketLength, Stops

\* What byte i of k adds to the length.
Term(b, k, i) == IF i <= k THEN (b[i] % 128) * Weight[i] ELSE 0

\* The sum over the bytes, term by term.
LEMMA LengthSummed ==
    ASSUME NEW k \in 1..4, NEW b, onReadMQTTPacketLength(b) = k,
           \A i \in 1..k : b[i] \in Nat
    PROVE  onReadMQTTPacketLengthCompleted(b)
             = Term(b, k, 1) + Term(b, k, 2) + Term(b, k, 3) + Term(b, k, 4)
<1> DEFINE t(i) == (b[i] % 128) * Weight[i]
           d(i) == IF i <= k THEN t(i) ELSE 0
           sum[i \in 0..k] == IF i = 0 THEN 0 ELSE sum[i - 1] + t(i)
           g == [i \in 0..k |-> CASE i = 0 -> 0 [] i = 1 -> d(1) [] i = 2 -> d(1) + d(2)
                                  [] i = 3 -> d(1) + d(2) + d(3)
                                  [] OTHER -> d(1) + d(2) + d(3) + d(4)]
<1>1. \A i \in 1..k : t(i) \in Nat
    <2>1. \A x, y \in Nat : x * y \in Nat
        OBVIOUS
    <2>2. \A i \in 1..4 : Weight[i] \in Nat
        BY DEF Weight
    <2>3. \A i \in 1..k : b[i] % 128 \in Nat
        OBVIOUS
    <2> QED BY <2>1, <2>2, <2>3
<1> HIDE DEF t
<1>2. \A i \in 1..4 : d(i) \in Nat
    BY <1>1
<1>3. \A i \in 1..k : d(i) = t(i)
    OBVIOUS
<1>4. g = [i \in 0..k |-> IF i = 0 THEN 0 ELSE g[i - 1] + d(i)]
    <2> HIDE DEF d
    <2>1. DOMAIN g = 0..k /\ g[0] = 0
        OBVIOUS
    <2>2. 1 \in 0..k => g[1] = g[0] + d(1)
        BY <1>2, <2>1
    <2>3. 2 \in 0..k => g[2] = g[1] + d(2)
        BY <1>2
    <2>4. 3 \in 0..k => g[3] = g[2] + d(3)
        BY <1>2
    <2>5. 4 \in 0..k => g[4] = g[3] + d(4)
        BY <1>2
    <2>6. \A i \in 0..k : i \in {0, 1, 2, 3, 4}
        OBVIOUS
    <2>7. g = [i \in 0..k |-> g[i]]
        OBVIOUS
    <2> HIDE DEF g
    <2>8. \A i \in 0..k : g[i] = IF i = 0 THEN 0 ELSE g[i - 1] + d(i)
        BY <2>1, <2>2, <2>3, <2>4, <2>5, <2>6
    <2> QED BY <2>7, <2>8
<1>5. g = [i \in 0..k |-> IF i = 0 THEN 0 ELSE g[i - 1] + t(i)]
    <2> HIDE DEF d, g
    <2> QED BY <1>3, <1>4
<1>6. sum = [i \in 0..k |-> IF i = 0 THEN 0 ELSE sum[i - 1] + t(i)]
    <2> HIDE DEF g
    <2> QED BY <1>5
<1> HIDE DEF sum
<1>7. \A i \in 1..k : sum[i] = sum[i - 1] + d(i)
    <2> HIDE DEF d
    <2> QED BY <1>3, <1>6
<1>8. sum[0] = 0
    BY <1>6
<1>9. \A i \in 1..4 : i > k => d(i) = 0
    OBVIOUS
<1>10. sum[k] = d(1) + d(2) + d(3) + d(4)
    <2> HIDE DEF d
    <2>1. CASE k = 1
        BY <1>2, <1>7, <1>8, <1>9, <2>1
    <2>2. CASE k = 2
        BY <1>2, <1>7, <1>8, <1>9, <2>2
    <2>3. CASE k = 3
        BY <1>2, <1>7, <1>8, <1>9, <2>3
    <2>4. CASE k = 4
        BY <1>2, <1>7, <1>8, <1>9, <2>4
    <2> QED BY <2>1, <2>2, <2>3, <2>4
<1> QED BY <1>10 DEF onReadMQTTPacketLengthCompleted, sum, t, Term

\* Packets of every length that four bytes can count are read by the length they
\* were written with.
LEMMA LengthDecoded ==
    ASSUME NEW n \in Nat, n < Weight[5]
    PROVE  onReadMQTTPacketLengthCompleted(RemainingLength(n)) = n
<1>1. PICK k \in 1..4 : n < Weight[k + 1] /\ (k = 1 \/ n >= Weight[k])
    BY DEF Weight
<1> DEFINE Digit(i) == (n \div Weight[i]) % 128
           b == [i \in 1..k |-> Digit(i) + (IF i < k THEN 128 ELSE 0)]
<1>2. RemainingLength(n) = b
    BY <1>1, LengthOfBytes
<1>3. \A i \in 1..4 : Digit(i) \in 0..127
    BY DEF Weight
<1> HIDE DEF Digit
<1>4. \A i \in 1..k : /\ b[i] \in Nat /\ (b[i] < 128 <=> i = k)
                      /\ b[i] % 128 = Digit(i)
    BY <1>3
<1>5. onReadMQTTPacketLength(b) = k
    BY <1>4, LengthRead
<1> HIDE DEF b
<1>6. onReadMQTTPacketLengthCompleted(b)
        = Term(b, k, 1) + Term(b, k, 2) + Term(b, k, 3) + Term(b, k, 4)
    BY <1>4, <1>5, LengthSummed
<1> DEFINE D(i) == Digit(i) * Weight[i]
<1>7. \A i \in 1..4 : Term(b, k, i) = IF i <= k THEN D(i) ELSE 0
    BY <1>4 DEF Term
<1>8. Digit(1) = n % 128 /\ Digit(2) = (n \div 128) % 128
      /\ Digit(3) = (n \div 16384) % 128 /\ Digit(4) = (n \div 2097152) % 128
    BY DEF Digit, Weight
<1>9. D(1) = n % 128 /\ D(2) = ((n \div 128) % 128) * 128
      /\ D(3) = ((n \div 16384) % 128) * 16384 /\ D(4) = ((n \div 2097152) % 128) * 2097152
    BY <1>8 DEF Weight
<1> HIDE DEF D
<1>10. Weight[2] = 128 /\ Weight[3] = 16384 /\ Weight[4] = 2097152 /\ Weight[5] = 268435456
    BY SMT DEF Weight
<1>11. CASE k = 1
    <2>1. n < 128
        BY <1>1, <1>10, <1>11, SMT
    <2>2. n = D(1)
        BY <1>9, <2>1, SMT
    <2> QED BY <1>2, <1>6, <1>7, <1>11, <2>2, SMT
<1>12. CASE k = 2
    <2>1. n < 16384
        BY <1>1, <1>10, <1>12, SMT
    <2>2. n = D(1) + D(2)
        BY <1>9, <2>1, SMT
    <2> QED BY <1>2, <1>6, <1>7, <1>9, <1>12, <2>2, SMT
<1>13. CASE k = 3
    <2>1. n < 2097152
        BY <1>1, <1>10, <1>13, SMT
    <2>2. n = D(1) + D(2) + D(3)
        BY <1>9, <2>1, SMT
    <2> QED BY <1>2, <1>6, <1>7, <1>9, <1>13, <2>2, SMT
<1>14. CASE k = 4
    <2>1. n < 268435456
        BY <1>1, <1>10, <1>14, SMT
    <2>2. n = D(1) + D(2) + D(3) + D(4)
        <3>1. n = (n % 128) + ((n \div 128) % 128) * 128 + ((n \div 16384) % 128) * 16384
                    + ((n \div 2097152) % 128) * 2097152
            BY ONLY n \in Nat, <2>1, SMTT(30)
        <3> QED BY ONLY <1>9, <3>1, SMTT(30)
    <2> QED BY <1>2, <1>6, <1>7, <1>14, <2>2, SMT
<1> QED BY <1>11, <1>12, <1>13, <1>14
-------------------------------------------------------------------------------
MQTTSpec == MQTTInit /\ [][MQTTNext]_mqttVars

\* An operation of a connection up to g; only a request has a handler of the user's.
IsOp(o, g) ==
    /\ o = [kind |-> o.kind, gen |-> o.gen, who |-> o.who, at |-> o.at, packet |-> o.packet]
    /\ o.gen \in Nat /\ o.gen <= g
    /\ o.who \in Handlers \cup {Nobody}
    /\ o.who # Nobody => o.kind = "request"

Alike(o, x) == o.kind = x.kind /\ o.gen = x.gen /\ o.who = x.who

\* Operations of one kind under way on one connection are one, and so are those of
\* one handler.
OpsOK(os, g) ==
    /\ \A o \in os : IsOp(o, g)
    /\ \A o, x \in os : Alike(o, x) => o = x
    /\ \A o, x \in os : o.who = x.who /\ o.who # Nobody => o = x

\* The operations new come from os: no request is added, and a read goes on.
NoRequest(os, new) == \A x \in new : x.who # Nobody => \E o \in os : o.who = x.who
IsRead(os)    == \E o \in os : o.kind = "read"
Kept(os, new) == NoRequest(os, new) /\ (IsRead(os) => IsRead(new))

MQTTTypeOK ==
    /\ socket = [gen |-> socket.gen, at |-> socket.at] /\ socket.gen \in Nat
    /\ mPingTimer \in Nat /\ mPingTimer <= socket.gen
    /\ asked \in [Handlers -> {"nothing", "qos0", "qos1", "qos2", "unnumbered"}]
    /\ called \in [Handlers -> Nat]
    /\ \A t \in mTransactions : t.handler \in Handlers
    /\ misread \in BOOLEAN /\ crossed \in BOOLEAN
    /\ OpsOK(ops, socket.gen)

\* The handlers whose requests are being written.
Writing == {o.who : o \in ops}

\* How often a handler was called: with an identifier, once it is out of the table;
\* without one, not before its write is over.
Fair(h, ask, calls, waiting, writing) ==
    /\ calls \in Nat
    /\ ask \in {"nothing", "qos0", "qos1", "qos2", "unnumbered"}
    /\ ask \in {"qos1", "qos2"} /\ h \in waiting => calls = 0
    /\ ask \in {"qos1", "qos2"} /\ h \notin waiting => calls = 1
    /\ ask \in {"nothing", "unnumbered"} => calls = 0 /\ h \notin waiting
    /\ ask = "qos0" => calls <= 1 /\ h \notin waiting
    /\ ask = "qos0" /\ h \in writing => calls = 0
    /\ ask = "nothing" => h \notin writing

\* A handler is in the table once.
Answers ==
    /\ \A t, u \in mTransactions : t.handler = u.handler => t = u
    /\ \A h \in Handlers : Fair(h, asked[h], called[h], Waiting, Writing)

MQTTIInv == MQTTTypeOK /\ Answers /\ EndIsReported /\ StreamInStep

-------------------------------------------------------------------------------
(* The operations.                                                             *)

\* An operation is well formed on every connection from its own on.
LEMMA OpIsOp ==
    ASSUME NEW k, NEW g \in Nat, NEW h \in Nat, g <= h
    PROVE  IsOp(Op(k, g), h) /\ Op(k, g).who = Nobody /\ Op(k, g).kind = k /\ Op(k, g).gen = g
BY DEF IsOp, Op

\* Its result is the same operation, with a place in the queue.
LEMMA QueuedIsOp ==
    ASSUME NEW o, NEW g, IsOp(o, g), NEW r
    PROVE  IsOp(Queued(o, r), g) /\ Alike(o, Queued(o, r)) /\ Queued(o, r).kind = o.kind
           /\ Queued(o, r).who = o.who
BY DEF IsOp, Queued, Alike

\* An operation begun on the connection in use is well formed.
LEMMA StartIsOp ==
    ASSUME MQTTTypeOK, NEW k
    PROVE  IsOp(Start(k), socket.gen) /\ Start(k).who = Nobody /\ Start(k).kind = k
<1>1. IsOp(Op(k, socket.gen), socket.gen) /\ Op(k, socket.gen).who = Nobody
      /\ Op(k, socket.gen).kind = k
    <2>0. socket.gen \in Nat
        BY DEF MQTTTypeOK
    <2>1. socket.gen \in Nat /\ socket.gen <= socket.gen
        BY ONLY <2>0
    <2> QED BY <2>1, OpIsOp
<1> QED BY <1>1, QueuedIsOp DEF Start, Begun

\* Operations that are started are of different kinds.
Fresh(new, g) ==
    \A o \in new : /\ IsOp(o, g) /\ o.who = Nobody
                   /\ \A x \in new : x.kind = o.kind => x = o

\* Starting operations of kinds that are not under way keeps one of each kind.
LEMMA WithKeeps ==
    ASSUME NEW g, NEW os, OpsOK(os, g), NEW new, Fresh(new, g)
    PROVE  /\ OpsOK(With(os, new), g) /\ Kept(os, With(os, new))
           /\ IsRead(new) => IsRead(With(os, new))
<1> DEFINE added == {o \in new : \A x \in os :
                             x.kind # o.kind \/ x.gen # o.gen \/ x.who # o.who}
<1>1. With(os, new) = os \cup added
    BY DEF With
<1>2. \A o \in added, x \in os : ~Alike(o, x) /\ ~Alike(x, o)
    BY DEF Alike
<1>3. \A o \in added : o \in new /\ IsOp(o, g) /\ o.who = Nobody
    BY DEF Fresh
<1>4. \A o, x \in added : Alike(o, x) => o = x
    BY DEF Fresh, Alike
<1>5. \A o \in new \ added : \E x \in os : x.kind = o.kind
    OBVIOUS
<1> HIDE DEF added
<1>6. OpsOK(os \cup added, g)
    BY <1>2, <1>3, <1>4 DEF OpsOK
<1>7. Kept(os, os \cup added)
    BY <1>3 DEF Kept, NoRequest, IsRead
<1>8. IsRead(new) => IsRead(os \cup added)
    BY <1>5 DEF IsRead
<1> QED BY <1>1, <1>6, <1>7, <1>8

\* Operations may be dropped, the reads excepted.
LEMMA SubsetKeeps ==
    ASSUME NEW g, NEW os, OpsOK(os, g), NEW new, new \subseteq os,
           \A o \in os : o.kind = "read" => o \in new
    PROVE  OpsOK(new, g) /\ Kept(os, new)
BY DEF OpsOK, Kept, NoRequest, IsRead

\* A result is put in the place of an operation.
LEMMA ResultKeeps ==
    ASSUME NEW g, NEW os, OpsOK(os, g), NEW o \in os, NEW x, IsOp(x, g), Alike(o, x)
    PROVE  OpsOK((os \ {o}) \cup {x}, g) /\ Kept(os, (os \ {o}) \cup {x})
<1>1. \A y \in os \ {o} : ~Alike(y, x) /\ ~Alike(x, y)
    BY DEF OpsOK, Alike
<1>2. \A y \in os \ {o} : ~(y.who = x.who /\ x.who # Nobody)
    BY DEF OpsOK, Alike
<1> QED BY <1>1, <1>2 DEF OpsOK, Kept, NoRequest, IsRead, Alike

\* Closing the socket gives every operation on it a result, and drops none.
LEMMA AbortedKeeps ==
    ASSUME NEW g, NEW os, OpsOK(os, g)
    PROVE  OpsOK(Aborted(os), g) /\ Kept(os, Aborted(os))
<1> DEFINE F(o) == IF o.kind # "timer" /\ o.gen = socket.gen /\ ~IsQueued(o)
                   THEN Queued(o, "failed") ELSE o
<1>1. \A o \in os : IsOp(F(o), g) /\ Alike(o, F(o))
    <2>1. \A o \in os : IsOp(o, g) /\ Alike(o, o)
        BY DEF OpsOK, Alike
    <2>2. \A o \in os : IsOp(Queued(o, "failed"), g) /\ Alike(o, Queued(o, "failed"))
        BY <2>1, QueuedIsOp
    <2> QED BY <2>1, <2>2
<1>2. Aborted(os) = {F(o) : o \in os}
    BY DEF Aborted
<1> HIDE DEF F
<1>3. \A o, x \in os : Alike(F(o), F(x)) => o = x
    BY <1>1 DEF OpsOK, Alike
<1>4. \A o, x \in os : F(o).who = F(x).who /\ F(o).who # Nobody => o = x
    BY <1>1 DEF OpsOK, Alike
<1>5. OpsOK({F(o) : o \in os}, g)
    BY <1>1, <1>3, <1>4 DEF OpsOK
<1>6. Kept(os, {F(o) : o \in os})
    BY <1>1 DEF Kept, NoRequest, IsRead, Alike
<1> QED BY <1>2, <1>5, <1>6

\* Cancelling the timer drops no read.
LEMMA TimerCancelledKeeps ==
    ASSUME NEW g, NEW os, OpsOK(os, g)
    PROVE  OpsOK(TimerCancelled(os), g) /\ Kept(os, TimerCancelled(os))
<1>1. TimerCancelled(os) \subseteq os
    BY DEF TimerCancelled
<1>2. \A o \in os : o.kind = "read" => o \in TimerCancelled(os)
    BY DEF TimerCancelled
<1> QED BY <1>1, <1>2, SubsetKeeps

\* Two changes that add no request and keep the read do so together.
LEMMA KeptTwice ==
    ASSUME NEW a, NEW b, NEW c, Kept(a, b), Kept(b, c)
    PROVE  Kept(a, c)
BY DEF Kept, NoRequest, IsRead

\* Disconnect(true) drops no read and adds no request.
LEMMA DownKeeps ==
    ASSUME NEW g, NEW os, OpsOK(os, g)
    PROVE  /\ OpsOK(TimerCancelled(Aborted(os)), g)
           /\ Kept(os, TimerCancelled(Aborted(os)))
<1>1. OpsOK(Aborted(os), g) /\ Kept(os, Aborted(os))
    BY AbortedKeeps
<1>2. OpsOK(TimerCancelled(Aborted(os)), g) /\ Kept(Aborted(os), TimerCancelled(Aborted(os)))
    BY <1>1, TimerCancelledKeeps
<1> QED BY <1>1, <1>2, KeptTwice

\* A handler of no read runs: its operation is gone.
LEMMA GoneKeeps ==
    ASSUME NEW g, NEW os, OpsOK(os, g), NEW o, o \notin os \/ o.kind # "read"
    PROVE  OpsOK(os \ {o}, g) /\ Kept(os, os \ {o})
BY SubsetKeeps

\* Operations of earlier connections stay well formed on a later one.
LEMMA OpsGrow ==
    ASSUME NEW g \in Nat, NEW h \in Nat, g <= h, NEW os, OpsOK(os, g)
    PROVE  OpsOK(os, h)
BY DEF OpsOK, IsOp

-------------------------------------------------------------------------------
(* The answers.                                                                *)

\* No new request: every handler that is being written was being written before.
LEMMA WritingKept ==
    ASSUME NoRequest(ops, ops')
    PROVE  \A h \in Handlers : h \in Writing' => h \in Writing
BY MQTTAssumption DEF NoRequest, Writing

\* Calling handlers counts one call more for each of them.
LEMMA CallCounts ==
    ASSUME called \in [Handlers -> Nat], NEW hs, Call(hs)
    PROVE  called' \in [Handlers -> Nat]
BY DEF Call

\* Nobody is answered, and no request is made.
LEMMA AnswersStay ==
    ASSUME Answers, NoRequest(ops, ops'), UNCHANGED <<mTransactions, asked, called>>
    PROVE  Answers'
<1>1. \A h \in Handlers : h \in Writing' => h \in Writing
    BY WritingKept
<1>2. Waiting' = Waiting
    BY DEF Waiting
<1>3. \A h \in Handlers : Fair(h, asked[h], called[h], Waiting, Writing')
    BY <1>1 DEF Answers, Fair
<1> QED BY <1>2, <1>3 DEF Answers

\* The handlers cs are called: those that leave the table, hs, and others whose
\* write is over.
LEMMA AnswersGiven ==
    ASSUME Answers, UNCHANGED asked, mTransactions' \subseteq mTransactions,
           NEW cs, Call(cs), NEW hs, hs \subseteq cs,
           hs \subseteq Waiting, Waiting' = Waiting \ hs,
           \A h \in cs \ hs : asked[h] = "qos0" /\ h \in Writing /\ h \notin Writing',
           \A h \in Handlers : h \in Writing' => h \in Writing
    PROVE  Answers'
<1>1. \A h \in Handlers : called'[h] = called[h] + (IF h \in cs THEN 1 ELSE 0)
    BY DEF Call
<1>2. ASSUME NEW h \in Handlers
      PROVE  Fair(h, asked[h], called'[h], Waiting', Writing')
    <2>1. Fair(h, asked[h], called[h], Waiting, Writing)
        BY DEF Answers
    <2>2. CASE h \in hs
        <3>1. h \in Waiting /\ h \notin Waiting' /\ called'[h] = called[h] + 1
            BY <1>1, <2>2
        <3>2. called[h] = 0 /\ asked[h] \in {"qos1", "qos2"}
            BY <2>1, <3>1 DEF Fair
        <3>3. called'[h] = 1
            BY <3>1, <3>2
        <3>4. CASE asked[h] = "qos1"
            BY ONLY <3>1, <3>3, <3>4 DEF Fair
        <3>5. CASE asked[h] = "qos2"
            BY ONLY <3>1, <3>3, <3>5 DEF Fair
        <3> QED BY <3>2, <3>4, <3>5
    <2>3. CASE h \in cs \ hs
        <3>1. called'[h] = called[h] + 1 /\ h \notin Writing' /\ h \in Writing
              /\ asked[h] = "qos0" /\ (h \in Waiting' <=> h \in Waiting)
            BY <1>1, <2>3
        <3>2. called[h] = 0 /\ h \notin Waiting
            BY <2>1, <3>1 DEF Fair
        <3>3. called'[h] = 1
            BY <3>1, <3>2
        <3> QED BY <3>1, <3>2, <3>3 DEF Fair
    <2>4. CASE h \notin cs
        <3>1. called'[h] = called[h] + 0 /\ (h \in Waiting' <=> h \in Waiting)
              /\ (h \in Writing' => h \in Writing)
            BY <1>1, <2>4
        <3>2. called[h] \in Nat
            BY <2>1 DEF Fair
        <3>3. called'[h] = called[h]
            BY <3>1, <3>2
        <3> QED BY <2>1, <3>1, <3>3 DEF Fair
    <2> QED BY <2>2, <2>3, <2>4
<1>3. \A t, u \in mTransactions' : t.handler = u.handler => t = u
    BY DEF Answers
<1> QED BY <1>2, <1>3 DEF Answers

\* An acknowledgement calls the handlers of its identifier, and they wait no more.
LEMMA AnsweredByBroker ==
    ASSUME Answers, UNCHANGED asked, NEW id, EndTransaction(id), NoRequest(ops, ops')
    PROVE  Answers'
<1> DEFINE ended == {t \in mTransactions : t.id = id}
           hs == {t.handler : t \in ended}
<1>1. mTransactions' = mTransactions \ ended /\ Call(hs)
    BY DEF EndTransaction
<1>2. hs \subseteq Waiting
    BY DEF Waiting
<1>3. Waiting' = Waiting \ hs
    <2>1. Waiting' \subseteq Waiting
        BY <1>1 DEF Waiting
    <2>2. \A h \in Waiting' : h \notin hs
        BY <1>1 DEF Waiting, Answers
    <2>3. \A h \in Waiting \ hs : h \in Waiting'
        BY <1>1 DEF Waiting
    <2> QED BY <2>1, <2>2, <2>3
<1> HIDE DEF hs
<1>4. Call(hs) /\ hs \subseteq hs
    BY <1>1
<1>5. mTransactions' \subseteq mTransactions
    BY <1>1
<1>6. \A h \in Handlers : h \in Writing' => h \in Writing
    BY WritingKept
<1>7. \A h \in hs \ hs : asked[h] = "qos0" /\ h \in Writing /\ h \notin Writing'
    OBVIOUS
<1> QED BY <1>2, <1>3, <1>4, <1>5, <1>6, <1>7, AnswersGiven

-------------------------------------------------------------------------------
(* The steps.                                                                  *)

SocketOK ==
    /\ socket = [gen |-> socket.gen, at |-> socket.at] /\ socket.gen \in Nat
    /\ mPingTimer \in Nat /\ mPingTimer <= socket.gen

\* A step that changes nothing but operations, and perhaps the timer, or that says
\* that the connection is gone.
LEMMA OnlyOps ==
    ASSUME MQTTIInv, SocketOK', OpsOK(ops', socket'.gen), Kept(ops, ops'),
           UNCHANGED <<mTransactions, asked, called, misread>>,
           told' = told \/ told' = "disconnected", crossed' \in BOOLEAN, crossed => crossed'
    PROVE  MQTTIInv'
<1>1. Answers'
    BY AnswersStay DEF MQTTIInv, Kept
<1>2. EndIsReported' /\ StreamInStep'
    BY DEF MQTTIInv, EndIsReported, StreamInStep, Kept, IsRead
<1>3. MQTTTypeOK'
    BY DEF MQTTIInv, MQTTTypeOK, SocketOK
<1> QED BY <1>1, <1>2, <1>3 DEF MQTTIInv

\* Disconnect(true).
LEMMA DownStep ==
    ASSUME MQTTIInv, NEW os, OpsOK(os, socket.gen), NoRequest(ops, os),
           NEW also \in SUBSET Handlers, Down(os, also),
           \A h \in also : asked[h] = "qos0" /\ h \in Writing /\ \A x \in os : x.who # h,
           told' = "disconnected" \/ (told' = told /\ (IsRead(ops) => IsRead(os))),
           UNCHANGED <<mPingTimer, asked, misread, crossed>>
    PROVE  MQTTIInv'
<1>1. OpsOK(ops', socket.gen) /\ Kept(os, ops')
    BY DownKeeps DEF Down
<1>2. NoRequest(ops, ops')
    BY <1>1 DEF Kept, NoRequest
<1>3. socket' = [socket EXCEPT !.at = "closed"]
    BY DEF Down
<1>4. socket'.gen = socket.gen /\ SocketOK'
    BY <1>3 DEF MQTTIInv, MQTTTypeOK, SocketOK
<1>5. Answers'
    <2>1. Waiting' = {} /\ mTransactions' \subseteq mTransactions
        BY DEF Down, Waiting
    <2>2. \A h \in also : h \notin Writing'
        <3>1. \A h \in also : h # Nobody
            BY MQTTAssumption
        <3> QED BY <1>1, <3>1 DEF Kept, NoRequest, Writing
    <2>3. \A h \in Handlers : h \in Writing' => h \in Writing
        BY <1>2, WritingKept
    <2> DEFINE cs == Waiting \cup also
    <2>4. Call(cs) /\ Waiting \subseteq cs /\ Waiting' = Waiting \ Waiting
        BY <2>1 DEF Down
    <2>5. \A h \in cs \ Waiting : asked[h] = "qos0" /\ h \in Writing /\ h \notin Writing'
        BY <2>2
    <2> HIDE DEF cs
    <2> QED BY <2>1, <2>3, <2>4, <2>5, AnswersGiven DEF MQTTIInv
<1>6. EndIsReported'
    BY <1>1 DEF MQTTIInv, EndIsReported, Kept, IsRead
<1>7. MQTTTypeOK'
    <2>1. called' \in [Handlers -> Nat]
        BY CallCounts DEF MQTTIInv, MQTTTypeOK, Down
    <2>2. mTransactions' = {}
        BY DEF Down
    <2> QED BY <1>1, <1>4, <2>1, <2>2 DEF MQTTIInv, MQTTTypeOK, SocketOK
<1> QED BY <1>5, <1>6, <1>7 DEF MQTTIInv, StreamInStep

\* A read that fails ends the connection as Disconnect(true) does.
LEMMA EndsStep ==
    ASSUME MQTTIInv, NEW o \in ops, Ends(o)
    PROVE  MQTTIInv'
<1>1. OpsOK(ops \ {o}, socket.gen) /\ NoRequest(ops, ops \ {o})
    BY DEF MQTTIInv, MQTTTypeOK, OpsOK, NoRequest
<1>2. Down(ops \ {o}, {})
    BY DEF Ends
<1>3. told' = "disconnected" /\ UNCHANGED <<mPingTimer, asked, misread, crossed>>
    BY DEF Ends
<1>4. {} \in SUBSET Handlers
    OBVIOUS
<1>5. \A h \in {} : asked[h] = "qos0" /\ h \in Writing /\ \A x \in ops \ {o} : x.who # h
    OBVIOUS
<1> QED BY <1>1, <1>2, <1>3, <1>4, <1>5, DownStep

\* Disconnect(false) says good-bye when there is somebody to say it to.
LEMMA DisconnectStep ==
    ASSUME MQTTIInv, NEW f \in BOOLEAN, Disconnect(f)
    PROVE  MQTTIInv'
<1>0. OpsOK(ops, socket.gen) /\ MQTTTypeOK /\ SocketOK
    BY DEF MQTTIInv, MQTTTypeOK, SocketOK
<1>1. CASE f \/ ~mConnected
    <2>1. Down(ops, {}) /\ told' = told /\ UNCHANGED <<mPingTimer, asked, misread, crossed>>
        BY <1>1 DEF Disconnect
    <2>2. {} \in SUBSET Handlers /\ NoRequest(ops, ops)
        BY DEF NoRequest
    <2>3. \A h \in {} : asked[h] = "qos0" /\ h \in Writing /\ \A x \in ops : x.who # h
        OBVIOUS
    <2> QED BY <1>0, <2>1, <2>2, <2>3, DownStep
<1>2. CASE ~(f \/ ~mConnected)
    <2>1. ops' = With(ops, {Start("bye")})
          /\ UNCHANGED <<mTransactions, socket, called, mPingTimer, asked, told, misread, crossed>>
        BY <1>2 DEF Disconnect
    <2>2. Fresh({Start("bye")}, socket.gen)
        BY <1>0, StartIsOp DEF Fresh
    <2>3. OpsOK(ops', socket'.gen) /\ Kept(ops, ops')
        BY <1>0, <2>1, <2>2, WithKeeps
    <2>4. SocketOK' /\ crossed' \in BOOLEAN
        BY <1>0, <2>1 DEF SocketOK, MQTTTypeOK
    <2> QED BY <2>1, <2>3, <2>4, OnlyOps
<1> QED BY <1>1, <1>2

\* Connect makes a new connection number, under which no operation is known.
LEMMA MQTTConnectStep ==
    ASSUME MQTTIInv, MQTTConnect
    PROVE  MQTTIInv'
<1> DEFINE g    == socket.gen + 1
           left == IF mConnected THEN With(ops, {Start("bye")}) ELSE TimerCancelled(Aborted(ops))
<1>0. MQTTTypeOK /\ SocketOK /\ Answers /\ EndIsReported /\ StreamInStep
      /\ OpsOK(ops, socket.gen) /\ g \in Nat /\ socket.gen \in Nat
    <2>1. MQTTTypeOK /\ Answers /\ EndIsReported /\ StreamInStep
        BY DEF MQTTIInv
    <2>2. SocketOK /\ OpsOK(ops, socket.gen) /\ socket.gen \in Nat
        BY <2>1 DEF MQTTTypeOK, SocketOK
    <2>3. g \in Nat
        BY <2>2
    <2> QED BY <2>1, <2>2, <2>3
<1>1. OpsOK(left, socket.gen) /\ Kept(ops, left)
    <2>1. Fresh({Start("bye")}, socket.gen)
        BY <1>0, StartIsOp DEF Fresh
    <2>2. OpsOK(With(ops, {Start("bye")}), socket.gen) /\ Kept(ops, With(ops, {Start("bye")}))
        BY <1>0, <2>1, WithKeeps
    <2>3. OpsOK(TimerCancelled(Aborted(ops)), socket.gen)
          /\ Kept(ops, TimerCancelled(Aborted(ops)))
        BY <1>0, DownKeeps
    <2> QED BY <2>2, <2>3
<1> HIDE DEF left
<1>2. UNCHANGED <<mPingTimer, asked, misread, crossed>>
    BY DEF MQTTConnect
<1>3. \/ UNCHANGED <<mTransactions, called>>
      \/ mTransactions' = {} /\ Call(Waiting)
    BY DEF MQTTConnect
<1>4. \/ /\ socket' = [gen |-> g, at |-> "connecting"] /\ told' = told
         /\ ops' = Aborted(left) \cup {Op("connect", g)}
      \/ /\ ops' = left /\ told' = "disconnected"
         /\ socket' = socket \/ socket' = [gen |-> g, at |-> "closed"]
    BY DEF MQTTConnect, left
<1>5. OpsOK(ops', socket'.gen) /\ Kept(ops, ops') /\ SocketOK'
    <2>1. CASE /\ socket' = [gen |-> g, at |-> "connecting"]
               /\ ops' = Aborted(left) \cup {Op("connect", g)}
        <3> DEFINE os == Aborted(left)
                   new == Op("connect", g)
        <3>1. OpsOK(os, socket.gen) /\ Kept(left, os)
            BY <1>1, AbortedKeeps
        <3>2. IsOp(new, g) /\ new.who = Nobody /\ new.gen = g /\ new.kind = "connect"
            <4>1. g <= g
                BY <1>0
            <4> QED BY <1>0, <4>1, OpIsOp
        <3>3. \A o \in os : o.gen # g
            BY <1>0, <3>1 DEF OpsOK, IsOp
        <3>4. OpsOK(os, g)
            BY <1>0, <3>1, OpsGrow
        <3> HIDE DEF os, new, g
        <3>5. OpsOK(os \cup {new}, g)
            BY <3>2, <3>3, <3>4 DEF OpsOK, Alike
        <3>6. Kept(os, os \cup {new})
            BY <3>2 DEF Kept, NoRequest, IsRead
        <3>7. Kept(ops, os \cup {new})
            BY <1>1, <3>1, <3>6, KeptTwice
        <3>8. SocketOK'
            BY <1>0, <1>2, <2>1 DEF SocketOK, g
        <3> QED BY <2>1, <3>5, <3>7, <3>8 DEF os, new
    <2>2. CASE ops' = left /\ socket' = socket
        BY <1>0, <1>1, <1>2, <2>2 DEF SocketOK
    <2>3. CASE ops' = left /\ socket' = [gen |-> g, at |-> "closed"]
        <3>1. OpsOK(left, g)
            BY <1>0, <1>1, OpsGrow
        <3> QED BY <1>0, <1>1, <1>2, <2>3, <3>1 DEF SocketOK
    <2> QED BY <1>4, <2>1, <2>2, <2>3
<1>6. Answers' /\ called' \in [Handlers -> Nat]
    <2>1. CASE UNCHANGED <<mTransactions, called>>
        BY <1>0, <1>2, <1>5, <2>1, AnswersStay DEF Kept, MQTTTypeOK
    <2>2. CASE mTransactions' = {} /\ Call(Waiting)
        <3>1. Waiting' = Waiting \ Waiting /\ mTransactions' \subseteq mTransactions
            BY <2>2 DEF Waiting
        <3>2. \A h \in Handlers : h \in Writing' => h \in Writing
            BY <1>5, WritingKept DEF Kept
        <3>3. \A h \in Waiting \ Waiting : asked[h] = "qos0" /\ h \in Writing /\ h \notin Writing'
            OBVIOUS
        <3>4. Waiting \subseteq Waiting
            OBVIOUS
        <3>5. Answers'
            BY <1>0, <1>2, <2>2, <3>1, <3>2, <3>3, <3>4, AnswersGiven
        <3> QED BY <1>0, <2>2, <3>5, CallCounts DEF MQTTTypeOK
    <2> QED BY <1>3, <2>1, <2>2
<1>7. MQTTTypeOK'
    BY <1>0, <1>2, <1>3, <1>5, <1>6 DEF MQTTTypeOK, SocketOK
<1>8. EndIsReported' /\ StreamInStep'
    BY <1>0, <1>2, <1>4, <1>5 DEF EndIsReported, StreamInStep, Kept, IsRead
<1> QED BY <1>6, <1>7, <1>8 DEF MQTTIInv

\* The write of a request is an operation of its handler alone.
LEMMA RequestIsOp ==
    ASSUME MQTTTypeOK, NEW h \in Handlers
    PROVE  IsOp(Request(h), socket.gen) /\ Request(h).who = h /\ Request(h).kind = "request"
<1> DEFINE o == [Op("request", socket.gen) EXCEPT !.who = h]
<1>1. IsOp(o, socket.gen) /\ o.who = h /\ o.kind = "request"
    <2>1. socket.gen \in Nat
        BY DEF MQTTTypeOK
    <2>2. socket.gen <= socket.gen
        BY ONLY <2>1
    <2>3. o = [kind |-> "request", gen |-> socket.gen, who |-> h, at |-> "pending",
               packet |-> Nothing]
        <3> DEFINE p == Op("request", socket.gen)
        <3>1. p = [kind |-> "request", gen |-> socket.gen, who |-> Nobody, at |-> "pending",
                   packet |-> Nothing]
            BY DEF Op
        <3>2. o = [p EXCEPT !.who = h]
            OBVIOUS
        <3> HIDE DEF p, o
        <3> QED BY ONLY <3>1, <3>2
    <2> HIDE DEF o
    <2> QED BY <2>1, <2>2, <2>3 DEF IsOp
<1> HIDE DEF o
<1>2. Begun(o) = o \/ Begun(o) = Queued(o, "failed")
    BY DEF Begun
<1>3. Request(h) = Begun(o)
    BY DEF Request, o
<1> QED BY <1>1, <1>2, <1>3, QueuedIsOp

\* A handler that waits for nothing yet is given to a call.
LEMMA AskedAnswers ==
    ASSUME Answers, NEW h \in Handlers, asked[h] = "nothing", UNCHANGED called,
           asked \in [Handlers -> {"nothing", "qos0", "qos1", "qos2", "unnumbered"}],
           NEW q \in {"qos0", "qos1", "qos2", "unnumbered"},
           asked' = [asked EXCEPT ![h] = q],
           \/ mTransactions' = mTransactions /\ q \in {"qos0", "unnumbered"}
           \/ q \in {"qos1", "qos2"} /\ \E id : mTransactions' = mTransactions \cup {[id |-> id, handler |-> h]},
           \A k \in Handlers : k # h /\ k \in Writing' => k \in Writing
    PROVE  Answers'
<1>1. h \notin Waiting /\ called[h] = 0
    BY DEF Answers, Fair
<1>2. /\ \A t, u \in mTransactions' : t.handler = u.handler => t = u
      /\ \/ Waiting' = Waiting /\ q \in {"qos0", "unnumbered"}
         \/ Waiting' = Waiting \cup {h} /\ q \in {"qos1", "qos2"}
    <2>1. CASE mTransactions' = mTransactions /\ q \in {"qos0", "unnumbered"}
        BY <2>1 DEF Waiting, Answers
    <2>2. CASE q \in {"qos1", "qos2"}
               /\ \E id : mTransactions' = mTransactions \cup {[id |-> id, handler |-> h]}
        <3>1. PICK t : t.handler = h /\ mTransactions' = mTransactions \cup {t}
            BY <2>2
        <3>2. Waiting' = Waiting \cup {h}
            BY <3>1 DEF Waiting
        <3>3. \A u \in mTransactions : u.handler # h
            BY <1>1 DEF Waiting
        <3>4. \A u, v \in mTransactions' : u.handler = v.handler => u = v
            BY <3>1, <3>3 DEF Answers
        <3> QED BY <2>2, <3>2, <3>4
    <2> QED BY <2>1, <2>2
<1>3. called'[h] = 0 /\ asked'[h] = q
    BY <1>1
<1>4. Fair(h, asked'[h], called'[h], Waiting', Writing')
    <2>1. CASE Waiting' = Waiting /\ q = "qos0"
        <3>1. called'[h] = 0 /\ asked'[h] = "qos0" /\ h \notin Waiting'
            BY <1>1, <1>3, <2>1
        <3> QED BY ONLY <3>1 DEF Fair
    <2>2. CASE Waiting' = Waiting /\ q = "unnumbered"
        <3>1. called'[h] = 0 /\ asked'[h] = "unnumbered" /\ h \notin Waiting'
            BY <1>1, <1>3, <2>2
        <3> QED BY ONLY <3>1 DEF Fair
    <2>3. CASE Waiting' = Waiting \cup {h} /\ q = "qos1"
        <3>1. called'[h] = 0 /\ asked'[h] = "qos1" /\ h \in Waiting'
            BY <1>3, <2>3
        <3> QED BY ONLY <3>1 DEF Fair
    <2>4. CASE Waiting' = Waiting \cup {h} /\ q = "qos2"
        <3>1. called'[h] = 0 /\ asked'[h] = "qos2" /\ h \in Waiting'
            BY <1>3, <2>4
        <3> QED BY ONLY <3>1 DEF Fair
    <2> QED BY <1>2, <2>1, <2>2, <2>3, <2>4
<1>5. ASSUME NEW k \in Handlers, k # h
      PROVE  Fair(k, asked'[k], called'[k], Waiting', Writing')
    <2>1. Fair(k, asked[k], called[k], Waiting, Writing) /\ asked'[k] = asked[k]
        BY <1>5 DEF Answers
    <2>2. (k \in Waiting' <=> k \in Waiting) /\ (k \in Writing' => k \in Writing)
        BY <1>2, <1>5
    <2> QED BY <2>1, <2>2 DEF Fair
<1> QED BY <1>2, <1>4, <1>5 DEF Answers

\* Publish, Subscribe and Unsubscribe.
LEMMA PublishStep ==
    ASSUME MQTTIInv, NEW h \in Handlers, NEW q \in {"qos0", "qos1", "qos2"}, Publish(h, q)
    PROVE  MQTTIInv'
<1>0. MQTTTypeOK /\ SocketOK /\ Answers /\ EndIsReported /\ StreamInStep
      /\ OpsOK(ops, socket.gen)
    BY DEF MQTTIInv, MQTTTypeOK, SocketOK
<1>1. UNCHANGED <<mPingTimer, socket, called, told, misread, crossed>> /\ asked[h] = "nothing"
      /\ ops' = With(ops, {Request(h)})
    BY DEF Publish
<1>2. IsOp(Request(h), socket.gen) /\ Request(h).who = h /\ Request(h).kind = "request"
    BY <1>0, RequestIsOp
<1>3. \A x \in ops : x.who # h
    BY <1>0, <1>1 DEF Answers, Fair, Writing
<1>4. ops' = ops \cup {Request(h)}
    BY <1>1, <1>2, <1>3 DEF With
<1>5. h # Nobody
    BY MQTTAssumption
<1>6. OpsOK(ops', socket.gen) /\ (IsRead(ops) => IsRead(ops'))
    BY <1>0, <1>2, <1>3, <1>4, <1>5 DEF OpsOK, Alike, IsRead
<1>7. \A k \in Handlers : k # h /\ k \in Writing' => k \in Writing
    BY <1>2, <1>4 DEF Writing
<1>8. PICK r \in {"qos0", "qos1", "qos2", "unnumbered"} :
        /\ asked' = [asked EXCEPT ![h] = r]
        /\ \/ mTransactions' = mTransactions /\ r \in {"qos0", "unnumbered"}
           \/ r \in {"qos1", "qos2"}
              /\ \E id : mTransactions' = mTransactions \cup {[id |-> id, handler |-> h]}
    <2>1. CASE q = "qos0"
        BY <2>1 DEF Publish
    <2>2. CASE q # "qos0"
        <3> DEFINE id == BeginTransaction({t.id : t \in mTransactions})
        <3>1. Track(h, q)
            BY <2>2 DEF Publish
        <3>2. CASE id = 0
            BY <3>1, <3>2 DEF Track
        <3>3. CASE id # 0
            <4>1. asked' = [asked EXCEPT ![h] = q]
                  /\ mTransactions' = mTransactions \cup {[id |-> id, handler |-> h]}
                BY <3>1, <3>3 DEF Track
            <4> HIDE DEF id
            <4> QED BY <2>2, <4>1
        <3> QED BY <3>2, <3>3
    <2> QED BY <2>1, <2>2
<1>9. Answers'
    BY <1>0, <1>1, <1>7, <1>8, AskedAnswers DEF MQTTTypeOK
<1>10. MQTTTypeOK'
    <2>1. asked' \in [Handlers -> {"nothing", "qos0", "qos1", "qos2", "unnumbered"}]
        BY <1>0, <1>8 DEF MQTTTypeOK
    <2>2. \A t \in mTransactions' : t.handler \in Handlers
        <3>1. \A t \in mTransactions : t.handler \in Handlers
            BY <1>0 DEF MQTTTypeOK
        <3>2. CASE mTransactions' = mTransactions
            BY <3>1, <3>2
        <3>3. CASE \E id : mTransactions' = mTransactions \cup {[id |-> id, handler |-> h]}
            <4>1. PICK t : t.handler = h /\ mTransactions' = mTransactions \cup {t}
                BY <3>3
            <4> QED BY <3>1, <4>1
        <3> QED BY <1>8, <3>2, <3>3
    <2> QED BY <1>0, <1>1, <1>6, <2>1, <2>2 DEF MQTTTypeOK
<1>11. EndIsReported' /\ StreamInStep'
    BY <1>0, <1>1, <1>6 DEF EndIsReported, StreamInStep, IsRead
<1> QED BY <1>9, <1>10, <1>11 DEF MQTTIInv

\* What the invariant says of the variables that the next steps leave alone.
LEMMA MQTTParts ==
    ASSUME MQTTIInv
    PROVE  /\ MQTTTypeOK /\ SocketOK /\ Answers /\ EndIsReported /\ StreamInStep
           /\ OpsOK(ops, socket.gen) /\ socket.gen \in Nat
           /\ UNCHANGED <<socket, mPingTimer>> => SocketOK'
BY DEF MQTTIInv, MQTTTypeOK, SocketOK

\* The operating system finishes an operation: its handler is queued, none has run.
LEMMA ResultsStep ==
    ASSUME MQTTIInv, NEW o \in ops, ~IsQueued(o),
           \/ Succeeds(o) \/ Fails(o) \/ \E p \in owed \cup Unasked : Arrives(o, p)
    PROVE  MQTTIInv'
<1>0. OpsOK(ops, socket.gen) /\ SocketOK /\ IsOp(o, socket.gen) /\ socket.gen \in Nat
    BY MQTTParts DEF OpsOK
<1>1. PICK rs : Results(o, rs)
                /\ \/ rs = {} /\ o.kind # "read"
                   \/ \E x : rs = {x} /\ IsOp(x, socket.gen) /\ Alike(o, x)
    <2>1. \A r : IsOp(Queued(o, r), socket.gen) /\ Alike(o, Queued(o, r))
        BY <1>0, QueuedIsOp
    <2>2. CASE Succeeds(o)
        BY <2>1, <2>2 DEF Succeeds
    <2>3. CASE Fails(o)
        BY <2>1, <2>3 DEF Fails
    <2>4. CASE \E p \in owed \cup Unasked : Arrives(o, p)
        <3>1. PICK p : Results(o, {[Queued(o, "done") EXCEPT !.packet = p]})
            BY <2>4 DEF Arrives
        <3>2. \A x : IsOp(x, socket.gen) /\ Alike(o, x)
                     => IsOp([x EXCEPT !.packet = p], socket.gen)
                        /\ Alike(o, [x EXCEPT !.packet = p])
            BY DEF IsOp, Alike
        <3> QED BY <2>1, <3>1, <3>2
    <2> QED BY <2>2, <2>3, <2>4
<1>2. ops' = (ops \ {o}) \cup rs
      /\ UNCHANGED <<mTransactions, mPingTimer, asked, called, told, misread, crossed>>
    BY <1>1 DEF Results, callVars
<1>3. OpsOK(ops', socket.gen) /\ Kept(ops, ops')
    <2>1. CASE rs = {} /\ o.kind # "read"
        BY <1>0, <1>2, <2>1, GoneKeeps
    <2>2. CASE \E x : rs = {x} /\ IsOp(x, socket.gen) /\ Alike(o, x)
        BY <1>0, <1>2, <2>2, ResultKeeps
    <2> QED BY <1>1, <2>1, <2>2
<1>4. socket' = socket \/ socket' = [socket EXCEPT !.at = "up"]
    BY DEF Succeeds, Fails, Arrives
<1>5. socket'.gen = socket.gen /\ SocketOK'
    BY <1>0, <1>2, <1>4 DEF SocketOK
<1>6. crossed' \in BOOLEAN /\ (crossed => crossed')
    BY <1>2, MQTTParts DEF MQTTTypeOK
<1> QED BY <1>2, <1>3, <1>5, <1>6, OnlyOps

\* A handler of no read runs and starts the operations new, after what it cancels.
LEMMA ThenStarts ==
    ASSUME MQTTIInv, NEW o \in ops, o.kind # "read", NEW os,
           os = ops \/ os = TimerCancelled(ops), NEW new, Fresh(new, socket.gen)
    PROVE  /\ OpsOK(With(os \ {o}, new), socket.gen)
           /\ Kept(ops, With(os \ {o}, new))
<1>0. OpsOK(ops, socket.gen)
    BY MQTTParts
<1>1. OpsOK(os, socket.gen) /\ Kept(ops, os)
    BY <1>0, TimerCancelledKeeps DEF Kept, NoRequest
<1>2. OpsOK(os \ {o}, socket.gen) /\ Kept(os, os \ {o})
    BY <1>1, GoneKeeps
<1>3. OpsOK(With(os \ {o}, new), socket.gen) /\ Kept(os \ {o}, With(os \ {o}, new))
    BY <1>2, WithKeeps
<1> QED BY <1>1, <1>2, <1>3, KeptTwice

\* The TCP connection is there: the client greets the broker.
LEMMA OnConnectedStep ==
    ASSUME MQTTIInv, NEW o \in ops, OnConnected(o)
    PROVE  MQTTIInv'
<1>1. UNCHANGED <<mTransactions, mPingTimer, socket, asked, called, misread>>
      /\ o.kind = "connect" /\ (told' = told \/ told' = "disconnected")
    BY DEF OnConnected, callVars
<1>2. PICK new \in {{}, {Start("greet")}} : ops' = With(ops \ {o}, new)
    BY DEF OnConnected, Then
<1>3. Fresh(new, socket.gen)
    BY MQTTParts, StartIsOp DEF Fresh
<1>4. OpsOK(ops', socket.gen) /\ Kept(ops, ops')
    BY <1>1, <1>2, <1>3, ThenStarts
<1>5. crossed' \in BOOLEAN /\ (crossed => crossed')
    BY MQTTParts DEF OnConnected, Crosses, MQTTTypeOK
<1>6. SocketOK' /\ socket'.gen = socket.gen
    BY <1>1, MQTTParts
<1> QED BY <1>1, <1>4, <1>5, <1>6, OnlyOps

\* The greeting is written: the first read begins, and the pings if asked for.
LEMMA GreetedStep ==
    ASSUME MQTTIInv, NEW o \in ops, NEW k \in BOOLEAN, Greeted(o, k)
    PROVE  MQTTIInv'
<1>1. UNCHANGED <<mTransactions, socket, asked, called, told, misread>> /\ o.kind = "greet"
      /\ (mPingTimer' = mPingTimer \/ mPingTimer' = o.gen)
    BY DEF Greeted, callVars
<1>2. IsOp(o, socket.gen) /\ o.gen \in Nat /\ o.gen <= socket.gen
    BY MQTTParts DEF OpsOK, IsOp
<1> DEFINE os  == IF k THEN TimerCancelled(ops) ELSE ops
           new == (IF k THEN {Op("timer", o.gen)} ELSE {}) \cup {Start("read")}
<1>3. ops' = With(os \ {o}, new)
    BY DEF Greeted
<1>4. Fresh(new, socket.gen)
    <2>1. IsOp(Start("read"), socket.gen) /\ Start("read").who = Nobody /\ Start("read").kind = "read"
        BY MQTTParts, StartIsOp
    <2>2. IsOp(Op("timer", o.gen), socket.gen) /\ Op("timer", o.gen).who = Nobody
          /\ Op("timer", o.gen).kind = "timer"
        BY <1>2, MQTTParts, OpIsOp
    <2> QED BY <2>1, <2>2 DEF Fresh
<1>5. OpsOK(ops', socket.gen) /\ Kept(ops, ops')
    <2> HIDE DEF new
    <2> QED BY <1>1, <1>3, <1>4, ThenStarts
<1>6. crossed' \in BOOLEAN /\ (crossed => crossed')
    BY MQTTParts DEF Greeted, Crosses, MQTTTypeOK
<1>7. SocketOK' /\ socket'.gen = socket.gen
    BY <1>1, <1>2, MQTTParts DEF SocketOK
<1> QED BY <1>1, <1>5, <1>6, <1>7, OnlyOps

\* The timer rings: a ping is written, or the timer is left to a later connection.
LEMMA PingStep ==
    ASSUME MQTTIInv, NEW o \in ops, onStartPingTimer(o)
    PROVE  MQTTIInv'
<1>1. UNCHANGED <<mTransactions, mPingTimer, socket, asked, called, told, misread, crossed>>
      /\ o.kind = "timer"
    BY DEF onStartPingTimer, callVars
<1> DEFINE os  == TimerCancelled(ops \ {o})
           new == {Start("write"), Op("timer", mPingTimer)}
<1>2. ops' = With(os, new)
    BY DEF onStartPingTimer
<1>3. Fresh(new, socket.gen)
    <2>1. IsOp(Start("write"), socket.gen) /\ Start("write").who = Nobody
          /\ Start("write").kind = "write"
        BY MQTTParts, StartIsOp
    <2>2. IsOp(Op("timer", mPingTimer), socket.gen) /\ Op("timer", mPingTimer).who = Nobody
          /\ Op("timer", mPingTimer).kind = "timer"
        BY MQTTParts, OpIsOp DEF SocketOK
    <2> QED BY <2>1, <2>2 DEF Fresh
<1>4. OpsOK(ops', socket.gen) /\ Kept(ops, ops')
    <2> HIDE DEF new
    <2>1. OpsOK(ops \ {o}, socket.gen) /\ Kept(ops, ops \ {o})
        BY <1>1, MQTTParts, GoneKeeps
    <2>2. OpsOK(os, socket.gen) /\ Kept(ops \ {o}, os)
        BY <2>1, TimerCancelledKeeps
    <2>3. OpsOK(With(os, new), socket.gen) /\ Kept(os, With(os, new))
        BY <1>3, <2>2, WithKeeps
    <2> QED BY <1>2, <2>1, <2>2, <2>3, KeptTwice
<1>5. crossed' \in BOOLEAN /\ (crossed => crossed') /\ SocketOK' /\ socket'.gen = socket.gen
    BY <1>1, MQTTParts DEF MQTTTypeOK
<1> QED BY <1>1, <1>4, <1>5, OnlyOps

\* A write is over: a request without an identifier is answered by that.
LEMMA WrittenStep ==
    ASSUME MQTTIInv, NEW o \in ops, Written(o)
    PROVE  MQTTIInv'
<1> DEFINE alone == IF o.who # Nobody /\ asked[o.who] = "qos0" THEN {o.who} ELSE {}
<1>0. OpsOK(ops, socket.gen) /\ IsOp(o, socket.gen)
    BY MQTTParts DEF OpsOK
<1>1. o.kind # "read" /\ UNCHANGED <<mPingTimer, asked, misread, crossed>>
    BY DEF Written
<1>2. \/ Down(ops \ {o}, alone) /\ (told' = told \/ told' = "disconnected")
      \/ /\ Then(o, {}) /\ Call(alone)
         /\ UNCHANGED <<mTransactions, socket, told>>
    BY DEF Written
<1>3. alone \in SUBSET Handlers
    BY <1>0 DEF IsOp
<1>4. \A h \in alone : asked[h] = "qos0" /\ h \in Writing /\ \A x \in ops \ {o} : x.who # h
    BY <1>0 DEF OpsOK, Writing
<1> HIDE DEF alone
<1>5. OpsOK(ops \ {o}, socket.gen) /\ Kept(ops, ops \ {o})
    BY <1>0, <1>1, GoneKeeps
<1>6. CASE Down(ops \ {o}, alone) /\ (told' = told \/ told' = "disconnected")
    BY <1>1, <1>3, <1>4, <1>5, <1>6, DownStep DEF Kept
<1>7. CASE Then(o, {}) /\ Call(alone) /\ UNCHANGED <<mTransactions, socket, told>>
    <2>1. ops' = ops \ {o}
        BY <1>7 DEF Then, With
    <2>2. \A h \in Handlers : h \in Writing' => h \in Writing
        BY <1>5, <2>1, WritingKept DEF Kept
    <2>3. {} \subseteq alone /\ {} \subseteq Waiting /\ Waiting' = Waiting \ {}
          /\ mTransactions' \subseteq mTransactions
        BY <1>7 DEF Waiting
    <2>4. \A h \in alone \ {} : asked[h] = "qos0" /\ h \in Writing /\ h \notin Writing'
        BY <1>4, <2>1 DEF Writing
    <2>5. Answers'
        BY <1>1, <1>7, <2>2, <2>3, <2>4, MQTTParts, AnswersGiven
    <2>6. called' \in [Handlers -> Nat]
        BY <1>7, MQTTParts, CallCounts DEF MQTTTypeOK
    <2>7. MQTTTypeOK'
        BY <1>1, <1>5, <1>7, <2>1, <2>6, MQTTParts DEF MQTTTypeOK
    <2>8. EndIsReported' /\ StreamInStep'
        BY <1>1, <1>5, <1>7, <2>1, MQTTParts DEF EndIsReported, StreamInStep, Kept, IsRead
    <2> QED BY <2>5, <2>7, <2>8 DEF MQTTIInv
<1> QED BY <1>2, <1>6, <1>7

\* A packet was read, and the next read is begun: on the same connection there is no
\* other one.
LEMMA ReadsStep ==
    ASSUME MQTTIInv, ~crossed, NEW o \in ops, o.kind = "read",
           NEW new \in {{}, {Start("write")}}, Reads(o, new)
    PROVE  /\ OpsOK(ops', socket.gen) /\ NoRequest(ops, ops') /\ SocketOK' /\ socket' = socket
           /\ EndIsReported' /\ StreamInStep' /\ misread' \in BOOLEAN /\ crossed' \in BOOLEAN
           /\ UNCHANGED asked
<1>0. OpsOK(ops, socket.gen) /\ SocketOK /\ MQTTTypeOK /\ StreamInStep
    BY MQTTParts
<1> DEFINE all == new \cup {Start("read")}
<1>1. ops' = With(ops \ {o}, all) /\ UNCHANGED <<mPingTimer, socket, asked>>
      /\ misread' = (misread \/ \E x \in ops \ {o} : x.kind = "read" /\ x.gen = socket.gen)
      /\ crossed' = (crossed \/ o.gen # socket.gen)
    BY DEF Reads, Then, Crosses
<1>2. Fresh(all, socket.gen) /\ IsRead(all)
    BY <1>0, StartIsOp DEF Fresh, IsRead
<1>3. OpsOK(ops \ {o}, socket.gen) /\ NoRequest(ops, ops \ {o})
    BY <1>0 DEF OpsOK, NoRequest
<1> HIDE DEF all
<1>4. OpsOK(ops', socket.gen) /\ Kept(ops \ {o}, ops') /\ IsRead(ops')
    BY <1>1, <1>2, <1>3, WithKeeps
<1>5. NoRequest(ops, ops')
    BY <1>3, <1>4 DEF Kept, NoRequest
<1>6. \A x \in ops \ {o} : x.kind = "read" => x.gen # o.gen
    <2>1. \A x \in ops : x.kind = "read" => x.who = Nobody
        BY <1>0 DEF OpsOK, IsOp
    <2> QED BY <1>0, <2>1 DEF OpsOK, Alike
<1>7. misread' => crossed'
    BY <1>0, <1>1, <1>6 DEF StreamInStep
<1>8. EndIsReported'
    BY <1>4 DEF EndIsReported, IsRead
<1> QED BY <1>0, <1>1, <1>4, <1>5, <1>7, <1>8, MQTTParts DEF StreamInStep, MQTTTypeOK

\* CONNACK: the connection is reported, or refused and ended.
LEMMA AcceptedStep ==
    ASSUME MQTTIInv, ~crossed, NEW o \in ops, o.kind = "read", NEW b \in BOOLEAN, Accepted(o, b)
    PROVE  MQTTIInv'
<1>1. CASE b
    BY <1>1, EndsStep DEF Accepted
<1>2. CASE ~b
    <2>1. Reads(o, {}) /\ UNCHANGED <<mTransactions, called>>
        BY <1>2 DEF Accepted
    <2>2. /\ OpsOK(ops', socket.gen) /\ NoRequest(ops, ops') /\ SocketOK' /\ socket' = socket
          /\ EndIsReported' /\ StreamInStep' /\ misread' \in BOOLEAN /\ crossed' \in BOOLEAN
          /\ UNCHANGED asked
        BY <2>1, ReadsStep
    <2>3. Answers'
        BY <2>1, <2>2, MQTTParts, AnswersStay
    <2>4. MQTTTypeOK'
        BY <2>1, <2>2, MQTTParts DEF MQTTTypeOK, SocketOK
    <2> QED BY <2>2, <2>3, <2>4 DEF MQTTIInv
<1> QED BY <1>1, <1>2

\* A packet of the broker calls those who waited for it, and the next read begins.
LEMMA PacketStep ==
    ASSUME MQTTIInv, ~crossed, NEW o \in ops, o.kind = "read", onReadMQTTPacketCompleted(o)
    PROVE  MQTTIInv'
<1>1. PICK new \in {{}, {Start("write")}} : Reads(o, new)
    BY DEF onReadMQTTPacketCompleted
<1>2. /\ OpsOK(ops', socket.gen) /\ NoRequest(ops, ops') /\ SocketOK' /\ socket' = socket
      /\ EndIsReported' /\ StreamInStep' /\ misread' \in BOOLEAN /\ crossed' \in BOOLEAN
      /\ UNCHANGED asked
    BY <1>1, ReadsStep
<1>3. EndTransaction(o.packet.id) \/ UNCHANGED <<mTransactions, called>>
    BY DEF onReadMQTTPacketCompleted
<1>4. Answers'
    BY <1>2, <1>3, MQTTParts, AnswersStay, AnsweredByBroker
<1>5. called' \in [Handlers -> Nat] /\ mTransactions' \subseteq mTransactions
    BY <1>3, MQTTParts, CallCounts DEF EndTransaction, MQTTTypeOK
<1>6. MQTTTypeOK'
    BY <1>2, <1>5, MQTTParts DEF MQTTTypeOK, SocketOK
<1> QED BY <1>2, <1>4, <1>6 DEF MQTTIInv

\* A packet is read whole: its length is understood as it was meant.
LEMMA ReadStep ==
    ASSUME MQTTIInv, ~crossed, NEW o \in ops, NEW n \in PacketLengths, ReadMQTTPacket(o, n)
    PROVE  MQTTIInv'
<1>1. o.kind = "read"
    BY DEF ReadMQTTPacket
<1>2. onReadMQTTPacketLengthCompleted(RemainingLength(n)) = n
    <2>1. LongestPacket \in Nat /\ Weight[5] = LongestPacket + 1
        BY SMT DEF LongestPacket, Weight
    <2>2. n \in 0..LongestPacket
        BY MQTTAssumption
    <2>3. n \in Nat /\ n < Weight[5]
        BY <2>1, <2>2, SMT
    <2> QED BY <2>3, LengthDecoded
<1>3. Ends(o) \/ (\E b \in BOOLEAN : Accepted(o, b)) \/ onReadMQTTPacketCompleted(o)
    BY <1>2 DEF ReadMQTTPacket, ReadEnds
<1> QED BY <1>1, <1>3, EndsStep, AcceptedStep, PacketStep

-------------------------------------------------------------------------------
\* A client that was never connected owes no answer.
LEMMA MQTTInitially == MQTTInit => MQTTIInv
<1> SUFFICES ASSUME MQTTInit PROVE MQTTIInv
    OBVIOUS
<1>1. MQTTTypeOK
    <2>1. socket = [gen |-> 0, at |-> "closed"] /\ mPingTimer = 0
        BY DEF MQTTInit
    <2>2. /\ socket = [gen |-> socket.gen, at |-> socket.at]
          /\ socket.gen \in Nat /\ mPingTimer \in Nat /\ mPingTimer <= socket.gen
        BY <2>1, SMT
    <2>3. /\ asked \in [Handlers -> {"nothing", "qos0", "qos1", "qos2", "unnumbered"}]
          /\ called \in [Handlers -> Nat]
        BY DEF MQTTInit
    <2>4. /\ \A t \in mTransactions : t.handler \in Handlers
          /\ misread \in BOOLEAN /\ crossed \in BOOLEAN
        BY DEF MQTTInit
    <2>5. OpsOK(ops, socket.gen)
        BY DEF MQTTInit, OpsOK
    <2> QED BY <2>2, <2>3, <2>4, <2>5 DEF MQTTTypeOK
<1>2. Answers
    BY DEF MQTTInit, Answers, Fair, Waiting, Writing
<1> QED BY <1>1, <1>2 DEF MQTTInit, MQTTIInv, EndIsReported, StreamInStep

\* Every call, every result and every handler keeps the invariant.
LEMMA MQTTStep == MQTTIInv /\ [MQTTNext]_mqttVars => MQTTIInv'
<1> SUFFICES ASSUME MQTTIInv, [MQTTNext]_mqttVars
             PROVE  MQTTIInv'
    OBVIOUS
<1>1. CASE MQTTNext
    <2>0. ~crossed
        BY <1>1 DEF MQTTNext
    <2>1. CASE MQTTConnect
        BY <2>1, MQTTConnectStep
    <2>2. ASSUME NEW f \in BOOLEAN, Disconnect(f) PROVE MQTTIInv'
        BY <2>2, DisconnectStep
    <2>3. ASSUME NEW h \in Handlers, NEW q \in {"qos0", "qos1", "qos2"}, Publish(h, q)
          PROVE  MQTTIInv'
        BY <2>3, PublishStep
    <2>4. ASSUME NEW o \in ops,
                 \/ Succeeds(o) \/ Fails(o) \/ \E p \in owed \cup Unasked : Arrives(o, p)
          PROVE  MQTTIInv'
        <3>1. ~IsQueued(o)
            BY <2>4 DEF Succeeds, Fails, Arrives
        <3> QED BY <2>4, <3>1, ResultsStep
    <2>5. ASSUME NEW o \in ops, OnConnected(o) PROVE MQTTIInv'
        BY <2>5, OnConnectedStep
    <2>6. ASSUME NEW o \in ops, onStartPingTimer(o) PROVE MQTTIInv'
        BY <2>6, PingStep
    <2>7. ASSUME NEW o \in ops, Written(o) PROVE MQTTIInv'
        BY <2>7, WrittenStep
    <2>8. ASSUME NEW o \in ops, NEW n \in PacketLengths, ReadMQTTPacket(o, n)
          PROVE  MQTTIInv'
        BY <2>0, <2>8, ReadStep
    <2>9. ASSUME NEW o \in ops, NEW k \in KeepAlives, Greeted(o, k) PROVE MQTTIInv'
        <3>1. k \in BOOLEAN
            BY MQTTAssumption
        <3> QED BY <2>9, <3>1, GreetedStep
    <2> QED BY <1>1, <2>1, <2>2, <2>3, <2>4, <2>5, <2>6, <2>7, <2>8, <2>9 DEF MQTTNext
<1>2. CASE UNCHANGED mqttVars
    <2>1. UNCHANGED <<mTransactions, mPingTimer, socket, ops, asked, called, told, misread, crossed>>
        BY <1>2 DEF mqttVars, callVars
    <2>2. Kept(ops, ops') /\ SocketOK' /\ crossed' \in BOOLEAN
        BY <2>1, MQTTParts DEF Kept, NoRequest, MQTTTypeOK
    <2> QED BY <2>1, <2>2, MQTTParts, OnlyOps
<1> QED BY <1>1, <1>2

\* Connects, drops and requests in any order: the invariant of the client holds.
THEOREM MQTTInvariant == MQTTSpec => []MQTTIInv
BY MQTTInitially, MQTTStep, PTL DEF MQTTSpec

\* No handler has been called twice, whatever it was passed to.
LEMMA AnswersAreOnce == MQTTIInv => AnsweredOnce
BY DEF MQTTIInv, Answers, AnsweredOnce, Fair

\* A handler passed to Publish, Subscribe or Unsubscribe is called once at most, by
\* the broker's answer, by the end of its write or by the end of the connection.
THEOREM MQTTAnswers == MQTTSpec => []AnsweredOnce
BY MQTTInvariant, AnswersAreOnce, PTL

\* A connection that the client was told of is not lost without telling it so.
THEOREM MQTTEndIsReported == MQTTSpec => []EndIsReported
<1>1. MQTTIInv => EndIsReported
    BY DEF MQTTIInv
<1> QED BY <1>1, MQTTInvariant, PTL

\* Packets are read from where they begin: no length is misread.
THEOREM MQTTStreamInStep == MQTTSpec => []StreamInStep
<1>1. MQTTIInv => StreamInStep
    BY DEF MQTTIInv
<1> QED BY <1>1, MQTTInvariant, PTL

-------------------------------------------------------------------------------
(* The buffer of blocks.  What it holds is the join of its blocks, and each   *)
(* call is shown to edit one block, or to add whole ones, where the sequence  *)
(* of all bytes is edited; so the blocks implement ByteSequence.              *)

-------------------------------------------------------------------------------
(* A sequence cut in two, and edits of a joined one.                           *)

\* What Take and Drop give.
LEMMA TakeDrop ==
    ASSUME NEW S, NEW s \in Seq(S), NEW n \in Nat
    PROVE  /\ Take(s, n) \in Seq(S) /\ Drop(s, n) \in Seq(S)
           /\ Len(Take(s, n)) = IF n < Len(s) THEN n ELSE Len(s)
           /\ Len(Drop(s, n)) = IF n < Len(s) THEN Len(s) - n ELSE 0
           /\ \A i \in 1..Len(Take(s, n)) : Take(s, n)[i] = s[i]
           /\ \A i \in 1..Len(Drop(s, n)) : Drop(s, n)[i] = s[i + n]
<1> DEFINE m == IF n < Len(s) THEN n ELSE Len(s)
<1>1. Len(s) \in Nat /\ m \in Nat /\ m <= Len(s)
    OBVIOUS
<1>2. \A i \in 1..m : s[i] \in S
    BY <1>1
<1>3. \A i \in (n + 1)..Len(s) : s[i] \in S
    BY <1>1
<1>4. /\ SubSeq(s, 1, m) \in Seq(S) /\ Len(SubSeq(s, 1, m)) = m
      /\ \A i \in 1..m : SubSeq(s, 1, m)[i] = s[i]
    <2> HIDE DEF m
    <2>1. /\ SubSeq(s, 1, m) \in Seq(S)
          /\ Len(SubSeq(s, 1, m)) = IF 1 <= m THEN m - 1 + 1 ELSE 0
          /\ \A i \in 1..(m - 1 + 1) : SubSeq(s, 1, m)[i] = s[1 + i - 1]
        BY <1>1, <1>2, SubSeqProperties
    <2> QED BY <1>1, <2>1
<1>5. /\ SubSeq(s, n + 1, Len(s)) \in Seq(S)
      /\ Len(SubSeq(s, n + 1, Len(s))) = IF n + 1 <= Len(s) THEN Len(s) - (n + 1) + 1 ELSE 0
      /\ \A i \in 1..(Len(s) - (n + 1) + 1) : SubSeq(s, n + 1, Len(s))[i] = s[n + 1 + i - 1]
    BY <1>1, <1>3, SubSeqProperties
<1> QED BY <1>1, <1>4, <1>5 DEF Take, Drop

\* Nothing taken, everything taken.
LEMMA CutAtEnds ==
    ASSUME NEW S, NEW s \in Seq(S), NEW n \in Nat
    PROVE  /\ Take(s, 0) = <<>> /\ Drop(s, 0) = s
           /\ n >= Len(s) => Take(s, n) = s /\ Drop(s, n) = <<>>
<1>1. Len(Take(s, 0)) = 0 /\ Take(s, 0) \in Seq(S)
    BY TakeDrop
<1>2. Take(s, 0) = <<>>
    BY <1>1, EmptySeq
<1>3. Drop(s, 0) = s
    BY TakeDrop, SeqEqual
<1>4. ASSUME n >= Len(s) PROVE Take(s, n) = s /\ Drop(s, n) = <<>>
    <2>1. Take(s, n) = s
        BY <1>4, TakeDrop, SeqEqual
    <2>2. Len(Drop(s, n)) = 0 /\ Drop(s, n) \in Seq(S)
        BY <1>4, TakeDrop
    <2> QED BY <2>1, <2>2, EmptySeq
<1> QED BY <1>2, <1>3, <1>4

\* The two parts make up the whole.
LEMMA CutJoined ==
    ASSUME NEW S, NEW s \in Seq(S), NEW n \in Nat
    PROVE  Take(s, n) \o Drop(s, n) = s
<1> DEFINE a == Take(s, n)
           b == Drop(s, n)
<1>1. /\ a \in Seq(S) /\ b \in Seq(S) /\ Len(a) + Len(b) = Len(s)
      /\ \A i \in 1..Len(a) : a[i] = s[i]
      /\ \A i \in 1..Len(b) : b[i] = s[Len(a) + i]
    <2>1. /\ a \in Seq(S) /\ b \in Seq(S) /\ Len(a) = (IF n < Len(s) THEN n ELSE Len(s))
          /\ Len(b) = IF n < Len(s) THEN Len(s) - n ELSE 0
          /\ \A i \in 1..Len(a) : a[i] = s[i]
          /\ \A i \in 1..Len(b) : b[i] = s[i + n]
        BY TakeDrop
    <2> HIDE DEF a, b
    <2>2. Len(s) \in Nat
        OBVIOUS
    <2>3. Len(a) + Len(b) = Len(s)
        BY <2>1, <2>2
    <2>4. ASSUME NEW i \in 1..Len(b) PROVE b[i] = s[Len(a) + i]
        <3>1. i + n = Len(a) + i
            BY <2>1, <2>2
        <3>2. b[i] = s[i + n]
            BY <2>1
        <3> QED BY <3>1, <3>2
    <2> QED BY <2>1, <2>3, <2>4
<1> HIDE DEF a, b
<1> DEFINE t == a \o b
<1>2. /\ t \in Seq(S) /\ Len(t) = Len(a) + Len(b)
      /\ \A i \in 1..Len(a) : t[i] = a[i]
      /\ \A i \in 1..Len(b) : t[Len(a) + i] = b[i]
    BY <1>1, Joined
<1> HIDE DEF t
<1>3. \A i \in 1..Len(s) : i \in 1..Len(a) \/ \E j \in 1..Len(b) : i = Len(a) + j
    <2> TAKE i \in 1..Len(s)
    <2>1. CASE i <= Len(a)
        BY <2>1, <1>1
    <2>2. CASE i > Len(a)
        <3>1. i - Len(a) \in 1..Len(b) /\ i = Len(a) + (i - Len(a))
            BY <2>2, <1>1
        <3> QED BY <3>1
    <2> QED BY <2>1, <2>2, <1>1
<1>4. \A i \in 1..Len(s) : t[i] = s[i]
    BY <1>1, <1>2, <1>3
<1>5. t = s
    BY <1>1, <1>2, <1>4, SeqEqual
<1> QED BY <1>5 DEF t, a, b

\* A joined sequence cut where it was joined.
LEMMA CutWhereJoined ==
    ASSUME NEW S, NEW s \in Seq(S), NEW t \in Seq(S)
    PROVE  Take(s \o t, Len(s)) = s /\ Drop(s \o t, Len(s)) = t
<1> DEFINE w == s \o t
<1>1. /\ w \in Seq(S) /\ Len(w) = Len(s) + Len(t)
      /\ \A i \in 1..Len(s) : w[i] = s[i]
      /\ \A i \in 1..Len(t) : w[Len(s) + i] = t[i]
    BY Joined
<1> HIDE DEF w
<1> DEFINE a == Take(w, Len(s))
           b == Drop(w, Len(s))
<1>2. /\ a \in Seq(S) /\ b \in Seq(S)
      /\ Len(a) = (IF Len(s) < Len(w) THEN Len(s) ELSE Len(w))
      /\ Len(b) = IF Len(s) < Len(w) THEN Len(w) - Len(s) ELSE 0
      /\ \A i \in 1..Len(a) : a[i] = w[i]
      /\ \A i \in 1..Len(b) : b[i] = w[i + Len(s)]
    BY <1>1, TakeDrop
<1> HIDE DEF a, b
<1>3. Len(a) = Len(s) /\ Len(b) = Len(t)
    BY <1>1, <1>2
<1>4. a = s
    BY <1>1, <1>2, <1>3, SeqEqual
<1>5. \A i \in 1..Len(t) : b[i] = t[i]
    BY <1>1, <1>2, <1>3
<1>6. b = t
    BY <1>2, <1>3, <1>5, SeqEqual
<1> QED BY <1>4, <1>6 DEF a, b, w

\* A joined sequence cut within or at the end of its first part.
LEMMA CutBefore ==
    ASSUME NEW S, NEW s \in Seq(S), NEW t \in Seq(S), NEW n \in 0..Len(s)
    PROVE  Take(s \o t, n) = Take(s, n) /\ Drop(s \o t, n) = Drop(s, n) \o t
<1> DEFINE a == Take(s, n)
           b == Drop(s, n)
<1>1. a \in Seq(S) /\ b \in Seq(S) /\ Len(a) = n /\ s = a \o b
    <2>1. Len(a) = IF n < Len(s) THEN n ELSE Len(s)
        BY TakeDrop
    <2>2. a \in Seq(S) /\ b \in Seq(S) /\ s = a \o b
        BY TakeDrop, CutJoined
    <2> HIDE DEF a, b
    <2> QED BY <2>1, <2>2
<1> HIDE DEF a, b
<1>2. s \o t = a \o (b \o t) /\ b \o t \in Seq(S)
    BY <1>1, ConcatAssociative, Joined
<1>3. Take(a \o (b \o t), Len(a)) = a /\ Drop(a \o (b \o t), Len(a)) = b \o t
    BY <1>1, <1>2, CutWhereJoined
<1> QED BY <1>1, <1>2, <1>3 DEF a, b

\* A joined sequence cut within its second part.
LEMMA CutBehind ==
    ASSUME NEW S, NEW s \in Seq(S), NEW t \in Seq(S), NEW n \in Nat
    PROVE  /\ Take(s \o t, Len(s) + n) = s \o Take(t, n)
           /\ Drop(s \o t, Len(s) + n) = Drop(t, n)
<1> DEFINE a == Take(t, n)
           b == Drop(t, n)
<1>1. a \in Seq(S) /\ b \in Seq(S) /\ t = a \o b /\ Len(a) = IF n < Len(t) THEN n ELSE Len(t)
    BY TakeDrop, CutJoined
<1>2. CASE n <= Len(t)
    <2> HIDE DEF a, b
    <2>1. Len(a) = n
        BY <1>1, <1>2
    <2>4. s \o (a \o b) = (s \o a) \o b
        BY <1>1, ConcatAssociative, SMTT(60)
    <2>5. s \o a \in Seq(S) /\ Len(s \o a) = Len(s) + Len(a)
        BY <1>1, Joined
    <2>2. s \o t = (s \o a) \o b /\ s \o a \in Seq(S) /\ Len(s \o a) = Len(s) + n
        BY <1>1, <2>1, <2>4, <2>5
    <2>3. Take((s \o a) \o b, Len(s \o a)) = s \o a /\ Drop((s \o a) \o b, Len(s \o a)) = b
        BY <1>1, <2>2, CutWhereJoined
    <2> QED BY <2>2, <2>3 DEF a, b
<1>3. CASE n > Len(t)
    <2>1. a = t /\ b = <<>>
        BY <1>3, CutAtEnds
    <2>2. s \o t \in Seq(S) /\ Len(s) + n \in Nat /\ Len(s) + n >= Len(s \o t)
        BY <1>3, Joined
    <2>3. Take(s \o t, Len(s) + n) = s \o t /\ Drop(s \o t, Len(s) + n) = <<>>
        BY <2>2, CutAtEnds
    <2> QED BY <2>1, <2>3
<1> QED BY <1>2, <1>3
-------------------------------------------------------------------------------
(* What a list of blocks contains.                                             *)

\* f[i] is what the first i blocks of bs contain.
Flat(bs, S, f) ==
    /\ f \in [0..Len(bs) -> Seq(S)] /\ f[0] = <<>>
    /\ \A i \in 1..Len(bs) : f[i] = f[i - 1] \o bs[i]

\* What is computed from block to block exists.
LEMMA FlatExists ==
    ASSUME NEW S, NEW bs \in Seq(Seq(S))
    PROVE  \E f : Flat(bs, S, f)
<1> DEFINE To(n, f) ==
               /\ f \in [0..n -> Seq(S)] /\ f[0] = <<>>
               /\ \A i \in 1..n : f[i] = f[i - 1] \o bs[i]
           Bad == {n \in 0..Len(bs) : ~\E f : To(n, f)}
<1>1. Bad = {}
    <2>1. SUFFICES ASSUME Bad # {} PROVE FALSE
        OBVIOUS
    <2>2. Bad \in SUBSET Nat
        <3>1. Bad \subseteq 0..Len(bs)
            BY Zenon
        <3>2. 0..Len(bs) \subseteq Nat
            OBVIOUS
        <3> QED BY <3>1, <3>2, Zenon
    <2>3. PICK m \in Bad : \A j \in Bad : m <= j
        <3> HIDE DEF Bad
        <3> QED BY <2>1, <2>2, LeastIndex
    <2>4. m \in 0..Len(bs) /\ ~\E f : To(m, f)
        OBVIOUS
    <2>5. m # 0
        <3>1. To(0, [i \in 0..0 |-> <<>>])
            OBVIOUS
        <3> QED BY <2>4, <3>1
    <2>6. m - 1 \in 0..Len(bs) /\ m - 1 \notin Bad
        <3> HIDE DEF Bad
        <3> QED BY <2>3, <2>4, <2>5
    <2>7. PICK f : To(m - 1, f)
        BY <2>6
    <2> DEFINE g == [i \in 0..m |-> IF i = m THEN f[m - 1] \o bs[m] ELSE f[i]]
    <2>8. f \in [0..(m - 1) -> Seq(S)] /\ bs[m] \in Seq(S) /\ m \in Nat /\ m > 0
        BY <2>4, <2>5, <2>7
    <2>9. f[m - 1] \o bs[m] \in Seq(S)
        BY <2>8
    <2>10. g \in [0..m -> Seq(S)] /\ g[0] = <<>>
        BY <2>7, <2>8, <2>9
    <2>11. ASSUME NEW i \in 1..m PROVE g[i] = g[i - 1] \o bs[i]
        <3>1. i \in 0..m /\ i - 1 \in 0..m /\ i - 1 # m
            BY <2>8
        <3>2. g[i - 1] = f[i - 1] /\ g[i] = IF i = m THEN f[m - 1] \o bs[m] ELSE f[i]
            BY <3>1
        <3>3. i # m => i \in 1..(m - 1)
            BY <2>8
        <3>4. i # m => f[i] = f[i - 1] \o bs[i]
            BY <2>7, <3>3
        <3> QED BY <3>2, <3>4
    <2>12. To(m, g)
        BY <2>10, <2>11
    <2> QED BY <2>4, <2>12
<1>2. Len(bs) \in 0..Len(bs)
    OBVIOUS
<1>3. PICK f : To(Len(bs), f)
    BY <1>1, <1>2
<1> QED BY <1>3 DEF Flat

\* And there is only one.
LEMMA FlatUnique ==
    ASSUME NEW S, NEW bs \in Seq(Seq(S)), NEW f, NEW g,
           f \in [0..Len(bs) -> Seq(S)],
           g = [i \in 0..Len(bs) |-> IF i = 0 THEN <<>> ELSE g[i - 1] \o bs[i]],
           Flat(bs, S, f)
    PROVE  g = f
<1> DEFINE Bad == {n \in 0..Len(bs) : f[n] # g[n]}
<1>1. Bad = {}
    <2>1. SUFFICES ASSUME Bad # {} PROVE FALSE
        OBVIOUS
    <2>2. Bad \in SUBSET Nat
        <3>1. Bad \subseteq 0..Len(bs)
            BY Zenon
        <3>2. 0..Len(bs) \subseteq Nat
            OBVIOUS
        <3> QED BY <3>1, <3>2, Zenon
    <2>3. PICK m \in Bad : \A j \in Bad : m <= j
        <3> HIDE DEF Bad
        <3> QED BY <2>1, <2>2, LeastIndex
    <2>4. m \in 0..Len(bs) /\ f[m] # g[m]
        OBVIOUS
    <2>5. m # 0
        BY <2>4 DEF Flat
    <2>6. m - 1 \in 0..Len(bs) /\ m - 1 \notin Bad
        <3> HIDE DEF Bad
        <3> QED BY <2>3, <2>4, <2>5
    <2>7. f[m - 1] = g[m - 1]
        BY <2>6
    <2>8. m \in 1..Len(bs) /\ g[m] = g[m - 1] \o bs[m]
        <3>1. g[m] = IF m = 0 THEN <<>> ELSE g[m - 1] \o bs[m]
            BY ONLY <2>4, g = [i \in 0..Len(bs) |-> IF i = 0 THEN <<>> ELSE g[i - 1] \o bs[i]]
        <3>2. m \in 1..Len(bs)
            BY <2>4, <2>5
        <3> QED BY <2>5, <3>1, <3>2
    <2>9. f[m] = f[m - 1] \o bs[m]
        BY <2>8 DEF Flat
    <2> QED BY <2>4, <2>7, <2>8, <2>9
<1>2. \A n \in 0..Len(bs) : f[n] = g[n]
    BY <1>1
<1> QED BY <1>2

\* The contents are what the last of them is.
LEMMA ContentsIs ==
    ASSUME NEW S, NEW bs \in Seq(Seq(S)), NEW f, Flat(bs, S, f)
    PROVE  Contents(bs) = f[Len(bs)]
<1> DEFINE upTo == CHOOSE h : h = [i \in 0..Len(bs) |-> IF i = 0 THEN <<>> ELSE h[i - 1] \o bs[i]]
<1>1. f = [i \in 0..Len(bs) |-> IF i = 0 THEN <<>> ELSE f[i - 1] \o bs[i]]
    <2>1. /\ f \in [0..Len(bs) -> Seq(S)] /\ f[0] = <<>>
          /\ \A i \in 1..Len(bs) : f[i] = f[i - 1] \o bs[i]
        BY DEF Flat
    <2>2. ASSUME NEW i \in 0..Len(bs)
          PROVE  f[i] = IF i = 0 THEN <<>> ELSE f[i - 1] \o bs[i]
        <3>1. i = 0 \/ i \in 1..Len(bs)
            OBVIOUS
        <3> QED BY <2>1, <3>1
    <2>3. f = [i \in 0..Len(bs) |-> f[i]]
        BY <2>1
    <2> QED BY <2>2, <2>3, Zenon
<1>2. upTo = [i \in 0..Len(bs) |-> IF i = 0 THEN <<>> ELSE upTo[i - 1] \o bs[i]]
    BY <1>1
<1>3. Contents(bs) = upTo[Len(bs)]
    BY DEF Contents
<1> HIDE DEF upTo
<1>4. upTo = f
    BY <1>2, FlatUnique DEF Flat
<1> QED BY <1>3, <1>4

\* Nothing in no block; one block's bytes in one block; and one list's contents
\* behind another's.
LEMMA ContentsNone == ASSUME NEW S PROVE Contents(<<>>) = <<>>
<1> DEFINE bs == <<>>
           f == [i \in 0..0 |-> <<>>]
<1>1. bs \in Seq(Seq(S)) /\ Len(bs) = 0 /\ <<>> \in Seq(S)
    OBVIOUS
<1> HIDE DEF bs
<1>2. Flat(bs, S, f)
    BY <1>1 DEF Flat
<1>3. f[0] = <<>>
    OBVIOUS
<1> HIDE DEF f
<1>4. Contents(bs) = <<>>
    BY <1>1, <1>2, <1>3, ContentsIs
<1> QED BY <1>4 DEF bs

\* One block: its bytes.
LEMMA ContentsOne == ASSUME NEW S, NEW x \in Seq(S) PROVE Contents(<<x>>) = x
<1> DEFINE bs == <<x>>
           f == [i \in 0..1 |-> IF i = 0 THEN <<>> ELSE x]
<1>1. bs \in Seq(Seq(S)) /\ Len(bs) = 1 /\ bs[1] = x /\ <<>> \in Seq(S) /\ <<>> \o x = x
    OBVIOUS
<1> HIDE DEF bs
<1>2. f \in [0..1 -> Seq(S)] /\ f[0] = <<>> /\ f[1] = x
    BY <1>1
<1> HIDE DEF f
<1>3. Flat(bs, S, f)
    BY <1>1, <1>2 DEF Flat
<1>4. Contents(bs) = x
    BY <1>1, <1>2, <1>3, ContentsIs
<1> QED BY <1>4 DEF bs

\* Two lists in a row: the bytes of the one, then those of the other.
LEMMA ContentsJoined ==
    ASSUME NEW S, NEW cs \in Seq(Seq(S)), NEW bs \in Seq(Seq(S))
    PROVE  /\ Contents(cs) \in Seq(S) /\ Contents(bs) \in Seq(S)
           /\ Contents(cs \o bs) = Contents(cs) \o Contents(bs)
<1> DEFINE T == Seq(S)
<1>18. cs \in Seq(T) /\ bs \in Seq(T)
    OBVIOUS
<1> HIDE DEF T
<1>0. Len(cs) \in Nat /\ Len(bs) \in Nat
    BY <1>18
<1>19. /\ cs \o bs \in Seq(T) /\ Len(cs \o bs) = Len(cs) + Len(bs)
       /\ \A i \in 1..Len(cs) : (cs \o bs)[i] = cs[i]
       /\ \A i \in 1..Len(bs) : (cs \o bs)[Len(cs) + i] = bs[i]
    BY <1>18, Joined
<1>17. \A p, q, r \in Seq(S) : (p \o q) \o r = p \o (q \o r)
    BY ConcatAssociative, SMTT(60)
<1>1. PICK f : Flat(cs, S, f)
    BY FlatExists
<1>2. PICK g : Flat(bs, S, g)
    BY FlatExists
<1> DEFINE k == Len(cs)
           n == Len(bs)
<1>3. k \in Nat /\ n \in Nat
    BY <1>0
<1>4. /\ f \in [0..k -> Seq(S)] /\ f[0] = <<>>
      /\ \A i \in 1..k : f[i] = f[i - 1] \o cs[i]
    BY <1>1 DEF Flat
<1>5. /\ g \in [0..n -> Seq(S)] /\ g[0] = <<>>
      /\ \A i \in 1..n : g[i] = g[i - 1] \o bs[i]
    BY <1>2 DEF Flat
<1> DEFINE w == cs \o bs
<1>6. /\ w \in Seq(Seq(S)) /\ Len(w) = k + n
      /\ \A i \in 1..k : w[i] = cs[i]
      /\ \A i \in 1..n : w[k + i] = bs[i]
    BY <1>19 DEF T
<1>7. \A i \in 1..n : bs[i] \in Seq(S)
    OBVIOUS
<1>8. Contents(cs) = f[k] /\ Contents(bs) = g[n]
    BY <1>1, <1>2, ContentsIs
<1> HIDE DEF k, n, w
<1> DEFINE h == [i \in 0..k + n |-> IF i <= k THEN f[i] ELSE f[k] \o g[i - k]]
<1>9. \A i \in 0..n : h[k + i] = f[k] \o g[i]
    <2> TAKE i \in 0..n
    <2>1. f[k] \in Seq(S)
        BY <1>3, <1>4
    <2>2. f[k] \o g[0] = f[k]
        BY <1>5, <2>1, ConcatEmptySeq
    <2>3. k + i \in 0..k + n /\ (k + i) - k = i /\ (k + i <= k <=> i = 0) /\ k + 0 = k
        BY <1>3
    <2> QED BY <2>2, <2>3
<1>10. h \in [0..k + n -> Seq(S)] /\ h[0] = <<>>
    <2>1. ASSUME NEW i \in 0..k + n PROVE h[i] \in Seq(S)
        <3>1. CASE i <= k
            BY <1>3, <1>4, <3>1
        <3>2. CASE i > k
            <4>3. k \in 0..k /\ i - k \in 0..n /\ ~(i <= k)
                BY <1>3, <3>2
            <4>1. k \in 0..k /\ i - k \in 0..n /\ h[i] = f[k] \o g[i - k]
                BY <4>3
            <4>2. f[k] \in Seq(S) /\ g[i - k] \in Seq(S)
                BY <1>4, <1>5, <4>1
            <4> QED BY <4>1, <4>2, Joined
        <3> QED BY <1>3, <3>1, <3>2
    <2>2. 0 \in 0..k + n /\ h[0] = f[0]
        BY <1>3
    <2> QED BY <1>4, <2>1, <2>2
<1>11. ASSUME NEW i \in 1..k + n PROVE h[i] = h[i - 1] \o w[i]
    <2>1. CASE i <= k
        <3>1. i \in 1..k /\ i - 1 <= k /\ i - 1 \in 0..k + n /\ i \in 0..k + n
            BY <1>3, <2>1
        <3>2. h[i] = f[i] /\ h[i - 1] = f[i - 1]
            BY <2>1, <3>1
        <3> QED BY <1>4, <1>6, <3>1, <3>2
    <2>2. CASE i > k
        <3> DEFINE j == i - k
        <3>1. j \in 1..n /\ j \in 0..n /\ j - 1 \in 0..n /\ i = k + j /\ i - 1 = k + (j - 1)
            BY <1>3, <2>2
        <3> HIDE DEF j, h
        <3>2. h[i] = f[k] \o g[j] /\ h[i - 1] = f[k] \o g[j - 1]
            BY <1>9, <3>1
        <3>3. g[j] = g[j - 1] \o bs[j] /\ w[i] = bs[j]
            BY <1>5, <1>6, <3>1
        <3>4. f[k] \in Seq(S) /\ g[j - 1] \in Seq(S) /\ bs[j] \in Seq(S)
            BY <1>3, <1>4, <1>5, <1>7, <3>1
        <3>5. (f[k] \o g[j - 1]) \o bs[j] = f[k] \o (g[j - 1] \o bs[j])
            BY <1>17, <3>4
        <3>6. f[k] \o (g[j - 1] \o bs[j]) = f[k] \o g[j]
            BY <3>3
        <3>7. (f[k] \o g[j - 1]) \o bs[j] = h[i - 1] \o w[i]
            BY <3>2, <3>3
        <3> QED BY <3>2, <3>5, <3>6, <3>7, Zenon
    <2>3. i <= k \/ i > k
        BY <1>3
    <2> QED BY <2>1, <2>2, <2>3, Zenon
<1>12. n \in 0..n /\ h[k + n] = f[k] \o g[n]
    <2> HIDE DEF h
    <2>1. n \in 0..n
        BY <1>3
    <2> QED BY <1>9, <2>1
<1> HIDE DEF h
<1>13. Flat(w, S, h)
    BY <1>6, <1>10, <1>11 DEF Flat
<1>14. Contents(w) = h[k + n]
    BY <1>6, <1>13, ContentsIs
<1>15. k \in 0..k /\ n \in 0..n
    BY <1>3
<1>16. f[k] \in Seq(S) /\ g[n] \in Seq(S)
    BY <1>4, <1>5, <1>15
<1> QED BY <1>8, <1>12, <1>14, <1>16 DEF w

\* How many bytes lie before a block.
LEMMA BeforeIs ==
    ASSUME NEW S, NEW bs \in Seq(Seq(S)), NEW f, Flat(bs, S, f), NEW b \in 1..Len(bs) + 1
    PROVE  Before(bs, b) = Len(f[b - 1])
<1> DEFINE At(h, i) == IF i = 1 THEN 0 ELSE h[i - 1] + Len(bs[i - 1])
           upTo == CHOOSE h : h = [i \in 1..b |-> At(h, i)]
           u == [i \in 1..b |-> Len(f[i - 1])]
<1>1. /\ f \in [0..Len(bs) -> Seq(S)] /\ f[0] = <<>>
      /\ \A i \in 1..Len(bs) : f[i] = f[i - 1] \o bs[i]
    BY DEF Flat
<1>2. Len(bs) \in Nat /\ b \in Nat /\ b >= 1 /\ b - 1 <= Len(bs)
    OBVIOUS
<1>3. ASSUME NEW i \in 1..Len(bs) PROVE Len(f[i]) = Len(f[i - 1]) + Len(bs[i])
    <2>1. bs[i] \in Seq(S) /\ i - 1 \in 0..Len(bs)
        OBVIOUS
    <2>2. f[i - 1] \in Seq(S) /\ f[i] = f[i - 1] \o bs[i]
        BY <1>1, <2>1, Zenon
    <2>3. Len(f[i - 1] \o bs[i]) = Len(f[i - 1]) + Len(bs[i])
        BY <2>1, <2>2, Joined
    <2> QED BY <2>2, <2>3, Zenon
<1>4. ASSUME NEW i \in 1..b PROVE u[i] = At(u, i)
    <2>1. CASE i = 1
        <3>1. u[1] = Len(f[0]) /\ Len(f[0]) = 0
            BY <1>1, <2>1
        <3> QED BY <2>1, <3>1
    <2>2. CASE i # 1
        <3>1. i - 1 \in 1..Len(bs) /\ i - 1 \in 1..b
            BY <1>2, <2>2
        <3>2. u[i] = Len(f[i - 1]) /\ u[i - 1] = Len(f[i - 1 - 1])
            BY <3>1
        <3> QED BY <1>3, <2>2, <3>1, <3>2
    <2> QED BY <2>1, <2>2
<1>5. u = [i \in 1..b |-> At(u, i)]
    <2>1. u = [i \in 1..b |-> u[i]]
        OBVIOUS
    <2> HIDE DEF u, At
    <2> QED BY <1>4, <2>1, Zenon
<1>6. upTo = [i \in 1..b |-> At(upTo, i)]
    <2> HIDE DEF u, At
    <2> QED BY <1>5
<1>7. Before(bs, b) = upTo[b]
    BY DEF Before
<1> HIDE DEF u, upTo
<1>8. \A i \in 1..b : u[i] = At(u, i) /\ upTo[i] = At(upTo, i)
    BY <1>4, <1>6
<1> DEFINE Bad == {i \in 1..b : u[i] # upTo[i]}
<1>9. Bad = {}
    <2>1. SUFFICES ASSUME Bad # {} PROVE FALSE
        OBVIOUS
    <2>2. Bad \in SUBSET Nat
        <3>1. Bad \subseteq 1..b
            BY Zenon
        <3>2. 1..b \subseteq Nat
            OBVIOUS
        <3> QED BY <3>1, <3>2, Zenon
    <2>3. PICK m \in Bad : \A j \in Bad : m <= j
        <3> HIDE DEF Bad
        <3> QED BY <2>1, <2>2, LeastIndex
    <2>4. m \in 1..b /\ u[m] # upTo[m]
        OBVIOUS
    <2>5. m # 1
        BY <1>8, <2>4
    <2>6. m - 1 \in 1..b /\ m - 1 \notin Bad
        <3> HIDE DEF Bad
        <3> QED BY <2>3, <2>4, <2>5
    <2>7. u[m - 1] = upTo[m - 1]
        BY <2>6
    <2> QED BY <1>8, <2>4, <2>5, <2>7
<1>10. b \in 1..b /\ u[b] = upTo[b]
    BY <1>2, <1>9
<1>11. u[b] = Len(f[b - 1])
    BY <1>10 DEF u
<1> QED BY <1>7, <1>10, <1>11

\* A block among the others.
LEMMA BlockBetween ==
    ASSUME NEW S, NEW bs \in Seq(Seq(S)), NEW b \in 1..Len(bs)
    PROVE  /\ bs = Take(bs, b - 1) \o (<<bs[b]>> \o Drop(bs, b))
           /\ Take(bs, b - 1) \in Seq(Seq(S)) /\ Drop(bs, b) \in Seq(Seq(S)) /\ bs[b] \in Seq(S)
           /\ Len(Take(bs, b - 1)) = b - 1
<1> DEFINE T == Seq(S)
<1>1. bs \in Seq(T) /\ bs[b] \in T /\ b \in Nat /\ b - 1 \in Nat /\ b - 1 < Len(bs) /\ Len(bs) \in Nat
    OBVIOUS
<1> HIDE DEF T
<1>2. /\ Take(bs, b - 1) \in Seq(T) /\ Drop(bs, b) \in Seq(T) /\ Drop(bs, b - 1) \in Seq(T)
      /\ Len(Take(bs, b - 1)) = b - 1
    BY <1>1, TakeDrop
<1>3. bs = Take(bs, b - 1) \o Drop(bs, b - 1)
    BY <1>1, CutJoined
<1>4. Drop(bs, b - 1) = <<bs[b]>> \o Drop(bs, b)
    <2>1. SubSeq(bs, b, Len(bs)) = <<bs[b]>> \o SubSeq(bs, b + 1, Len(bs))
        <3>1. b \in 1..Len(bs) /\ Len(bs) \in b..Len(bs)
            BY <1>1
        <3> QED BY <1>1, <3>1, SubSeqRecursiveFirst
    <2>2. b - 1 + 1 = b
        BY <1>1
    <2> QED BY <2>1, <2>2 DEF Drop
<1> QED BY <1>1, <1>2, <1>3, <1>4 DEF T

\* What lies before a block, in it, and behind it.
LEMMA BlockContents ==
    ASSUME NEW S, NEW bs \in Seq(Seq(S)), NEW b \in 1..Len(bs)
    PROVE  /\ Contents(Take(bs, b - 1)) \in Seq(S) /\ Contents(Drop(bs, b)) \in Seq(S)
           /\ Contents(bs) = Contents(Take(bs, b - 1)) \o (bs[b] \o Contents(Drop(bs, b)))
           /\ Len(Contents(Take(bs, b - 1))) = Before(bs, b)
           /\ Before(bs, b + 1) = Before(bs, b) + Len(bs[b])
           /\ bs[b] \in Seq(S)
<1> DEFINE p == Take(bs, b - 1)
           q == Drop(bs, b)
<1>1. /\ bs = p \o (<<bs[b]>> \o q) /\ p \in Seq(Seq(S)) /\ q \in Seq(Seq(S)) /\ bs[b] \in Seq(S)
      /\ Len(p) = b - 1
    BY BlockBetween
<1>2. <<bs[b]>> \in Seq(Seq(S)) /\ <<bs[b]>> \o q \in Seq(Seq(S))
    <2> DEFINE T == Seq(S)
    <2>1. q \in Seq(T) /\ bs[b] \in T
        BY <1>1
    <2> HIDE DEF T, q
    <2>2. <<bs[b]>> \in Seq(T)
        BY <2>1
    <2>3. <<bs[b]>> \o q \in Seq(T)
        BY <2>1, <2>2, Joined
    <2> QED BY <2>2, <2>3 DEF T
<1>3. Contents(p \o (<<bs[b]>> \o q)) = Contents(p) \o Contents(<<bs[b]>> \o q)
    BY <1>1, <1>2, ContentsJoined
<1>4. Contents(<<bs[b]>> \o q) = Contents(<<bs[b]>>) \o Contents(q)
    BY <1>1, <1>2, ContentsJoined
<1>5. Contents(<<bs[b]>>) = bs[b]
    BY <1>1, ContentsOne
<1>6. Contents(p) \in Seq(S) /\ Contents(q) \in Seq(S)
    BY <1>1, ContentsJoined
<1>7. PICK f : Flat(bs, S, f)
    BY FlatExists
<1>8. /\ f \in [0..Len(bs) -> Seq(S)] /\ f[0] = <<>>
      /\ \A i \in 1..Len(bs) : f[i] = f[i - 1] \o bs[i]
    BY <1>7 DEF Flat
<1>9. b \in 1..Len(bs) + 1 /\ b + 1 \in 1..Len(bs) + 1 /\ (b + 1) - 1 = b /\ b - 1 \in 0..Len(bs) /\ b \in Nat
    OBVIOUS
<1>10. Before(bs, b) = Len(f[b - 1]) /\ Before(bs, b + 1) = Len(f[b])
    <2>1. Before(bs, b) = Len(f[b - 1])
        BY <1>7, <1>9, BeforeIs
    <2>2. Before(bs, b + 1) = Len(f[(b + 1) - 1])
        BY <1>7, <1>9, BeforeIs
    <2> QED BY <1>9, <2>1, <2>2
<1>11. Len(f[b]) = Len(f[b - 1]) + Len(bs[b])
    <2>1. f[b - 1] \in Seq(S) /\ f[b] = f[b - 1] \o bs[b]
        BY <1>8, <1>9
    <2> QED BY <1>1, <2>1, Joined
<1>12. Contents(p) = f[b - 1]
    <2> DEFINE g == [i \in 0..b - 1 |-> f[i]]
    <2>1. \A i \in 1..b - 1 : p[i] = bs[i]
        <3> DEFINE T == Seq(S)
        <3>1. bs \in Seq(T) /\ b - 1 \in Nat
            OBVIOUS
        <3> HIDE DEF T
        <3>2. \A i \in 1..Len(Take(bs, b - 1)) : Take(bs, b - 1)[i] = bs[i]
            BY <3>1, TakeDrop
        <3> QED BY <1>1, <3>2
    <2>2. g \in [0..b - 1 -> Seq(S)] /\ g[0] = <<>>
        <3>1. 0..b - 1 \subseteq 0..Len(bs) /\ 0 \in 0..b - 1
            BY <1>9
        <3> QED BY <1>8, <3>1
    <2>3. ASSUME NEW i \in 1..b - 1 PROVE g[i] = g[i - 1] \o p[i]
        <3>1. i \in 1..Len(bs) /\ i \in 0..b - 1 /\ i - 1 \in 0..b - 1
            BY <1>9
        <3>2. g[i] = f[i] /\ g[i - 1] = f[i - 1] /\ p[i] = bs[i] /\ f[i] = f[i - 1] \o bs[i]
            BY <1>8, <2>1, <3>1
        <3> QED BY <3>2
    <2>4. g[b - 1] = f[b - 1]
        BY <1>9
    <2> HIDE DEF g, p
    <2>5. Flat(p, S, g)
        BY <1>1, <2>2, <2>3 DEF Flat
    <2> QED BY <1>1, <2>4, <2>5, ContentsIs
<1> QED BY <1>1, <1>3, <1>4, <1>5, <1>6, <1>10, <1>11, <1>12

\* All bytes lie before the end of the list.
LEMMA BeforeAll ==
    ASSUME NEW S, NEW bs \in Seq(Seq(S))
    PROVE  Before(bs, Len(bs) + 1) = Len(Contents(bs))
<1>1. PICK f : Flat(bs, S, f)
    BY FlatExists
<1>2. Len(bs) \in Nat /\ Len(bs) + 1 \in 1..Len(bs) + 1 /\ Len(bs) + 1 - 1 = Len(bs)
    OBVIOUS
<1>3. Before(bs, Len(bs) + 1) = Len(f[Len(bs) + 1 - 1])
    BY <1>1, <1>2, BeforeIs
<1> QED BY <1>1, <1>2, <1>3, ContentsIs

\* A block is found for every offset within the contents.
LEMMA BlockFound ==
    ASSUME NEW S, NEW bs \in Seq(Seq(S)), NEW index \in Nat, index < Len(Contents(bs))
    PROVE  LET b == FindBlockByOffset(bs, index)
           IN b \in 1..Len(bs) /\ Before(bs, b) <= index /\ index < Before(bs, b) + Len(bs[b])
<1> DEFINE Covers(b) == Before(bs, b) <= index /\ index < Before(bs, b) + Len(bs[b])
<1>1. PICK f : Flat(bs, S, f)
    BY FlatExists
<1>2. f \in [0..Len(bs) -> Seq(S)] /\ f[0] = <<>> /\ Len(f[Len(bs)]) = Len(Contents(bs))
    BY <1>1, ContentsIs DEF Flat
<1> DEFINE Beyond == {i \in 0..Len(bs) : index < Len(f[i])}
<1>3. Len(bs) \in 0..Len(bs) /\ Len(bs) \in Beyond
    <2>1. Len(bs) \in 0..Len(bs)
        OBVIOUS
    <2> QED BY <1>2, <2>1
<1>4. Beyond \in SUBSET Nat
    <2>1. Beyond \subseteq 0..Len(bs)
        BY Zenon
    <2>2. 0..Len(bs) \subseteq Nat
        OBVIOUS
    <2> QED BY <2>1, <2>2, Zenon
<1>5. PICK m \in Beyond : \A j \in Beyond : m <= j
    <2> HIDE DEF Beyond
    <2> QED BY <1>3, <1>4, LeastIndex
<1>6. m \in 0..Len(bs) /\ index < Len(f[m])
    OBVIOUS
<1>7. m # 0
    BY <1>2, <1>6
<1>8. m - 1 \in 0..Len(bs) /\ m - 1 \notin Beyond
    <2> HIDE DEF Beyond
    <2> QED BY <1>5, <1>6, <1>7
<1>9. m \in 1..Len(bs) /\ m \in 1..Len(bs) + 1 /\ m + 1 \in 1..Len(bs) + 1 /\ m + 1 - 1 = m
    BY <1>6, <1>7
<1>10. f[m - 1] \in Seq(S)
    BY <1>2, <1>8, Zenon
<1>11. Len(f[m - 1]) <= index
    <2>1. Len(f[m - 1]) \in Nat
        BY <1>10
    <2> QED BY <1>8, <2>1
<1>12. Before(bs, m) = Len(f[m - 1]) /\ Before(bs, m + 1) = Len(f[m])
    <2>1. Before(bs, m) = Len(f[m - 1])
        BY <1>1, <1>9, BeforeIs
    <2> DEFINE c == m + 1
    <2>2. c \in 1..Len(bs) + 1 /\ c - 1 = m
        BY <1>9
    <2> HIDE DEF c
    <2>3. Before(bs, c) = Len(f[c - 1])
        BY <1>1, <2>2, BeforeIs
    <2> QED BY <2>1, <2>2, <2>3 DEF c
<1>13. Before(bs, m + 1) = Before(bs, m) + Len(bs[m])
    BY <1>9, BlockContents
<1>14. Covers(m)
    BY <1>6, <1>11, <1>12, <1>13
<1>15. DOMAIN bs = 1..Len(bs)
    OBVIOUS
<1>16. FindBlockByOffset(bs, index) = CHOOSE b \in 1..Len(bs) : Covers(b)
    BY <1>15 DEF FindBlockByOffset
<1> HIDE DEF Covers
<1>17. LET b == FindBlockByOffset(bs, index) IN b \in 1..Len(bs) /\ Covers(b)
    BY <1>9, <1>14, <1>16
<1> QED BY <1>17 DEF Covers

\* One block replaced.
LEMMA BlockReplaced ==
    ASSUME NEW S, NEW bs \in Seq(Seq(S)), NEW b \in 1..Len(bs), NEW w \in Seq(Seq(S)),
           Len(w) = Len(bs), \A i \in 1..Len(bs) : i # b => w[i] = bs[i]
    PROVE  w = Take(bs, b - 1) \o (<<w[b]>> \o Drop(bs, b))
<1> DEFINE T == Seq(S)
<1>1. bs \in Seq(T) /\ b \in Nat /\ Len(bs) \in Nat /\ b - 1 \in Nat /\ b - 1 < Len(bs)
    OBVIOUS
<1>2. w \in Seq(T) /\ Len(w) = Len(bs) /\ \A i \in 1..Len(bs) : i # b => w[i] = bs[i]
    OBVIOUS
<1> HIDE DEF T
<1>3. Take(w, b - 1) = Take(bs, b - 1)
    <2>1. /\ Take(bs, b - 1) \in Seq(T) /\ Len(Take(bs, b - 1)) = b - 1
          /\ \A i \in 1..b - 1 : Take(bs, b - 1)[i] = bs[i]
        BY <1>1, TakeDrop
    <2>2. /\ Take(w, b - 1) \in Seq(T) /\ Len(Take(w, b - 1)) = b - 1
          /\ \A i \in 1..b - 1 : Take(w, b - 1)[i] = w[i]
        <3>1. b - 1 < Len(w)
            BY <1>1, <1>2
        <3> QED BY <1>1, <1>2, <3>1, TakeDrop
    <2>3. \A i \in 1..b - 1 : w[i] = bs[i]
        BY <1>1, <1>2
    <2> DEFINE u == Take(w, b - 1)
               v == Take(bs, b - 1)
    <2>4. /\ u \in Seq(T) /\ v \in Seq(T) /\ Len(u) = Len(v)
          /\ \A i \in 1..Len(u) : u[i] = v[i]
        BY <2>1, <2>2, <2>3
    <2> HIDE DEF u, v
    <2>5. u = v
        BY <2>4, SeqEqual
    <2> QED BY <2>5 DEF u, v
<1>4. Drop(w, b) = Drop(bs, b)
    <2>1. /\ Drop(bs, b) \in Seq(T) /\ Len(Drop(bs, b)) = (IF b < Len(bs) THEN Len(bs) - b ELSE 0)
          /\ \A i \in 1..Len(Drop(bs, b)) : Drop(bs, b)[i] = bs[i + b]
        BY <1>1, TakeDrop
    <2>2. /\ Drop(w, b) \in Seq(T) /\ Len(Drop(w, b)) = (IF b < Len(w) THEN Len(w) - b ELSE 0)
          /\ \A i \in 1..Len(Drop(w, b)) : Drop(w, b)[i] = w[i + b]
        <3>1. w \in Seq(T) /\ b \in Nat
            BY <1>1, <1>2
        <3> HIDE <1>2
        <3> QED BY <3>1, TakeDrop
    <2>3. ASSUME NEW i \in 1..Len(Drop(bs, b)) PROVE w[i + b] = bs[i + b]
        <3>1. i + b \in 1..Len(bs) /\ i + b # b
            BY <1>1, <2>1
        <3> QED BY <1>2, <3>1
    <2>4. Len(Drop(w, b)) = Len(Drop(bs, b))
        BY <1>2, <2>1, <2>2
    <2>5. \A i \in 1..Len(Drop(bs, b)) : Drop(w, b)[i] = Drop(bs, b)[i]
        BY <2>1, <2>2, <2>3, <2>4
    <2> QED BY <2>1, <2>2, <2>4, <2>5, SeqEqual
<1>5. b \in 1..Len(w)
    OBVIOUS
<1>6. w = Take(w, b - 1) \o (<<w[b]>> \o Drop(w, b))
    BY <1>5, BlockBetween
<1> QED BY <1>3, <1>4, <1>6
-------------------------------------------------------------------------------
(* The list of a buffer.                                                       *)

\* A block holds no more than its size.
Held == {x \in Seq(Byte) : Len(x) <= Block}

\* How many blocks n bytes take.
LEMMA PieceCount ==
    ASSUME NEW n \in Nat
    PROVE  LET k == (n + Block - 1) \div Block
           IN k \in Nat /\ k * Block >= n /\ (n = 0 => k = 0) /\ (n > 0 => k > 0)
<1> DEFINE k == (n + Block - 1) \div Block
           r == (n + Block - 1) % Block
<1>1. Block \in Nat /\ Block > 0
    BY BlockAssumption
<1>2. n + Block - 1 \in Nat
    BY <1>1
<1>3. k \in Int /\ r \in 0..Block - 1 /\ n + Block - 1 = Block * k + r
    BY <1>1, <1>2
<1> HIDE DEF k, r
<1>4. Block * k >= n
    BY <1>1, <1>3
<1>5. k >= 0
    <2> SUFFICES ASSUME k <= -1 PROVE FALSE
        BY <1>3
    <2>1. Block * k <= Block * (-1)
        BY <1>1, <1>3
    <2> QED BY <1>1, <1>3, <2>1
<1>6. n = 0 => k = 0
    <2> SUFFICES ASSUME n = 0, k >= 1 PROVE FALSE
        BY <1>3, <1>5
    <2>1. Block * k >= Block * 1
        BY <1>1, <1>3
    <2> QED BY <1>1, <1>3, <2>1
<1>7. n > 0 => k > 0
    BY <1>1, <1>3, <1>4, <1>5
<1>8. k * Block = Block * k
    BY <1>1, <1>3
<1> QED BY <1>3, <1>4, <1>5, <1>6, <1>7, <1>8 DEF k

\* New blocks hold the bytes they were made for, and nothing else.
LEMMA PiecesHold ==
    ASSUME NEW s \in Seq(Byte)
    PROVE  /\ Pieces(s) \in Seq(Held) /\ Contents(Pieces(s)) = s
           /\ s = <<>> <=> Pieces(s) = <<>>
<1> DEFINE k == (Len(s) + Block - 1) \div Block
           piece(i) == Take(Drop(s, (i - 1) * Block), Block)
           f == [i \in 0..k |-> Take(s, i * Block)]
<1>1. Block \in Nat /\ Block > 0 /\ Len(s) \in Nat
    BY BlockAssumption
<1>2. k \in Nat /\ k * Block >= Len(s) /\ (Len(s) = 0 => k = 0) /\ (Len(s) > 0 => k > 0)
    BY <1>1, PieceCount
<1>3. Pieces(s) = [i \in 1..k |-> piece(i)]
    BY DEF Pieces
<1> HIDE DEF k
<1>4. ASSUME NEW i \in 1..k
      PROVE  /\ piece(i) \in Held
             /\ Take(s, i * Block) = Take(s, (i - 1) * Block) \o piece(i)
    <2> DEFINE m == (i - 1) * Block
               d == Drop(s, m)
               a == Take(s, m)
    <2>1. i - 1 \in Nat
        OBVIOUS
    <2>2. m \in Nat /\ i * Block = m + Block
        BY <1>1, <2>1
    <2> HIDE DEF m
    <2>3. /\ d \in Seq(Byte) /\ a \in Seq(Byte) /\ s = a \o d
          /\ Len(a) = IF m < Len(s) THEN m ELSE Len(s)
        BY <2>2, TakeDrop, CutJoined
    <2>4. Take(d, Block) \in Seq(Byte) /\ Len(Take(d, Block)) <= Block
        <3> HIDE DEF d
        <3>1. /\ Take(d, Block) \in Seq(Byte)
              /\ Len(Take(d, Block)) = IF Block < Len(d) THEN Block ELSE Len(d)
            BY <1>1, <2>3, TakeDrop
        <3>2. Len(d) \in Nat
            BY <2>3
        <3> QED BY <1>1, <3>1, <3>2
    <2>5. Take(s, m + Block) = a \o Take(d, Block)
        <3>1. CASE m <= Len(s)
            <4>1. Len(a) = m
                BY <1>1, <2>2, <2>3, <3>1
            <4> HIDE DEF a, d
            <4>2. Take(a \o d, Len(a) + Block) = a \o Take(d, Block)
                BY <1>1, <2>3, CutBehind
            <4> QED BY <2>3, <4>1, <4>2
        <3>2. CASE m > Len(s)
            <4>1. a = s /\ d = <<>>
                BY <2>2, <3>2, CutAtEnds
            <4>2. Take(s, m + Block) = s
                <5>1. m + Block \in Nat /\ m + Block >= Len(s)
                    BY <1>1, <2>2, <3>2
                <5> QED BY <5>1, CutAtEnds
            <4>3. Take(<<>>, Block) = <<>>
                <5>1. <<>> \in Seq(Byte) /\ Len(<<>>) = 0 /\ Block >= 0
                    BY <1>1
                <5> DEFINE e == <<>>
                <5>2. e \in Seq(Byte) /\ Block >= Len(e)
                    BY <5>1
                <5> HIDE DEF e
                <5>3. Take(e, Block) = e
                    BY <1>1, <5>2, CutAtEnds
                <5> QED BY <5>3 DEF e
            <4>4. s \o <<>> = s
                BY ConcatEmptySeq
            <4> QED BY <4>1, <4>2, <4>3, <4>4
        <3> QED BY <1>1, <2>2, <3>1, <3>2
    <2>6. piece(i) = Take(d, Block) /\ Take(s, (i - 1) * Block) = a
        BY DEF m
    <2> QED BY <2>2, <2>4, <2>5, <2>6 DEF Held
<1> DEFINE ps == Pieces(s)
<1>5. ps \in Seq(Held) /\ ps \in Seq(Seq(Byte)) /\ Len(ps) = k /\ \A i \in 1..k : ps[i] = piece(i)
    <2> HIDE DEF piece
    <2>1. \A i \in 1..k : piece(i) \in Held /\ piece(i) \in Seq(Byte)
        BY <1>4 DEF Held
    <2> QED BY <1>2, <1>3, <2>1
<1> HIDE DEF ps
<1>6. \A i \in 0..k : i * Block \in Nat
    BY <1>1, <1>2
<1>7. f \in [0..k -> Seq(Byte)]
    <2>1. \A i \in 0..k : Take(s, i * Block) \in Seq(Byte)
        BY <1>6, TakeDrop
    <2> QED BY <2>1
<1>8. f[0] = <<>>
    <2>1. 0 \in 0..k /\ 0 * Block = 0
        BY <1>1, <1>2
    <2>2. f[0] = Take(s, 0)
        BY <2>1
    <2> QED BY <2>2, <1>1, CutAtEnds
<1>9. ASSUME NEW i \in 1..k PROVE f[i] = f[i - 1] \o ps[i]
    <2>1. i \in 0..k /\ i - 1 \in 0..k
        BY <1>2
    <2>2. f[i] = Take(s, i * Block) /\ f[i - 1] = Take(s, (i - 1) * Block)
        BY <2>1
    <2>3. ps[i] = piece(i)
        BY <1>5
    <2> HIDE DEF f, piece
    <2> QED BY <1>4, <2>2, <2>3
<1>10. k \in 0..k /\ f[k] = Take(s, k * Block)
    BY <1>2
<1> HIDE DEF f
<1>11. Contents(ps) = f[k]
    <2>1. Flat(ps, Byte, f)
        BY <1>5, <1>7, <1>8, <1>9 DEF Flat
    <2> QED BY <1>5, <2>1, ContentsIs
<1>12. Take(s, k * Block) = s
    <2>1. k * Block \in Nat
        BY <1>6, <1>10
    <2> QED BY <1>2, <2>1, CutAtEnds
<1>13. s = <<>> <=> ps = <<>>
    <2>1. s = <<>> <=> Len(s) = 0
        BY EmptySeq
    <2>2. ps = <<>> <=> Len(ps) = 0
        BY <1>5, EmptySeq
    <2> QED BY <1>1, <1>2, <1>5, <2>1, <2>2
<1> QED BY <1>5, <1>10, <1>11, <1>12, <1>13 DEF ps

\* A buffer has at least one block.
IsList(bs) == bs \in Seq(Held) /\ bs # <<>>

\* Lists of blocks put together.
LEMMA Lists ==
    ASSUME NEW p \in Seq(Held), NEW q \in Seq(Held)
    PROVE  /\ p \in Seq(Seq(Byte)) /\ Contents(p) \in Seq(Byte)
           /\ p \o q \in Seq(Held) /\ Contents(p \o q) = Contents(p) \o Contents(q)
           /\ (p # <<>> => p \o q # <<>>) /\ (q # <<>> => p \o q # <<>>)
<1>1. Held \subseteq Seq(Byte)
    BY DEF Held
<1>2. p \in Seq(Seq(Byte)) /\ q \in Seq(Seq(Byte))
    BY <1>1, SeqMonotonic
<1>3. Contents(p) \in Seq(Byte) /\ Contents(p \o q) = Contents(p) \o Contents(q)
    BY <1>2, ContentsJoined
<1>4. p \o q \in Seq(Held) /\ Len(p \o q) = Len(p) + Len(q)
    BY Joined
<1>5. ASSUME p # <<>> \/ q # <<>> PROVE p \o q # <<>>
    <2>1. Len(p) \in Nat /\ Len(q) \in Nat /\ (Len(p) > 0 \/ Len(q) > 0)
        BY <1>5
    <2>2. Len(p \o q) > 0
        BY <1>4, <2>1
    <2> QED BY <2>2
<1> QED BY <1>2, <1>3, <1>4, <1>5

\* A list of one block.
LEMMA OneBlock ==
    ASSUME NEW x \in Held
    PROVE  <<x>> \in Seq(Held) /\ Contents(<<x>>) = x /\ <<x>> # <<>> /\ x \in Seq(Byte)
<1>1. x \in Seq(Byte)
    BY DEF Held
<1>2. Contents(<<x>>) = x
    BY <1>1, ContentsOne
<1> QED BY <1>1, <1>2

\* A block among the others, in a buffer.
LEMMA ListBetween ==
    ASSUME NEW bs, IsList(bs), NEW b \in 1..Len(bs), NEW x \in Held
    PROVE  LET p == Take(bs, b - 1)
               q == Drop(bs, b)
               w == p \o (<<x>> \o q)
           IN /\ p \in Seq(Held) /\ q \in Seq(Held) /\ bs[b] \in Held
              /\ Contents(p) \in Seq(Byte) /\ Contents(q) \in Seq(Byte)
              /\ bs = p \o (<<bs[b]>> \o q)
              /\ Contents(bs) = Contents(p) \o (bs[b] \o Contents(q))
              /\ Len(Contents(p)) = Before(bs, b)
              /\ Before(bs, b + 1) = Before(bs, b) + Len(bs[b])
              /\ IsList(w) /\ Contents(w) = Contents(p) \o (x \o Contents(q))
              /\ Contents(p \o q) = Contents(p) \o Contents(q)
<1> DEFINE p == Take(bs, b - 1)
           q == Drop(bs, b)
<1>1. bs \in Seq(Held) /\ bs \in Seq(Seq(Byte)) /\ b - 1 \in Nat /\ b \in Nat
    BY Lists DEF IsList
<1>2. p \in Seq(Held) /\ q \in Seq(Held) /\ bs[b] \in Held
    <2>1. p \in Seq(Held)
        BY <1>1, TakeDrop
    <2>2. q \in Seq(Held)
        BY <1>1, TakeDrop
    <2> QED BY <1>1, <2>1, <2>2
<1>3. /\ Contents(p) \in Seq(Byte) /\ Contents(q) \in Seq(Byte)
      /\ Contents(bs) = Contents(p) \o (bs[b] \o Contents(q))
      /\ Len(Contents(p)) = Before(bs, b)
      /\ Before(bs, b + 1) = Before(bs, b) + Len(bs[b])
    BY <1>1, BlockContents
<1>4. bs = p \o (<<bs[b]>> \o q)
    BY <1>1, BlockBetween
<1> HIDE DEF p, q
<1>7. <<x>> \in Seq(Held) /\ Contents(<<x>>) = x /\ <<x>> # <<>>
    BY OneBlock
<1>8. /\ <<x>> \o q \in Seq(Held) /\ Contents(<<x>> \o q) = x \o Contents(q)
      /\ <<x>> \o q # <<>>
    <2> DEFINE y == <<x>>
    <2>1. y \in Seq(Held) /\ Contents(y) = x /\ y # <<>>
        BY <1>7
    <2> HIDE DEF y
    <2>2. y \o q \in Seq(Held) /\ Contents(y \o q) = x \o Contents(q) /\ y \o q # <<>>
        BY <1>2, <2>1, Lists
    <2> QED BY <2>2 DEF y
<1>9. /\ p \o (<<x>> \o q) \in Seq(Held) /\ p \o (<<x>> \o q) # <<>>
      /\ Contents(p \o (<<x>> \o q)) = Contents(p) \o Contents(<<x>> \o q)
      /\ Contents(p \o q) = Contents(p) \o Contents(q)
    BY <1>2, <1>8, Lists
<1> QED BY <1>2, <1>3, <1>4, <1>8, <1>9 DEF p, q, IsList

\* A block replaced, in a buffer.
LEMMA ListReplaced ==
    ASSUME NEW bs, IsList(bs), NEW b \in 1..Len(bs), NEW x \in Held
    PROVE  LET p == Take(bs, b - 1)
               q == Drop(bs, b)
               w == [bs EXCEPT ![b] = x]
           IN /\ IsList(w) /\ Contents(w) = Contents(p) \o (x \o Contents(q))
              /\ w \in Seq(Held) /\ Len(w) = Len(bs) /\ w[b] = x
              /\ \A i \in 1..Len(bs) : i # b => w[i] = bs[i]
<1> DEFINE p == Take(bs, b - 1)
           q == Drop(bs, b)
           w == [bs EXCEPT ![b] = x]
<1>1. bs \in Seq(Held) /\ bs \in Seq(Seq(Byte))
    BY Lists DEF IsList
<1>2. /\ w \in Seq(Held) /\ Len(w) = Len(bs)
      /\ \A j \in 1..Len(bs) : w[j] = IF j = b THEN x ELSE bs[j]
    BY <1>1, ExceptSeq
<1> HIDE DEF w
<1>3. w[b] = x /\ \A i \in 1..Len(bs) : i # b => w[i] = bs[i]
    BY <1>2
<1>4. w \in Seq(Seq(Byte))
    BY <1>2, Lists
<1>5. w = p \o (<<x>> \o q)
    <2>1. w = Take(bs, b - 1) \o (<<w[b]>> \o Drop(bs, b))
        BY <1>1, <1>2, <1>3, <1>4, BlockReplaced
    <2> QED BY <1>3, <2>1
<1>6. /\ IsList(p \o (<<x>> \o q))
      /\ Contents(p \o (<<x>> \o q)) = Contents(p) \o (x \o Contents(q))
    BY ListBetween
<1> QED BY <1>2, <1>3, <1>5, <1>6 DEF w

\* Joining, as a name: the provers take s \o t apart position by position.
Cat(s, t) == s \o t

\* Joined sequences may be bracketed otherwise.
LEMMA Cats ==
    ASSUME NEW S, NEW u \in Seq(S), NEW v \in Seq(S), NEW w \in Seq(S)
    PROVE  Cat(u, v) \in Seq(S) /\ Cat(Cat(u, v), w) = Cat(u, Cat(v, w))
<1>1. u \o v \in Seq(S)
    OBVIOUS
<1>2. (u \o v) \o w = u \o (v \o w)
    BY ConcatAssociative, SMTT(60)
<1> QED BY <1>1, <1>2 DEF Cat

\* What a joined sequence holds.
LEMMA CatAt ==
    ASSUME NEW S, NEW s \in Seq(S), NEW t \in Seq(S)
    PROVE  /\ Cat(s, t) \in Seq(S) /\ Len(Cat(s, t)) = Len(s) + Len(t)
           /\ \A i \in 1..Len(s) : Cat(s, t)[i] = s[i]
           /\ \A i \in 1..Len(t) : Cat(s, t)[Len(s) + i] = t[i]
BY Joined DEF Cat

\* The same for four sequences, and for five.
LEMMA Cat4 ==
    ASSUME NEW S, NEW u \in Seq(S), NEW v \in Seq(S), NEW w \in Seq(S), NEW z \in Seq(S)
    PROVE  Cat(u, Cat(Cat(v, w), z)) = Cat(Cat(u, v), Cat(w, z))
BY Cats

\* Five sequences.
LEMMA Cat5 ==
    ASSUME NEW S, NEW t \in Seq(S), NEW u \in Seq(S), NEW v \in Seq(S), NEW w \in Seq(S),
           NEW z \in Seq(S)
    PROVE  Cat(t, Cat(Cat(Cat(u, v), w), z)) = Cat(Cat(Cat(t, u), v), Cat(w, z))
<1>1. Cat(Cat(Cat(u, v), w), z) = Cat(Cat(u, v), Cat(w, z))
    BY Cats
<1>2. Cat(t, Cat(Cat(u, v), Cat(w, z))) = Cat(Cat(t, Cat(u, v)), Cat(w, z))
    BY Cats
<1>3. Cat(t, Cat(u, v)) = Cat(Cat(t, u), v)
    BY Cats
<1> QED BY <1>1, <1>2, <1>3

\* Bytes appended.
LEMMA Appends ==
    ASSUME NEW bs, IsList(bs), NEW s \in Seq(Byte)
    PROVE  IsList(Appended(bs, s)) /\ Contents(Appended(bs, s)) = Contents(bs) \o s
<1> DEFINE b == Len(bs)
           p == Take(bs, b - 1)
           l == bs[b]
           room == Free(l)
           a == Take(s, room)
           d == Drop(s, room)
<1>1. bs \in Seq(Held) /\ b \in 1..Len(bs) /\ b \in Nat
    BY DEF IsList
<1>2. Drop(bs, b) = <<>>
    BY <1>1, CutAtEnds
<1>3. Front(bs) = p /\ Last(bs) = l
    BY <1>1 DEF Front, Last, Take
<1>4. l \in Held
    BY <1>1
<1>5. /\ p \in Seq(Held) /\ Contents(p) \in Seq(Byte)
      /\ Contents(bs) = Contents(p) \o (l \o Contents(<<>>))
    <2> HIDE DEF b
    <2>1. /\ Take(bs, b - 1) \in Seq(Held) /\ Contents(Take(bs, b - 1)) \in Seq(Byte)
          /\ Contents(bs) = Contents(Take(bs, b - 1)) \o (bs[b] \o Contents(Drop(bs, b)))
        BY <1>1, <1>4, ListBetween
    <2> QED BY <1>2, <2>1
<1>6. Contents(<<>>) = <<>> /\ l \in Seq(Byte) /\ l \o <<>> = l
    <2>1. l \in Seq(Byte)
        BY <1>4 DEF Held
    <2> QED BY <2>1, ContentsNone, ConcatEmptySeq
<1>7. Contents(bs) = Contents(p) \o l
    BY <1>5, <1>6
<1>8. room \in Nat /\ Len(l) \in Nat /\ Len(l) + room = Block
    <2>1. Len(l) \in Nat /\ Len(l) <= Block /\ Block \in Nat
        BY <1>4, BlockAssumption DEF Held
    <2> QED BY <2>1 DEF Free
<1> HIDE DEF room, l, p, b
<1>9. a \in Seq(Byte) /\ d \in Seq(Byte) /\ s = a \o d /\ Len(a) <= room
    <2>1. a \in Seq(Byte) /\ d \in Seq(Byte) /\ s = a \o d
        BY <1>8, TakeDrop, CutJoined
    <2>2. Len(a) = IF room < Len(s) THEN room ELSE Len(s)
        BY <1>8, TakeDrop
    <2> QED BY <1>8, <2>1, <2>2
<1>10. Appended(bs, s) = p \o <<l \o a>> \o Pieces(d)
    BY <1>3 DEF Appended, room
<1> HIDE DEF a, d
<1>11. l \o a \in Held
    <2>1. l \o a \in Seq(Byte) /\ Len(l \o a) = Len(l) + Len(a)
        BY <1>6, <1>9, Joined
    <2>2. Len(a) \in Nat
        BY <1>9
    <2> QED BY <1>8, <1>9, <2>1, <2>2 DEF Held
<1>12. <<l \o a>> \in Seq(Held) /\ Contents(<<l \o a>>) = l \o a /\ <<l \o a>> # <<>>
    BY <1>11, OneBlock
<1>13. /\ p \o <<l \o a>> \in Seq(Held) /\ p \o <<l \o a>> # <<>>
       /\ Contents(p \o <<l \o a>>) = Contents(p) \o (l \o a)
    BY <1>5, <1>12, Lists
<1>14. Pieces(d) \in Seq(Held) /\ Contents(Pieces(d)) = d
    BY <1>9, PiecesHold
<1>15. /\ p \o <<l \o a>> \o Pieces(d) \in Seq(Held) /\ p \o <<l \o a>> \o Pieces(d) # <<>>
       /\ Contents(p \o <<l \o a>> \o Pieces(d)) = (Contents(p) \o (l \o a)) \o d
    <2> DEFINE u == p \o <<l \o a>>
               v == Pieces(d)
    <2>1. u \in Seq(Held) /\ u # <<>> /\ Contents(u) = Contents(p) \o (l \o a)
        BY <1>13
    <2>2. v \in Seq(Held) /\ Contents(v) = d
        BY <1>14
    <2> HIDE DEF u, v
    <2>3. u \o v \in Seq(Held) /\ u \o v # <<>> /\ Contents(u \o v) = Contents(u) \o Contents(v)
        BY <2>1, <2>2, Lists
    <2> QED BY <2>1, <2>2, <2>3 DEF u, v
<1>16. (Contents(p) \o (l \o a)) \o d = (Contents(p) \o l) \o s
    <2>1. \A u, v, w \in Seq(Byte) : (u \o v) \o w = u \o (v \o w) /\ u \o v \in Seq(Byte)
        BY ConcatAssociative, SMTT(60)
    <2> DEFINE c == Contents(p)
    <2>2. c \in Seq(Byte)
        BY <1>5
    <2> HIDE DEF c
    <2>3. c \o (l \o a) = (c \o l) \o a /\ c \o l \in Seq(Byte)
        BY <1>6, <1>9, <2>1, <2>2, SMTT(60)
    <2>4. ((c \o l) \o a) \o d = (c \o l) \o (a \o d)
        BY <1>9, <2>1, <2>3
    <2> QED BY <1>9, <2>3, <2>4 DEF c
<1> QED BY <1>7, <1>10, <1>15, <1>16 DEF IsList

\* Bytes put in front.
LEMMA Prepends ==
    ASSUME NEW bs, IsList(bs), NEW s \in Seq(Byte)
    PROVE  IsList(Prepended(bs, s)) /\ Contents(Prepended(bs, s)) = s \o Contents(bs)
<1> DEFINE h == bs[1]
           q == Drop(bs, 1)
           over == IF Len(s) > Free(h) THEN Len(s) - Free(h) ELSE 0
           a == Take(s, over)
           d == Drop(s, over)
<1>1. bs \in Seq(Held) /\ 1 \in 1..Len(bs) /\ 1 \in Nat
    BY DEF IsList
<1>2. Take(bs, 1 - 1) = <<>>
    <2>1. Take(bs, 0) = <<>> /\ 1 - 1 = 0
        BY <1>1, CutAtEnds
    <2> QED BY <2>1
<1>3. Head(bs) = h /\ Tail(bs) = q
    BY <1>1 DEF Drop
<1>4. h \in Held /\ h \in Seq(Byte)
    BY <1>1 DEF Held
<1>5. /\ q \in Seq(Held) /\ Contents(q) \in Seq(Byte)
      /\ Contents(bs) = Contents(<<>>) \o (h \o Contents(q))
    <2>1. /\ Drop(bs, 1) \in Seq(Held) /\ Contents(Drop(bs, 1)) \in Seq(Byte)
          /\ Contents(bs) = Contents(Take(bs, 1 - 1)) \o (bs[1] \o Contents(Drop(bs, 1)))
        BY <1>1, <1>4, ListBetween
    <2> QED BY <1>2, <2>1
<1>6. Contents(bs) = h \o Contents(q)
    <2> DEFINE c == Contents(q)
    <2>1. c \in Seq(Byte) /\ Contents(bs) = <<>> \o (h \o c)
        BY <1>5, ContentsNone
    <2> HIDE DEF c, h
    <2>2. h \o c \in Seq(Byte)
        BY <1>4, <2>1, Joined
    <2>3. <<>> \o (h \o c) = h \o c
        BY <2>2, ConcatEmptySeq
    <2> QED BY <2>1, <2>3 DEF c
<1>7. over \in 0..Len(s) /\ over \in Nat /\ Len(s) - over + Len(h) <= Block /\ Len(h) \in Nat
    <2>1. Len(h) \in Nat /\ Len(h) <= Block /\ Block \in Nat /\ Len(s) \in Nat
        BY <1>4, BlockAssumption DEF Held
    <2> HIDE DEF h
    <2> QED BY <2>1 DEF Free
<1>8. Prepended(bs, s) = Pieces(a) \o <<d \o h>> \o q
    BY <1>3 DEF Prepended
<1> HIDE DEF over, h, q
<1>9. a \in Seq(Byte) /\ d \in Seq(Byte) /\ s = a \o d /\ Len(d) = Len(s) - over
    <2>1. a \in Seq(Byte) /\ d \in Seq(Byte) /\ s = a \o d
        BY <1>7, TakeDrop, CutJoined
    <2>2. Len(d) = IF over < Len(s) THEN Len(s) - over ELSE 0
        BY <1>7, TakeDrop
    <2> QED BY <1>7, <2>1, <2>2
<1> HIDE DEF a, d
<1>10. d \o h \in Held
    <2>1. d \o h \in Seq(Byte) /\ Len(d \o h) = Len(d) + Len(h)
        BY <1>4, <1>9, Joined
    <2> QED BY <1>7, <1>9, <2>1 DEF Held
<1>11. <<d \o h>> \in Seq(Held) /\ Contents(<<d \o h>>) = d \o h /\ <<d \o h>> # <<>>
    BY <1>10, OneBlock
<1>12. Pieces(a) \in Seq(Held) /\ Contents(Pieces(a)) = a
    BY <1>9, PiecesHold
<1> DEFINE x == <<d \o h>>
           v == Pieces(a)
           u == v \o x
<1>13. u \in Seq(Held) /\ Contents(u) = a \o (d \o h) /\ u # <<>>
    <2>1. x \in Seq(Held) /\ v \in Seq(Held) /\ Contents(x) = d \o h /\ Contents(v) = a /\ x # <<>>
        BY <1>11, <1>12
    <2> HIDE DEF x, v
    <2>2. v \o x \in Seq(Held) /\ Contents(v \o x) = Contents(v) \o Contents(x) /\ v \o x # <<>>
        BY <2>1, Lists
    <2> QED BY <2>1, <2>2
<1>14. Prepended(bs, s) = u \o q
    BY <1>8
<1> HIDE DEF u
<1>15. u \o q \in Seq(Held) /\ u \o q # <<>> /\ Contents(u \o q) = Contents(u) \o Contents(q)
    BY <1>5, <1>13, Lists
<1>16. (a \o (d \o h)) \o Contents(q) = s \o (h \o Contents(q))
    <2>1. \A e, f, g \in Seq(Byte) : (e \o f) \o g = e \o (f \o g) /\ e \o f \in Seq(Byte)
        BY ConcatAssociative, SMTT(60)
    <2> DEFINE c == Contents(q)
    <2>2. c \in Seq(Byte)
        BY <1>5
    <2> HIDE DEF c
    <2>3. a \o (d \o h) = (a \o d) \o h /\ a \o d \in Seq(Byte)
        BY <1>4, <1>9, <2>1, SMTT(60)
    <2>4. ((a \o d) \o h) \o c = (a \o d) \o (h \o c)
        BY <1>4, <2>1, <2>2, <2>3
    <2> QED BY <1>9, <2>3, <2>4 DEF c
<1> QED BY <1>6, <1>13, <1>14, <1>15, <1>16 DEF IsList

\* The contents cut within a block.
LEMMA CutInBlock ==
    ASSUME NEW bs, IsList(bs), NEW b \in 1..Len(bs), NEW o \in 0..Len(bs[b])
    PROVE  /\ Take(Contents(bs), Before(bs, b) + o) = Contents(Take(bs, b - 1)) \o Take(bs[b], o)
           /\ Drop(Contents(bs), Before(bs, b) + o) = Drop(bs[b], o) \o Contents(Drop(bs, b))
<1> DEFINE x == bs[b]
           p == Contents(Take(bs, b - 1))
           q == Contents(Drop(bs, b))
<1>1. /\ p \in Seq(Byte) /\ q \in Seq(Byte) /\ x \in Seq(Byte) /\ Contents(bs) = p \o (x \o q)
      /\ Len(p) = Before(bs, b)
    BY Lists, BlockContents DEF IsList
<1>2. o \in 0..Len(x) /\ o \in Nat
    OBVIOUS
<1> HIDE DEF x, p, q
<1>3. x \o q \in Seq(Byte)
    BY <1>1, Joined
<1>4. Take(x \o q, o) = Take(x, o) /\ Drop(x \o q, o) = Drop(x, o) \o q
    BY <1>1, <1>2, CutBefore
<1>5. /\ Take(p \o (x \o q), Len(p) + o) = p \o Take(x \o q, o)
      /\ Drop(p \o (x \o q), Len(p) + o) = Drop(x \o q, o)
    BY <1>1, <1>2, <1>3, CutBehind
<1> QED BY <1>1, <1>4, <1>5 DEF x, p, q

\* The block of an offset within the contents.
LEMMA OffsetFound ==
    ASSUME NEW bs, IsList(bs), NEW index \in Nat, index < Len(Contents(bs))
    PROVE  LET b == FindBlockByOffset(bs, index)
               o == index - Before(bs, b)
           IN /\ b \in 1..Len(bs) /\ o \in 0..Len(bs[b]) /\ o < Len(bs[b])
              /\ index = Before(bs, b) + o /\ Before(bs, b) \in Nat
<1> DEFINE b == FindBlockByOffset(bs, index)
<1>1. bs \in Seq(Held) /\ bs \in Seq(Seq(Byte))
    BY Lists DEF IsList
<1>2. b \in 1..Len(bs) /\ Before(bs, b) <= index /\ index < Before(bs, b) + Len(bs[b])
    BY <1>1, BlockFound
<1> HIDE DEF b
<1>3. bs[b] \in Seq(Byte) /\ Before(bs, b) = Len(Contents(Take(bs, b - 1)))
      /\ Contents(Take(bs, b - 1)) \in Seq(Byte)
    BY <1>1, <1>2, BlockContents
<1>4. Before(bs, b) \in Nat /\ Len(bs[b]) \in Nat
    BY <1>3
<1> QED BY <1>2, <1>4 DEF b

\* Bytes inserted within a block that has room for them.
LEMMA InsertsWithin ==
    ASSUME NEW bs, IsList(bs), NEW index \in Nat, index < Len(Contents(bs)),
           NEW s \in Seq(Byte), Overflow(bs, index, s) = <<>>
    PROVE  /\ IsList(InsertedAt(bs, index, s, <<>>))
           /\ Contents(InsertedAt(bs, index, s, <<>>))
                = (Take(Contents(bs), index) \o s) \o Drop(Contents(bs), index)
<1> DEFINE b == FindBlockByOffset(bs, index)
           o == index - Before(bs, b)
           x == bs[b]
           y == Take(x, o) \o Take(s, Free(x)) \o Drop(x, o)
           w == [bs EXCEPT ![b] = y]
           p == Take(bs, b - 1)
           q == Drop(bs, b)
<1>1. /\ b \in 1..Len(bs) /\ o \in 0..Len(x) /\ index = Before(bs, b) + o
      /\ Before(bs, b) \in Nat /\ bs \in Seq(Held)
    BY OffsetFound DEF IsList
<1>2. Drop(s, Free(x)) = <<>>
    BY DEF Overflow
<1>3. InsertedAt(bs, index, s, <<>>) = Spilled(w, b, <<>>)
    BY DEF InsertedAt
<1> HIDE DEF b, o
<1>4. x \in Held /\ x \in Seq(Byte)
    BY <1>1 DEF Held
<1> HIDE DEF x
<1>5. Free(x) \in Nat /\ Len(x) + Free(x) = Block /\ Len(x) \in Nat /\ o \in Nat
    <2>1. Len(x) \in Nat /\ Len(x) <= Block /\ Block \in Nat
        BY <1>4, BlockAssumption DEF Held
    <2> QED BY <1>1, <2>1 DEF Free
<1>6. Take(s, Free(x)) = s /\ Len(s) <= Free(x)
    <2>1. Take(s, Free(x)) \o <<>> = s /\ Take(s, Free(x)) \in Seq(Byte)
        BY <1>2, <1>5, CutJoined, TakeDrop
    <2>2. Take(s, Free(x)) = s
        BY <2>1, ConcatEmptySeq
    <2>3. Len(Take(s, Free(x))) = IF Free(x) < Len(s) THEN Free(x) ELSE Len(s)
        BY <1>5, TakeDrop
    <2> QED BY <1>5, <2>2, <2>3
<1> DEFINE l == Take(x, o)
           r == Drop(x, o)
<1>7. l \in Seq(Byte) /\ r \in Seq(Byte) /\ Len(l) + Len(r) = Len(x)
    <2>1. /\ l \in Seq(Byte) /\ r \in Seq(Byte)
          /\ Len(l) = (IF o < Len(x) THEN o ELSE Len(x))
          /\ Len(r) = (IF o < Len(x) THEN Len(x) - o ELSE 0)
        BY <1>4, <1>5, TakeDrop
    <2> HIDE DEF l, r
    <2> QED BY <1>1, <1>5, <2>1
<1>8. y = (l \o s) \o r
    BY <1>6
<1> HIDE DEF l, r, y
<1>9. y \in Held
    <2>1. l \o s \in Seq(Byte) /\ Len(l \o s) = Len(l) + Len(s)
        BY <1>7, Joined
    <2>2. (l \o s) \o r \in Seq(Byte) /\ Len((l \o s) \o r) = Len(l \o s) + Len(r)
        BY <1>7, <2>1, Joined
    <2>3. Len(l) \in Nat /\ Len(r) \in Nat /\ Len(s) \in Nat
        BY <1>7
    <2>4. Len(y) <= Block
        BY <1>5, <1>6, <1>7, <1>8, <2>1, <2>2, <2>3
    <2> QED BY <1>8, <2>2, <2>4 DEF Held
<1>10. Contents(p) \in Seq(Byte) /\ Contents(q) \in Seq(Byte)
    BY <1>1, <1>9, ListBetween
<1>11. IsList(w) /\ Contents(w) = Contents(p) \o (y \o Contents(q)) /\ Len(w) = Len(bs)
    BY <1>1, <1>9, ListReplaced
<1> HIDE DEF w
<1>12. Spilled(w, b, <<>>) = w
    <2>1. Pieces(<<>>) = <<>>
        BY PiecesHold, EmptySeq
    <2>2. w \in Seq(Held) /\ b \in Nat /\ b <= Len(w) /\ Len(w) \in Nat
        BY <1>1, <1>11 DEF IsList
    <2>3. SubSeq(w, 1, b) = Take(w, b)
        BY <2>2 DEF Take
    <2>4. Take(w, b) \o Drop(w, b) = w /\ Take(w, b) \in Seq(Held)
        BY <2>2, CutJoined, TakeDrop
    <2>5. Take(w, b) \o <<>> = Take(w, b)
        BY <2>4, ConcatEmptySeq
    <2>6. Spilled(w, b, <<>>) = SubSeq(w, 1, b) \o <<>> \o Drop(w, b)
        BY <2>1 DEF Spilled
    <2> QED BY <2>3, <2>4, <2>5, <2>6
<1>13. /\ Take(Contents(bs), index) = Contents(p) \o l
       /\ Drop(Contents(bs), index) = r \o Contents(q)
    BY <1>1, CutInBlock DEF l, r, x
<1>14. Contents(p) \o (((l \o s) \o r) \o Contents(q))
         = ((Contents(p) \o l) \o s) \o (r \o Contents(q))
    <2>1. Cat(Contents(p), Cat(Cat(Cat(l, s), r), Contents(q)))
            = Cat(Cat(Cat(Contents(p), l), s), Cat(r, Contents(q)))
        BY <1>7, <1>10, Cat5
    <2> QED BY <2>1 DEF Cat
<1> QED BY <1>3, <1>8, <1>11, <1>12, <1>13, <1>14

\* Bytes removed within a block.
LEMMA RemovesWithin ==
    ASSUME NEW bs, IsList(bs), NEW index \in Nat, index < Len(Contents(bs)),
           NEW n \in Nat, ~Across(bs, index, n)
    PROVE  /\ IsList(Removed(bs, index, n)) /\ index + n <= Len(Contents(bs))
           /\ Contents(Removed(bs, index, n))
                = Take(Contents(bs), index) \o Drop(Contents(bs), index + n)
<1> DEFINE b == FindBlockByOffset(bs, index)
           o == index - Before(bs, b)
           x == bs[b]
           y == Take(x, o) \o Drop(x, o + n)
           w == [bs EXCEPT ![b] = y]
           p == Take(bs, b - 1)
           q == Drop(bs, b)
<1>1. /\ b \in 1..Len(bs) /\ o \in 0..Len(x) /\ index = Before(bs, b) + o
      /\ Before(bs, b) \in Nat /\ bs \in Seq(Held)
    BY OffsetFound DEF IsList
<1>2. ~(index + n > Before(bs, b + 1))
    BY DEF Across
<1>3. Removed(bs, index, n) = RemoveBlock(w, b)
    BY DEF Removed
<1> HIDE DEF b, o
<1>4. x \in Held /\ x \in Seq(Byte)
    BY <1>1 DEF Held
<1>5. /\ p \in Seq(Held) /\ q \in Seq(Held) /\ Contents(p) \in Seq(Byte) /\ Contents(q) \in Seq(Byte)
      /\ Contents(bs) = Contents(p) \o (x \o Contents(q)) /\ Len(Contents(p)) = Before(bs, b)
      /\ Before(bs, b + 1) = Before(bs, b) + Len(x)
      /\ Contents(p \o q) = Contents(p) \o Contents(q)
    BY <1>1, <1>4, ListBetween
<1>6. o + n \in 0..Len(x) /\ o \in Nat /\ o + n \in Nat /\ Len(x) \in Nat
    <2>1. Len(x) \in Nat
        BY <1>4
    <2> HIDE DEF x
    <2>2. index + n <= Before(bs, b) + Len(x) /\ Before(bs, b) + Len(x) \in Nat
        <3>1. Before(bs, b + 1) = Before(bs, b) + Len(x)
            BY <1>5, Zenon
        <3> QED BY <1>1, <1>2, <2>1, <3>1, SMTT(60)
    <2> QED BY <1>1, <2>1, <2>2, SMTT(60)
<1>7. /\ Take(Contents(bs), index) = Contents(p) \o Take(x, o)
      /\ Drop(Contents(bs), index + n) = Drop(x, o + n) \o Contents(q)
    <2>1. index + n = Before(bs, b) + (o + n)
        BY <1>1, <1>6
    <2>2. Take(Contents(bs), index) = Contents(p) \o Take(x, o)
        BY <1>1, CutInBlock
    <2>3. Drop(Contents(bs), Before(bs, b) + (o + n)) = Drop(x, o + n) \o Contents(q)
        BY <1>1, <1>6, CutInBlock
    <2> QED BY <2>1, <2>2, <2>3
<1> HIDE DEF x
<1> DEFINE l == Take(x, o)
           r == Drop(x, o + n)
<1>8. /\ l \in Seq(Byte) /\ r \in Seq(Byte) /\ Len(l) + Len(r) <= Len(x)
      /\ Len(l) \in Nat /\ Len(r) \in Nat
    <2>1. l \in Seq(Byte) /\ Len(l) = (IF o < Len(x) THEN o ELSE Len(x))
        BY <1>4, <1>6, TakeDrop
    <2>2. r \in Seq(Byte) /\ Len(r) = (IF o + n < Len(x) THEN Len(x) - (o + n) ELSE 0)
        BY <1>4, <1>6, TakeDrop
    <2> HIDE DEF l, r
    <2>3. Len(l) \in Nat /\ Len(r) \in Nat /\ Len(l) + Len(r) <= Len(x)
        <3> DEFINE i == Len(l)
                   j == Len(r)
                   m == Len(x)
        <3>1. i = (IF o < m THEN o ELSE m) /\ j = (IF o + n < m THEN m - (o + n) ELSE 0)
            BY <2>1, <2>2
        <3>2. m \in Nat /\ o + n \in 0..m /\ o \in Nat
            BY <1>6
        <3> HIDE DEF i, j, m
        <3>3. i \in Nat /\ j \in Nat /\ i + j <= m
            BY <3>1, <3>2
        <3> QED BY <3>3 DEF i, j, m
    <2> QED BY <2>1, <2>2, <2>3
<1>9. y = l \o r
    OBVIOUS
<1> HIDE DEF l, r, y
<1>10. y \in Held
    <2>1. l \o r \in Seq(Byte) /\ Len(l \o r) = Len(l) + Len(r)
        BY <1>8, Joined
    <2>2. Len(x) <= Block /\ Block \in Nat
        BY <1>4, BlockAssumption DEF Held
    <2> QED BY <1>6, <1>8, <1>9, <2>1, <2>2 DEF Held
<1>12. /\ IsList(w) /\ Contents(w) = Contents(p) \o (y \o Contents(q))
       /\ w \in Seq(Held) /\ Len(w) = Len(bs) /\ w[b] = y
       /\ \A i \in 1..Len(bs) : i # b => w[i] = bs[i]
    <2>1. IsList(w) /\ Contents(w) = Contents(p) \o (y \o Contents(q))
        BY <1>1, <1>10, ListReplaced
    <2>2. w \in Seq(Held) /\ Len(w) = Len(bs) /\ w[b] = y
        BY <1>1, <1>10, ListReplaced
    <2>3. \A i \in 1..Len(bs) : i # b => w[i] = bs[i]
        BY <1>1, <1>10, ListReplaced
    <2> QED BY <2>1, <2>2, <2>3
<1>13. /\ IsList(RemoveBlock(w, b))
       /\ Contents(RemoveBlock(w, b)) = Contents(p) \o (y \o Contents(q))
    <2>1. CASE y # <<>> \/ b = 1
        <3>1. RemoveBlock(w, b) = w
            BY <1>12, <2>1 DEF RemoveBlock
        <3> QED BY <1>12, <3>1
    <2>2. CASE y = <<>> /\ b # 1
        <3>1. RemoveBlock(w, b) = SubSeq(w, 1, b - 1) \o SubSeq(w, b + 1, Len(w))
            <4> HIDE DEF w, y
            <4> QED BY <1>12, <2>2 DEF RemoveBlock, RemoveAt
        <3>2. b - 1 \in Nat /\ b - 1 < Len(w) /\ b - 1 > 0 /\ b \in Nat /\ Len(w) \in Nat
            BY <1>1, <1>12, <2>2
        <3>3. RemoveBlock(w, b) = Take(w, b - 1) \o Drop(w, b)
            BY <3>1, <3>2 DEF Take, Drop
        <3>4. Take(w, b - 1) = p /\ Drop(w, b) = q
            <4> HIDE DEF w
            <4>1. /\ Take(w, b - 1) \in Seq(Held) /\ Len(Take(w, b - 1)) = b - 1
                  /\ \A i \in 1..b - 1 : Take(w, b - 1)[i] = w[i]
                BY <1>12, <3>2, TakeDrop
            <4>2. Len(p) = b - 1 /\ \A i \in 1..b - 1 : p[i] = bs[i]
                BY <1>1, <1>12, <3>2, TakeDrop
            <4>3. \A i \in 1..b - 1 : w[i] = bs[i]
                BY <1>1, <1>12, <3>2
            <4>4. Take(w, b - 1) = p
                BY <1>5, <4>1, <4>2, <4>3, SeqEqual
            <4>5. /\ Drop(w, b) \in Seq(Held)
                  /\ Len(Drop(w, b)) = (IF b < Len(w) THEN Len(w) - b ELSE 0)
                  /\ \A i \in 1..Len(Drop(w, b)) : Drop(w, b)[i] = w[i + b]
                BY <1>12, <3>2, TakeDrop
            <4>6. /\ Len(q) = (IF b < Len(bs) THEN Len(bs) - b ELSE 0)
                  /\ \A i \in 1..Len(q) : q[i] = bs[i + b]
                BY <1>1, <3>2, TakeDrop, SMTT(60)
            <4> HIDE DEF p, q
            <4>7. ASSUME NEW i \in 1..Len(q) PROVE w[i + b] = bs[i + b]
                <5>1. i + b \in 1..Len(bs) /\ i + b # b
                    BY <1>1, <4>6
                <5> QED BY <1>12, <5>1
            <4>8. Len(Drop(w, b)) = Len(q)
                BY <1>12, <4>5, <4>6
            <4>9. Drop(w, b) = q
                BY <1>5, <4>5, <4>6, <4>7, <4>8, SeqEqual
            <4> QED BY <4>4, <4>9
        <3>5. p # <<>>
            <4>1. Len(p) = b - 1
                BY <1>1, <1>12, <3>2, TakeDrop
            <4> QED BY <3>2, <4>1
        <3>6. p \o q \in Seq(Held) /\ p \o q # <<>>
            BY <1>5, <3>5, Lists
        <3>7. <<>> \o Contents(q) = Contents(q)
            BY <1>5, ConcatEmptySeq
        <3> QED BY <1>5, <2>2, <3>3, <3>4, <3>6, <3>7 DEF IsList
    <2> QED BY <2>1, <2>2
<1>14. Contents(p) \o ((l \o r) \o Contents(q)) = (Contents(p) \o l) \o (r \o Contents(q))
    <2>1. Cat(Contents(p), Cat(Cat(l, r), Contents(q)))
            = Cat(Cat(Contents(p), l), Cat(r, Contents(q)))
        BY <1>5, <1>8, Cat4
    <2> QED BY <2>1 DEF Cat
<1>15. index + n <= Len(Contents(bs))
    <2> DEFINE c == Contents(p)
               d == Contents(q)
    <2>1. c \in Seq(Byte) /\ d \in Seq(Byte) /\ Contents(bs) = c \o (x \o d) /\ Len(c) = Before(bs, b)
        BY <1>5
    <2> HIDE DEF c, d
    <2>2. x \o d \in Seq(Byte) /\ Len(x \o d) = Len(x) + Len(d) /\ Len(d) \in Nat
        BY <1>4, <2>1, Joined
    <2>3. Len(c \o (x \o d)) = Len(c) + Len(x \o d)
        BY <2>1, <2>2, Joined
    <2> QED BY <1>1, <1>6, <2>1, <2>2, <2>3, SMTT(60)
<1> QED BY <1>3, <1>7, <1>9, <1>13, <1>14, <1>15 DEF l, r

\* A byte of a block, among all of them.
LEMMA PlaceInContents ==
    ASSUME NEW bs, IsList(bs), NEW b \in 1..Len(bs), NEW j \in 1..Len(bs[b])
    PROVE  /\ Before(bs, b) + j \in 1..Len(Contents(bs))
           /\ Contents(bs)[Before(bs, b) + j] = bs[b][j]
           /\ Before(bs, b) \in Nat
<1> DEFINE p == Contents(Take(bs, b - 1))
           q == Contents(Drop(bs, b))
           x == bs[b]
<1>1. /\ p \in Seq(Byte) /\ q \in Seq(Byte) /\ x \in Seq(Byte)
      /\ Contents(bs) = p \o (x \o q) /\ Len(p) = Before(bs, b)
    BY Lists, BlockContents DEF IsList
<1>2. j \in 1..Len(x)
    OBVIOUS
<1> HIDE DEF p, q, x
<1>3. /\ x \o q \in Seq(Byte) /\ Len(x \o q) = Len(x) + Len(q)
      /\ (x \o q)[j] = x[j]
    BY <1>1, <1>2, Joined
<1>4. Len(x) \in Nat /\ Len(q) \in Nat /\ Len(p) \in Nat
    BY <1>1
<1>5. j \in 1..Len(x \o q)
    BY <1>2, <1>3, <1>4
<1> DEFINE y == x \o q
<1> HIDE DEF y
<1>6. Len(p \o y) = Len(p) + Len(y) /\ (p \o y)[Len(p) + j] = y[j]
    BY <1>1, <1>3, <1>5, Joined DEF y
<1>7. Len(p) + j \in 1..Len(p) + Len(y)
    BY <1>2, <1>3, <1>4 DEF y
<1> QED BY <1>1, <1>3, <1>4, <1>6, <1>7 DEF y, x

\* The block of a byte.
LEMMA PlaceFound ==
    ASSUME NEW bs, IsList(bs), NEW k \in 1..Len(Contents(bs))
    PROVE  \E b \in 1..Len(bs) : \E j \in 1..Len(bs[b]) : k = Before(bs, b) + j
<1> DEFINE index == k - 1
           b == FindBlockByOffset(bs, index)
           o == index - Before(bs, b)
<1>1. index \in Nat /\ index < Len(Contents(bs))
    <2>1. Contents(bs) \in Seq(Byte)
        BY Lists DEF IsList
    <2>2. Len(Contents(bs)) \in Nat
        BY <2>1
    <2> QED BY <2>2
<1> HIDE DEF index
<1>2. /\ b \in 1..Len(bs) /\ o \in 0..Len(bs[b]) /\ o < Len(bs[b])
      /\ index = Before(bs, b) + o /\ Before(bs, b) \in Nat
    BY <1>1, OffsetFound
<1> HIDE DEF b, o
<1>3. Len(bs[b]) \in Nat
    <2>1. bs[b] \in Seq(Byte)
        BY <1>2 DEF IsList, Held
    <2> QED BY <2>1
<1>4. o + 1 \in 1..Len(bs[b]) /\ k = Before(bs, b) + (o + 1)
    BY <1>2, <1>3 DEF index
<1> QED BY <1>2, <1>4

\* What lies before a block follows from the lengths of the blocks.
LEMMA SameBefore ==
    ASSUME NEW bs, IsList(bs), NEW ws, IsList(ws), Len(ws) = Len(bs),
           \A i \in 1..Len(bs) : Len(ws[i]) = Len(bs[i])
    PROVE  /\ \A b \in 1..Len(bs) + 1 : Before(ws, b) = Before(bs, b)
           /\ Len(Contents(ws)) = Len(Contents(bs))
<1> DEFINE n == Len(bs)
           off == {b \in 1..n + 1 : Before(ws, b) # Before(bs, b)}
<1>1. /\ bs \in Seq(Seq(Byte)) /\ ws \in Seq(Seq(Byte)) /\ n \in Nat /\ n > 0
      /\ bs \in Seq(Held) /\ ws \in Seq(Held)
    <2>1. n # 0
        BY EmptySeq DEF IsList
    <2> QED BY <2>1, Lists DEF IsList
<1>2. Len(ws) = n /\ \A i \in 1..n : Len(ws[i]) = Len(bs[i])
    OBVIOUS
<1>3. Before(bs, 1) = 0 /\ Before(ws, 1) = 0
    <2> DEFINE b == 1
    <2>1. b \in 1..Len(bs) /\ b \in 1..Len(ws) /\ b - 1 = 0
        BY <1>1, <1>2
    <2> HIDE DEF b
    <2>2. /\ Before(bs, b) = Len(Contents(Take(bs, b - 1)))
          /\ Before(ws, b) = Len(Contents(Take(ws, b - 1)))
        BY <1>1, <2>1, BlockContents
    <2>3. Take(bs, 0) = <<>> /\ Take(ws, 0) = <<>>
        BY <1>1, CutAtEnds
    <2>4. Contents(<<>>) = <<>>
        BY ContentsNone
    <2>5. Before(bs, b) = 0 /\ Before(ws, b) = 0
        BY <2>1, <2>2, <2>3, <2>4
    <2> QED BY <2>5 DEF b
<1>4. \A b \in 1..n : /\ Before(bs, b + 1) = Before(bs, b) + Len(bs[b])
                      /\ Before(ws, b + 1) = Before(ws, b) + Len(ws[b])
    BY <1>1, <1>2, BlockContents
<1>5. off = {}
    <2> SUFFICES ASSUME off # {} PROVE FALSE
        OBVIOUS
    <2>1. off \in SUBSET Nat
        BY <1>1
    <2>2. PICK b \in off : \A c \in off : b <= c
        BY <2>1, LeastIndex
    <2>3. b \in 1..n + 1 /\ Before(ws, b) # Before(bs, b) /\ b # 1
        BY <1>3, <2>2
    <2>4. b - 1 \in 1..n /\ b - 1 \in 1..n + 1 /\ ~(b <= b - 1) /\ b = (b - 1) + 1
        BY <1>1, <2>3
    <2>5. Before(ws, b - 1) = Before(bs, b - 1)
        BY <2>2, <2>4
    <2>6. Before(ws, (b - 1) + 1) = Before(bs, (b - 1) + 1)
        BY <1>2, <1>4, <2>4, <2>5
    <2> QED BY <2>3, <2>4, <2>6
<1>6. \A b \in 1..n + 1 : Before(ws, b) = Before(bs, b)
    BY <1>5
<1>7. Len(Contents(ws)) = Before(ws, n + 1) /\ Len(Contents(bs)) = Before(bs, n + 1)
    BY <1>1, <1>2, BeforeAll
<1>8. n + 1 \in 1..n + 1
    BY <1>1
<1> QED BY <1>6, <1>7, <1>8

\* Bytes overwritten in place, at each position.
LEMMA Overwrites ==
    ASSUME NEW bs, IsList(bs), NEW index \in Nat, NEW s \in Seq(Byte)
    PROVE  LET ws == Overwritten(bs, index, s)
           IN /\ IsList(ws) /\ Contents(ws) \in Seq(Byte)
              /\ Len(Contents(ws)) = Len(Contents(bs))
              /\ \A k \in 1..Len(Contents(bs)) :
                     Contents(ws)[k] = IF k - index \in 1..Len(s) THEN s[k - index]
                                                                  ELSE Contents(bs)[k]
<1> DEFINE ws == Overwritten(bs, index, s)
<1>1. bs \in Seq(Held) /\ bs # <<>> /\ Len(bs) \in Nat /\ bs \in Seq(Seq(Byte))
    BY Lists DEF IsList
<1>2. \A b \in 1..Len(bs) : bs[b] \in Seq(Byte) /\ Len(bs[b]) \in Nat /\ Len(bs[b]) <= Block
    BY <1>1 DEF Held
<1>3. \A b \in 1..Len(bs) : \A j \in 1..Len(bs[b]) : Before(bs, b) \in Nat
    BY PlaceInContents
<1>4. ws = [b \in 1..Len(bs) |-> [j \in 1..Len(bs[b]) |->
              IF Before(bs, b) + j - index \in 1..Len(s)
              THEN s[Before(bs, b) + j - index] ELSE bs[b][j]]]
    <2>1. DOMAIN bs = 1..Len(bs) /\ DOMAIN s = 1..Len(s)
        OBVIOUS
    <2>2. \A b \in 1..Len(bs) : DOMAIN bs[b] = 1..Len(bs[b])
        BY <1>2
    <2> QED BY <2>1, <2>2 DEF Overwritten
<1> HIDE DEF ws
<1>5. ASSUME NEW b \in 1..Len(bs)
      PROVE  /\ ws[b] \in Seq(Byte) /\ Len(ws[b]) = Len(bs[b])
             /\ \A j \in 1..Len(bs[b]) :
                    ws[b][j] = IF Before(bs, b) + j - index \in 1..Len(s)
                               THEN s[Before(bs, b) + j - index] ELSE bs[b][j]
    <2> DEFINE x == [j \in 1..Len(bs[b]) |->
                        IF Before(bs, b) + j - index \in 1..Len(s)
                        THEN s[Before(bs, b) + j - index] ELSE bs[b][j]]
    <2>1. ws[b] = x
        BY <1>4
    <2>2. Len(bs[b]) \in Nat /\ \A j \in 1..Len(bs[b]) : bs[b][j] \in Byte
        BY <1>2
    <2>3. \A i \in 1..Len(s) : s[i] \in Byte
        OBVIOUS
    <2>4. x \in [1..Len(bs[b]) -> Byte]
        BY <2>2, <2>3
    <2>5. \A j \in 1..Len(bs[b]) :
              x[j] = IF Before(bs, b) + j - index \in 1..Len(s)
                     THEN s[Before(bs, b) + j - index] ELSE bs[b][j]
        OBVIOUS
    <2> HIDE DEF x
    <2>6. x \in Seq(Byte) /\ Len(x) = Len(bs[b])
        BY <2>2, <2>4
    <2> QED BY <2>1, <2>5, <2>6
<1>6. DOMAIN ws = 1..Len(bs) /\ \A b \in 1..Len(bs) : ws[b] \in Held
    <2>1. DOMAIN ws = 1..Len(bs)
        BY <1>4
    <2> QED BY <1>2, <1>5, <2>1 DEF Held
<1>7. IsList(ws) /\ Len(ws) = Len(bs)
    <2>1. ws = [b \in 1..Len(bs) |-> ws[b]]
        BY <1>4
    <2>2. ws \in [1..Len(bs) -> Held]
        BY <1>6, <2>1
    <2>3. ws \in Seq(Held) /\ Len(ws) = Len(bs)
        BY <1>1, <2>2, SMTT(60)
    <2>4. Len(ws) # 0
        BY <1>1, <2>3, EmptySeq
    <2> QED BY <2>3, <2>4 DEF IsList
<1>8. /\ \A b \in 1..Len(bs) + 1 : Before(ws, b) = Before(bs, b)
      /\ Len(Contents(ws)) = Len(Contents(bs))
    BY <1>5, <1>7, SameBefore
<1>9. Contents(ws) \in Seq(Byte)
    BY <1>7, Lists DEF IsList
<1>10. ASSUME NEW k \in 1..Len(Contents(bs))
       PROVE  Contents(ws)[k] = IF k - index \in 1..Len(s) THEN s[k - index]
                                                           ELSE Contents(bs)[k]
    <2>1. PICK b \in 1..Len(bs) : \E j \in 1..Len(bs[b]) : k = Before(bs, b) + j
        BY PlaceFound
    <2>2. PICK j \in 1..Len(bs[b]) : k = Before(bs, b) + j
        BY <2>1
    <2>3. Contents(bs)[Before(bs, b) + j] = bs[b][j]
        BY PlaceInContents
    <2>4. b \in 1..Len(ws) /\ j \in 1..Len(ws[b]) /\ Before(ws, b) = Before(bs, b)
        BY <1>1, <1>5, <1>7, <1>8
    <2>5. Contents(ws)[Before(ws, b) + j] = ws[b][j]
        BY <1>7, <2>4, PlaceInContents
    <2>6. ws[b][j] = IF k - index \in 1..Len(s) THEN s[k - index] ELSE bs[b][j]
        <3> DEFINE i == Before(bs, b) + j - index
        <3>1. ws[b][j] = IF i \in 1..Len(s) THEN s[i] ELSE bs[b][j]
            BY <1>5
        <3>2. i = k - index
            <4>1. Before(bs, b) \in Nat /\ j \in Nat
                BY <1>2, <1>3
            <4> QED BY <2>2, <4>1
        <3> HIDE DEF i
        <3> QED BY <3>1, <3>2
    <2>7. Contents(ws)[k] = ws[b][j] /\ Contents(bs)[k] = bs[b][j]
        BY <2>2, <2>3, <2>4, <2>5
    <2> QED BY <2>6, <2>7
<1> QED BY <1>7, <1>8, <1>9, <1>10 DEF ws
-------------------------------------------------------------------------------
(* What a call makes of the bytes, position by position.                       *)

\* s in place of the n bytes of t from index on.
Spliced(t, index, n, s) == (Take(t, index) \o s) \o Drop(t, index + n)

\* The same, position by position.
SplicedAt(w, t, index, n, s) ==
    /\ Len(w) = index + Len(s) + (IF index + n < Len(t) THEN Len(t) - (index + n) ELSE 0)
    /\ \A k \in 1..Len(w) :
           w[k] = IF k <= index THEN t[k]
                  ELSE IF k <= index + Len(s) THEN s[k - index]
                  ELSE t[k - Len(s) + n]

\* What a splice gives.
LEMMA SpliceAt ==
    ASSUME NEW S, NEW t \in Seq(S), NEW s \in Seq(S), NEW index \in Nat, NEW n \in Nat,
           index <= Len(t)
    PROVE  /\ Spliced(t, index, n, s) \in Seq(S)
           /\ SplicedAt(Spliced(t, index, n, s), t, index, n, s)
<1> DEFINE u == Take(t, index)
           v == Drop(t, index + n)
<1>1. /\ u \in Seq(S) /\ Len(u) = index /\ \A i \in 1..Len(u) : u[i] = t[i]
      /\ Len(t) \in Nat /\ Len(s) \in Nat
    <2>1. Len(t) \in Nat /\ Len(s) \in Nat
        OBVIOUS
    <2>2. /\ Take(t, index) \in Seq(S)
          /\ Len(Take(t, index)) = (IF index < Len(t) THEN index ELSE Len(t))
          /\ \A i \in 1..Len(Take(t, index)) : Take(t, index)[i] = t[i]
        BY TakeDrop
    <2> HIDE DEF u
    <2>3. Len(u) = (IF index < Len(t) THEN index ELSE Len(t)) /\ Len(t) \in Nat
        BY <2>1, <2>2 DEF u
    <2>4. Len(u) = index
        BY <2>3
    <2> QED BY <2>1, <2>2, <2>4 DEF u
<1>2. /\ v \in Seq(S) /\ Len(v) = (IF index + n < Len(t) THEN Len(t) - (index + n) ELSE 0)
      /\ \A i \in 1..Len(v) : v[i] = t[i + (index + n)]
    <2>1. index + n \in Nat
        OBVIOUS
    <2> QED BY <2>1, TakeDrop
<1> HIDE DEF u, v
<1> DEFINE x == Cat(u, s)
<1>3. /\ x \in Seq(S) /\ Len(x) = index + Len(s)
      /\ \A i \in 1..Len(u) : x[i] = u[i]
      /\ \A i \in 1..Len(s) : x[Len(u) + i] = s[i]
    <2>0. u \in Seq(S)
        BY <1>1
    <2>1. x \in Seq(S) /\ Len(x) = Len(u) + Len(s)
        BY <2>0, CatAt
    <2>2. \A i \in 1..Len(u) : x[i] = u[i]
        BY <2>0, CatAt
    <2>3. \A i \in 1..Len(s) : x[Len(u) + i] = s[i]
        BY <2>0, CatAt
    <2> HIDE DEF x
    <2> QED BY <1>1, <2>1, <2>2, <2>3
<1> HIDE DEF x
<1> DEFINE z == Cat(x, v)
<1>4. /\ z \in Seq(S) /\ Len(z) = Len(x) + Len(v)
      /\ \A i \in 1..Len(x) : z[i] = x[i]
      /\ \A i \in 1..Len(v) : z[Len(x) + i] = v[i]
    <2>0. x \in Seq(S) /\ v \in Seq(S)
        BY <1>2, <1>3
    <2>1. z \in Seq(S) /\ Len(z) = Len(x) + Len(v)
        BY <2>0, CatAt
    <2>2. \A i \in 1..Len(x) : z[i] = x[i]
        BY <2>0, CatAt
    <2>3. \A i \in 1..Len(v) : z[Len(x) + i] = v[i]
        BY <2>0, CatAt
    <2> QED BY <2>1, <2>2, <2>3
<1>5. Spliced(t, index, n, s) = z
    BY DEF Spliced, u, v, x, Cat
<1> HIDE DEF z
<1>6. Len(v) \in Nat
    BY <1>2
<1>7. ASSUME NEW k \in 1..Len(z)
      PROVE  z[k] = IF k <= index THEN t[k]
                    ELSE IF k <= index + Len(s) THEN s[k - index] ELSE t[k - Len(s) + n]
    <2>1. CASE k <= index
        <3>1. k \in 1..Len(u) /\ k \in 1..Len(x)
            BY <1>1, <1>3, <2>1
        <3> QED BY <1>1, <1>3, <1>4, <2>1, <3>1
    <2>2. CASE k > index /\ k <= index + Len(s)
        <3> DEFINE i == k - index
        <3>1. i \in 1..Len(s) /\ Len(u) + i = k /\ k \in 1..Len(x)
            BY <1>1, <1>3, <2>2
        <3> HIDE DEF i
        <3>2. z[k] = s[i] /\ ~(k <= index)
            BY <1>3, <1>4, <2>2, <3>1
        <3> QED BY <2>2, <3>2 DEF i
    <2>3. CASE k > index + Len(s)
        <3> DEFINE i == k - (index + Len(s))
                   j == k - Len(s) + n
        <3>1. i \in 1..Len(v) /\ Len(x) + i = k /\ i + (index + n) = j
            BY <1>1, <1>3, <1>4, <1>6, <2>3
        <3>2. ~(k <= index) /\ ~(k <= index + Len(s))
            BY <1>1, <2>3
        <3> HIDE DEF i, j
        <3>3. z[k] = t[j]
            BY <1>2, <1>4, <3>1
        <3> QED BY <3>2, <3>3 DEF j
    <2> QED BY <1>1, <2>1, <2>2, <2>3
<1>8. Len(z) = index + Len(s) + (IF index + n < Len(t) THEN Len(t) - (index + n) ELSE 0)
    BY <1>2, <1>3, <1>4
<1> QED BY <1>4, <1>5, <1>7, <1>8 DEF SplicedAt

\* Bytes put behind the others, in front of them, and taken out.
LEMMA SpliceEnds ==
    ASSUME NEW S, NEW t \in Seq(S), NEW s \in Seq(S), NEW index \in Nat, NEW n \in Nat
    PROVE  /\ index >= Len(t) => Spliced(t, index, n, s) = t \o s
           /\ Spliced(t, 0, 0, s) = s \o t
<1>1. Len(t) \in Nat /\ index + n \in Nat /\ 0 \in Nat /\ 0 + 0 = 0
    OBVIOUS
<1>2. ASSUME index >= Len(t) PROVE Spliced(t, index, n, s) = t \o s
    <2>1. Take(t, index) = t /\ Drop(t, index + n) = <<>>
        BY <1>1, <1>2, CutAtEnds
    <2>2. (t \o s) \o <<>> = t \o s
        <3> DEFINE u == t \o s
        <3>1. u \in Seq(S)
            OBVIOUS
        <3> HIDE DEF u
        <3>2. u \o <<>> = u
            BY <3>1, ConcatEmptySeq
        <3> QED BY <3>2 DEF u
    <2> QED BY <2>1, <2>2 DEF Spliced
<1>3. Spliced(t, 0, 0, s) = s \o t
    <2>1. Take(t, 0) = <<>> /\ Drop(t, 0) = t
        BY <1>1, CutAtEnds
    <2>2. <<>> \o s = s
        BY ConcatEmptySeq
    <2> QED BY <1>1, <2>1, <2>2 DEF Spliced
<1> QED BY <1>2, <1>3

\* Nothing put in place of the bytes taken out.
LEMMA SpliceNone ==
    ASSUME NEW S, NEW t \in Seq(S), NEW index \in Nat, NEW n \in Nat
    PROVE  Spliced(t, index, n, <<>>) = Take(t, index) \o Drop(t, index + n)
<1>1. Take(t, index) \in Seq(S)
    BY TakeDrop
<1>2. Take(t, index) \o <<>> = Take(t, index)
    BY <1>1, ConcatEmptySeq
<1> QED BY <1>2 DEF Spliced

\* d is e with s written over it from index on.
WrittenAt(d, e, index, s) ==
    /\ Len(d) = Len(e)
    /\ \A k \in 1..Len(e) : d[k] = IF k - index \in 1..Len(s) THEN s[k - index] ELSE e[k]

\* Nothing is written past the end.
LEMMA WrittenPast ==
    ASSUME NEW S, NEW d \in Seq(S), NEW e \in Seq(S), NEW s \in Seq(S), NEW index \in Nat,
           WrittenAt(d, e, index, s), index >= Len(e)
    PROVE  d = e
<1>1. Len(e) \in Nat /\ Len(s) \in Nat /\ Len(d) = Len(e)
    BY DEF WrittenAt
<1>2. ASSUME NEW k \in 1..Len(e) PROVE d[k] = e[k]
    <2>1. ~(k - index \in 1..Len(s))
        BY <1>1
    <2> QED BY <2>1 DEF WrittenAt
<1> QED BY <1>1, <1>2, SeqEqual

\* What is written is spliced in, as much of it as there is room for.
LEMMA WrittenSpliced ==
    ASSUME NEW S, NEW d \in Seq(S), NEW e \in Seq(S), NEW s \in Seq(S), NEW index \in Nat,
           WrittenAt(d, e, index, s), index < Len(e)
    PROVE  d = Spliced(e, index, Len(s), Take(s, Len(e) - index))
<1> DEFINE r == Take(s, Len(e) - index)
           z == Spliced(e, index, Len(s), r)
           n == Len(s)
           m == Len(e)
<1>1. n \in Nat /\ m \in Nat /\ m - index \in Nat /\ Len(d) = m
    BY DEF WrittenAt
<1>2. /\ r \in Seq(S) /\ Len(r) = (IF m - index < n THEN m - index ELSE n)
      /\ \A i \in 1..Len(r) : r[i] = s[i]
    BY <1>1, TakeDrop
<1> HIDE DEF r
<1>3. /\ z \in Seq(S)
      /\ Len(z) = index + Len(r) + (IF index + n < m THEN m - (index + n) ELSE 0)
      /\ \A k \in 1..Len(z) :
             z[k] = IF k <= index THEN e[k]
                    ELSE IF k <= index + Len(r) THEN r[k - index] ELSE e[k - Len(r) + n]
    <2>1. r \in Seq(S) /\ n \in Nat /\ index <= Len(e)
        BY <1>1, <1>2
    <2> HIDE DEF n
    <2>2. z \in Seq(S) /\ SplicedAt(z, e, index, n, r)
        BY <2>1, SpliceAt DEF n
    <2> HIDE DEF z
    <2> QED BY <2>2 DEF SplicedAt
<1>4. \A k \in 1..m : d[k] = IF k - index \in 1..n THEN s[k - index] ELSE e[k]
    BY DEF WrittenAt
<1> HIDE DEF z, n, m
<1>5. Len(z) = m
    <2>1. Len(r) \in Nat
        BY <1>1, <1>2
    <2> QED BY <1>1, <1>2, <1>3, <2>1
<1>6. ASSUME NEW k \in 1..m PROVE d[k] = z[k]
    <2> DEFINE i == k - index
    <2>1. Len(r) \in Nat /\ k \in 1..Len(z)
        BY <1>1, <1>2, <1>5
    <2>2. CASE k <= index
        <3>1. ~(i \in 1..n)
            BY <1>1, <2>2
        <3> QED BY <1>3, <1>4, <2>1, <2>2, <3>1
    <2>3. CASE k > index /\ k <= index + Len(r)
        <3>1. i \in 1..n /\ i \in 1..Len(r) /\ ~(k <= index)
            BY <1>1, <1>2, <2>1, <2>3
        <3>2. d[k] = s[i]
            BY <1>4, <3>1
        <3>3. z[k] = r[i]
            BY <1>3, <2>1, <2>3, <3>1
        <3> HIDE DEF i
        <3> QED BY <1>2, <3>1, <3>2, <3>3
    <2>4. CASE k > index + Len(r)
        <3>1. ~(i \in 1..n) /\ ~(k <= index) /\ ~(k <= index + Len(r)) /\ Len(r) = n
            BY <1>1, <1>2, <2>1, <2>4
        <3>2. d[k] = e[k]
            BY <1>4, <3>1
        <3> DEFINE j == k - Len(r) + n
        <3>3. z[k] = e[j]
            BY <1>3, <2>1, <3>1
        <3>4. j = k
            BY <1>1, <3>1
        <3> HIDE DEF j
        <3> QED BY <3>2, <3>3, <3>4
    <2> QED BY <1>1, <2>1, <2>2, <2>3, <2>4
<1>7. d = z
    BY <1>1, <1>3, <1>5, <1>6, SeqEqual
<1> QED BY <1>7 DEF z, n, r

\* With room for all of it, it takes the place of as many bytes.
LEMMA WrittenSame ==
    ASSUME NEW S, NEW d \in Seq(S), NEW e \in Seq(S), NEW s \in Seq(S), NEW index \in Nat,
           WrittenAt(d, e, index, s), index < Len(e), index + Len(s) <= Len(e)
    PROVE  d = Spliced(e, index, Len(s), s)
<1>1. Len(e) - index \in Nat /\ Len(e) - index >= Len(s)
    OBVIOUS
<1>2. Take(s, Len(e) - index) = s
    BY <1>1, CutAtEnds
<1> QED BY <1>2, WrittenSpliced

\* A splice may ask for more bytes than there are.
LEMMA SplicePast ==
    ASSUME NEW S, NEW t \in Seq(S), NEW s \in Seq(S), NEW index \in Nat, NEW n \in Nat,
           NEW m \in Nat, index + n >= Len(t), index + m >= Len(t)
    PROVE  Spliced(t, index, n, s) = Spliced(t, index, m, s)
<1>1. index + n \in Nat /\ index + m \in Nat
    OBVIOUS
<1>2. Drop(t, index + n) = <<>> /\ Drop(t, index + m) = <<>>
    BY <1>1, CutAtEnds
<1> QED BY <1>2 DEF Spliced

\* Room made behind old bytes, then the longer text written over both.
LEMMA Grown ==
    ASSUME NEW S, NEW t \in Seq(S), NEW s \in Seq(S), NEW pad \in Seq(S),
           NEW index \in Nat, NEW old \in Nat, index + old <= Len(t), Len(pad) = Len(s) - old,
           NEW e \in Seq(S), SplicedAt(e, t, index + old, 0, pad),
           NEW d \in Seq(S), WrittenAt(d, e, index, s)
    PROVE  d = Spliced(t, index, old, s)
<1> DEFINE z == Spliced(t, index, old, s)
           n == Len(s)
           m == Len(t)
           at == index + old
<1>1. /\ n \in Nat /\ m \in Nat /\ at \in Nat /\ at <= m /\ at = index + old
      /\ n - old \in Nat /\ Len(pad) = n - old
    <2>1. Len(pad) \in Nat
        OBVIOUS
    <2> QED BY <2>1
<1>2. z \in Seq(S) /\ SplicedAt(z, t, index, old, s)
    <2>1. index <= Len(t)
        BY <1>1
    <2> QED BY <2>1, SpliceAt
<1> HIDE DEF z
<1>3. /\ Len(z) = index + n + (IF index + old < m THEN m - (index + old) ELSE 0)
      /\ \A k \in 1..Len(z) :
             z[k] = IF k <= index THEN t[k]
                    ELSE IF k <= index + n THEN s[k - index] ELSE t[k - n + old]
    BY <1>2 DEF SplicedAt
<1>4. /\ Len(e) = at + Len(pad) + (IF at + 0 < m THEN m - (at + 0) ELSE 0)
      /\ \A k \in 1..Len(e) :
             e[k] = IF k <= at THEN t[k]
                    ELSE IF k <= at + Len(pad) THEN pad[k - at] ELSE t[k - Len(pad) + 0]
    BY DEF SplicedAt
<1>5. /\ Len(d) = Len(e)
      /\ \A k \in 1..Len(e) : d[k] = IF k - index \in 1..n THEN s[k - index] ELSE e[k]
    BY DEF WrittenAt
<1> HIDE DEF n, m, at
<1>6. Len(d) = Len(z) /\ Len(z) \in Nat /\ Len(e) = Len(z)
    BY <1>1, <1>3, <1>4, <1>5
<1>7. ASSUME NEW k \in 1..Len(d) PROVE d[k] = z[k]
    <2>1. k \in 1..Len(e) /\ k \in 1..Len(z)
        BY <1>5, <1>6
    <2>2. CASE k <= index
        <3>1. ~(k - index \in 1..n) /\ k <= at
            BY <1>1, <1>6, <2>2
        <3> QED BY <1>3, <1>4, <1>5, <2>1, <2>2, <3>1
    <2>3. CASE k > index /\ k <= index + n
        <3> DEFINE i == k - index
        <3>1. i \in 1..n /\ ~(k <= index)
            BY <1>1, <1>6, <2>3
        <3>2. d[k] = s[i]
            BY <1>5, <2>1, <3>1
        <3>3. z[k] = s[i]
            BY <1>3, <2>1, <2>3, <3>1
        <3> QED BY <3>2, <3>3
    <2>4. CASE k > index + n
        <3>1. /\ ~(k - index \in 1..n) /\ ~(k <= index) /\ ~(k <= index + n)
              /\ ~(k <= at) /\ ~(k <= at + Len(pad))
            BY <1>1, <1>6, <2>4
        <3> DEFINE p == Len(pad)
                   i == k - p + 0
                   j == k - n + old
        <3>2. d[k] = t[i]
            BY <1>4, <1>5, <2>1, <3>1
        <3>3. z[k] = t[j]
            BY <1>3, <2>1, <3>1
        <3>4. i = j
            <4>1. p \in Nat /\ k \in Nat
                BY <1>1, <1>6
            <4>2. p = n - old
                BY <1>1
            <4> HIDE DEF p
            <4> QED BY <1>1, <4>1, <4>2
        <3> HIDE DEF i, j
        <3> QED BY <3>2, <3>3, <3>4
    <2> QED BY <1>1, <1>6, <2>2, <2>3, <2>4
<1>8. d = z
    BY <1>2, <1>6, <1>7, SeqEqual
<1> QED BY <1>8 DEF z

\* The rest of longer old bytes removed, then the shorter text written over them.
LEMMA Shrunk ==
    ASSUME NEW S, NEW t \in Seq(S), NEW s \in Seq(S), NEW index \in Nat, NEW old \in Nat,
           index + old <= Len(t), NEW n \in Nat, n = old - Len(s),
           NEW none \in Seq(S), Len(none) = 0,
           NEW e \in Seq(S), SplicedAt(e, t, index + Len(s), n, none),
           NEW d \in Seq(S), WrittenAt(d, e, index, s)
    PROVE  d = Spliced(t, index, old, s)
<1> DEFINE z == Spliced(t, index, old, s)
           h == Len(s)
           m == Len(t)
           at == index + h
<1>1. h \in Nat /\ m \in Nat /\ at \in Nat /\ at = index + h /\ n = old - h /\ index + old <= m
    OBVIOUS
<1>2. z \in Seq(S) /\ SplicedAt(z, t, index, old, s)
    <2>1. index <= Len(t)
        BY <1>1
    <2> QED BY <2>1, SpliceAt
<1> HIDE DEF z
<1>3. /\ Len(z) = index + h + (IF index + old < m THEN m - (index + old) ELSE 0)
      /\ \A k \in 1..Len(z) :
             z[k] = IF k <= index THEN t[k]
                    ELSE IF k <= index + h THEN s[k - index] ELSE t[k - h + old]
    BY <1>2 DEF SplicedAt
<1>4. /\ Len(e) = at + Len(none) + (IF at + n < m THEN m - (at + n) ELSE 0)
      /\ \A k \in 1..Len(e) :
             e[k] = IF k <= at THEN t[k]
                    ELSE IF k <= at + Len(none) THEN none[k - at] ELSE t[k - Len(none) + n]
    BY DEF SplicedAt
<1>5. /\ Len(d) = Len(e)
      /\ \A k \in 1..Len(e) : d[k] = IF k - index \in 1..h THEN s[k - index] ELSE e[k]
    BY DEF WrittenAt
<1> HIDE DEF h, m, at
<1>6. Len(d) = Len(z) /\ Len(z) \in Nat /\ Len(e) = Len(z)
    BY <1>1, <1>3, <1>4, <1>5
<1>7. ASSUME NEW k \in 1..Len(d) PROVE d[k] = z[k]
    <2>1. k \in 1..Len(e) /\ k \in 1..Len(z)
        BY <1>5, <1>6
    <2>2. CASE k <= index
        <3>1. ~(k - index \in 1..h) /\ k <= at
            BY <1>1, <1>6, <2>2
        <3> QED BY <1>3, <1>4, <1>5, <2>1, <2>2, <3>1
    <2>3. CASE k > index /\ k <= index + h
        <3> DEFINE i == k - index
        <3>1. i \in 1..h /\ ~(k <= index)
            BY <1>1, <1>6, <2>3
        <3>2. d[k] = s[i]
            BY <1>5, <2>1, <3>1
        <3>3. z[k] = s[i]
            BY <1>3, <2>1, <2>3, <3>1
        <3> QED BY <3>2, <3>3
    <2>4. CASE k > index + h
        <3>1. /\ ~(k - index \in 1..h) /\ ~(k <= index) /\ ~(k <= index + h)
              /\ ~(k <= at) /\ ~(k <= at + Len(none))
            BY <1>1, <1>6, <2>4
        <3> DEFINE p == Len(none)
                   i == k - p + n
                   j == k - h + old
        <3>2. d[k] = t[i]
            BY <1>4, <1>5, <2>1, <3>1
        <3>3. z[k] = t[j]
            BY <1>3, <2>1, <3>1
        <3>4. i = j
            <4>1. p \in Nat /\ k \in Nat
                BY <1>1, <1>6
            <4>2. p = 0
                BY <1>1
            <4> HIDE DEF p
            <4> QED BY <1>1, <4>1, <4>2, SMTT(60)
        <3> HIDE DEF i, j
        <3> QED BY <3>2, <3>3, <3>4
    <2> QED BY <1>1, <1>6, <2>2, <2>3, <2>4
<1>8. d = z
    BY <1>2, <1>6, <1>7, SeqEqual
<1> QED BY <1>8 DEF z
-------------------------------------------------------------------------------
(* The steps of the buffer.                                                    *)

\* Until a call is not carried through, the blocks are a list of at most Block
\* bytes each, and m_TotalUsed is the number of bytes in them.
Sound(bs, n) == IsList(bs) /\ n = Len(Contents(bs))
BlocksIInv == torn = FALSE => Sound(blocks, total)

\* An insertion that does not spill.
LEMMA Inserts ==
    ASSUME Sound(blocks, total), NEW index \in Nat, NEW s \in Seq(Byte),
           ~Spills(blocks, index, s)
    PROVE  /\ IsList(Inserted(blocks, index, s)) /\ IsList(InsertFilled(blocks, index, s))
           /\ Contents(Inserted(blocks, index, s)) = Spliced(Contents(blocks), index, 0, s)
           /\ Contents(InsertFilled(blocks, index, s)) = Spliced(Contents(blocks), index, 0, s)
<1> DEFINE C == Contents(blocks)
<1>1. IsList(blocks) /\ total = Len(C) /\ C \in Seq(Byte) /\ total \in Nat
    <2>1. IsList(blocks) /\ C \in Seq(Byte) /\ total = Len(C)
        BY Lists DEF Sound, IsList
    <2> QED BY <2>1
<1>2. CASE index >= total
    <2>1. /\ Inserted(blocks, index, s) = Appended(blocks, s)
          /\ InsertFilled(blocks, index, s) = Appended(blocks, s)
        BY <1>1, <1>2 DEF Inserted, InsertFilled, Interior
    <2>2. IsList(Appended(blocks, s)) /\ Contents(Appended(blocks, s)) = C \o s
        BY <1>1, Appends
    <2>3. Spliced(C, index, 0, s) = C \o s
        <3>1. \A n \in Nat : Spliced(C, index, n, s) = C \o s
            BY <1>1, <1>2, SpliceEnds
        <3> QED BY <3>1
    <2> QED BY <2>1, <2>2, <2>3
<1>3. CASE index < total /\ index = 0
    <2>1. /\ Inserted(blocks, index, s) = Prepended(blocks, s)
          /\ InsertFilled(blocks, index, s) = Prepended(blocks, s)
        BY <1>1, <1>3 DEF Inserted, InsertFilled, Interior
    <2>2. IsList(Prepended(blocks, s)) /\ Contents(Prepended(blocks, s)) = s \o C
        BY <1>1, Prepends
    <2>3. Spliced(C, 0, 0, s) = s \o C
        BY <1>1, SpliceEnds
    <2> QED BY <1>3, <2>1, <2>2, <2>3
<1>4. CASE index < total /\ index # 0
    <2>1. Interior(index)
        BY <1>1, <1>4 DEF Interior
    <2>2. Overflow(blocks, index, s) = <<>>
        BY <2>1 DEF Spills
    <2>3. Same(0, Len(<<>>)) = <<>>
        BY DEF Same
    <2>4. /\ Inserted(blocks, index, s) = InsertedAt(blocks, index, s, <<>>)
          /\ InsertFilled(blocks, index, s) = InsertedAt(blocks, index, s, <<>>)
        BY <1>1, <1>4, <2>1, <2>2, <2>3 DEF Inserted, InsertFilled
    <2>5. /\ IsList(InsertedAt(blocks, index, s, <<>>))
          /\ Contents(InsertedAt(blocks, index, s, <<>>))
               = (Take(C, index) \o s) \o Drop(C, index)
        BY <1>1, <1>4, <2>2, InsertsWithin
    <2>6. index + 0 = index
        OBVIOUS
    <2>7. Spliced(C, index, 0, s) = (Take(C, index) \o s) \o Drop(C, index)
        BY <2>6 DEF Spliced
    <2> QED BY <2>4, <2>5, <2>7
<1> QED BY <1>1, <1>2, <1>3, <1>4

\* The length of a splice.
LEMMA SpliceLength ==
    ASSUME NEW t \in Seq(Byte), NEW s \in Seq(Byte), NEW index \in Nat
    PROVE  /\ Spliced(t, index, 0, s) \in Seq(Byte)
           /\ Len(Spliced(t, index, 0, s)) = Len(t) + Len(s)
<1>1. CASE index >= Len(t)
    <2>1. Spliced(t, index, 0, s) = t \o s
        <3>1. \A n \in Nat : Spliced(t, index, n, s) = t \o s
            BY <1>1, SpliceEnds
        <3> QED BY <3>1
    <2> QED BY <2>1, Joined
<1>2. CASE index < Len(t)
    <2> DEFINE z == Spliced(t, index, 0, s)
    <2>1. z \in Seq(Byte) /\ SplicedAt(z, t, index, 0, s)
        <3>1. index <= Len(t)
            BY <1>2
        <3>2. \A n \in Nat : /\ Spliced(t, index, n, s) \in Seq(Byte)
                             /\ SplicedAt(Spliced(t, index, n, s), t, index, n, s)
            BY <3>1, SpliceAt
        <3> QED BY <3>2
    <2> HIDE DEF z
    <2>2. Len(z) = index + Len(s) + (IF index + 0 < Len(t) THEN Len(t) - (index + 0) ELSE 0)
        BY <2>1 DEF SplicedAt
    <2>3. Len(t) \in Nat /\ Len(s) \in Nat
        OBVIOUS
    <2>4. Len(z) = Len(t) + Len(s)
        BY <1>2, <2>2, <2>3
    <2> QED BY <2>1, <2>4 DEF z
<1> QED BY <1>1, <1>2

\* A removal within a block.
LEMMA Removes ==
    ASSUME Sound(blocks, total), NEW index \in Nat, NEW n \in Nat, index < total,
           ~Across(blocks, index, n)
    PROVE  /\ Sound(Removed(blocks, index, n), TotalRemoved(blocks, index, n))
           /\ Contents(Removed(blocks, index, n)) = Spliced(Contents(blocks), index, n, <<>>)
           /\ index + n <= total
<1> DEFINE C == Contents(blocks)
           R == Removed(blocks, index, n)
<1>1. IsList(blocks) /\ total = Len(C) /\ C \in Seq(Byte) /\ total \in Nat
    <2>1. IsList(blocks) /\ C \in Seq(Byte) /\ total = Len(C)
        BY Lists DEF Sound, IsList
    <2> QED BY <2>1
<1>2. /\ IsList(R) /\ index + n <= total
      /\ Contents(R) = Take(C, index) \o Drop(C, index + n)
    BY <1>1, RemovesWithin
<1>3. Contents(R) = Spliced(C, index, n, <<>>)
    <2>1. Spliced(C, index, n, <<>>) = Take(C, index) \o Drop(C, index + n)
        BY <1>1, SpliceNone
    <2> QED BY <1>2, <2>1
<1>4. TotalRemoved(blocks, index, n) = total - n
    BY DEF TotalRemoved
<1>5. Len(Contents(R)) = total - n
    <2> DEFINE z == Contents(R)
               none == <<>>
    <2>1. none \in Seq(Byte) /\ Len(none) = 0 /\ index <= Len(C)
        BY <1>1
    <2> HIDE DEF R, none, z
    <2>2. SplicedAt(Spliced(C, index, n, none), C, index, n, none)
        BY <1>1, <2>1, SpliceAt
    <2>3. SplicedAt(z, C, index, n, none)
        BY <1>3, <2>2 DEF none, z
    <2>4. Len(z) = index + Len(none) + (IF index + n < Len(C) THEN Len(C) - (index + n) ELSE 0)
        BY <2>3 DEF SplicedAt
    <2>5. Len(z) = total - n
        BY <1>1, <1>2, <2>1, <2>4
    <2> QED BY <2>5 DEF z
<1> QED BY <1>2, <1>3, <1>4, <1>5 DEF Sound

\* The splice of the abstract sequence is that of the contents.
LEMMA SpliceOfContents ==
    ASSUME NEW index, NEW n, NEW s
    PROVE  Bytes!Splice(index, n, s) = Spliced(Contents(blocks), index, n, s)
BY DEF Bytes!Splice, Bytes!Take, Bytes!Drop, Spliced, Take, Drop

\* A call that is carried through keeps the promise when its blocks hold what it
\* says; one that is not is told.
LEMMA Keeps ==
    ASSUME torn = FALSE, NEW bs, NEW n, NEW tears \in BOOLEAN, Becomes(bs, n, tears),
           tears = FALSE => Sound(bs, n) /\ Contents(bs) = Bytes!Outcome(call')
    PROVE  Bytes!Next /\ BlocksIInv'
<1>1. blocks' = bs /\ total' = n /\ torn' = tears
    BY DEF Becomes
<1>2. CASE tears = TRUE
    BY <1>1, <1>2 DEF Bytes!Next, Bytes!Tears, BlocksIInv
<1>3. CASE tears = FALSE
    <2>1. Sound(blocks', total') /\ Contents(blocks') = Bytes!Outcome(call')
        BY <1>1, <1>3
    <2>2. BlocksIInv'
        BY <2>1 DEF BlocksIInv
    <2>3. total' = Len(Contents(blocks'))
        BY <2>1 DEF Sound
    <2>4. Bytes!Kept
        BY <1>1, <1>3, <2>1, <2>3 DEF Bytes!Kept
    <2> QED BY <2>2, <2>4 DEF Bytes!Next
<1> QED BY <1>2, <1>3

\* A buffer of one empty block.
LEMMA EmptyBuffer == Sound(<<<<>>>>, 0) /\ Contents(<<<<>>>>) = <<>>
<1> DEFINE x == <<>>
<1>1. x \in Held /\ Len(x) = 0
    BY BlockAssumption DEF Held
<1> HIDE DEF x
<1>2. <<x>> \in Seq(Held) /\ Contents(<<x>>) = x /\ <<x>> # <<>>
    BY <1>1, OneBlock
<1>3. Sound(<<x>>, 0)
    BY <1>1, <1>2 DEF Sound, IsList
<1> QED BY <1>2, <1>3 DEF x

\* AppendBytes.
LEMMA AppendStep ==
    ASSUME BlocksIInv, NEW s \in Seq(Byte), AppendBytes(s)
    PROVE  Bytes!Next /\ BlocksIInv'
<1> DEFINE C == Contents(blocks)
           bs == Appended(blocks, s)
<1>1. /\ torn = FALSE /\ call' = [op |-> "Append", at |-> total, data |-> s]
      /\ Becomes(bs, total + Len(s), FALSE)
    BY DEF AppendBytes, Asked
<1>2. IsList(blocks) /\ C \in Seq(Byte) /\ total = Len(C) /\ total \in Nat
    <2>1. IsList(blocks) /\ C \in Seq(Byte) /\ total = Len(C)
        BY <1>1, Lists DEF BlocksIInv, Sound, IsList
    <2> QED BY <2>1
<1>3. IsList(bs) /\ Contents(bs) = C \o s
    BY <1>2, Appends
<1>4. Bytes!Outcome(call') = C \o s
    <2>1. Bytes!Outcome(call') = Bytes!Splice(total, 0, s)
        BY <1>1 DEF Bytes!Outcome
    <2>2. Bytes!Splice(total, 0, s) = Spliced(C, total, 0, s)
        BY SpliceOfContents
    <2>3. \A n \in Nat : Spliced(C, total, n, s) = C \o s
        <3> DEFINE i == total
                   t == C
        <3>1. t \in Seq(Byte) /\ i \in Nat /\ i >= Len(t)
            BY <1>2
        <3> HIDE DEF i, t
        <3>2. \A n \in Nat : Spliced(t, i, n, s) = t \o s
            BY <3>1, SpliceEnds
        <3> QED BY <3>2 DEF i, t
    <2> QED BY <2>1, <2>2, <2>3
<1>5. Len(C \o s) = total + Len(s)
    BY <1>2, Joined
<1>6. Sound(bs, total + Len(s)) /\ Contents(bs) = Bytes!Outcome(call')
    BY <1>3, <1>4, <1>5 DEF Sound
<1> QED BY <1>1, <1>6, Keeps

\* Prepend.
LEMMA PrependStep ==
    ASSUME BlocksIInv, NEW s \in Seq(Byte), Prepend(s)
    PROVE  Bytes!Next /\ BlocksIInv'
<1> DEFINE C == Contents(blocks)
           bs == Prepended(blocks, s)
<1>1. /\ torn = FALSE /\ call' = [op |-> "Prepend", at |-> 0, data |-> s]
      /\ Becomes(bs, total + Len(s), FALSE)
    BY DEF Prepend, Asked
<1>2. IsList(blocks) /\ C \in Seq(Byte) /\ total = Len(C) /\ total \in Nat
    <2>1. IsList(blocks) /\ C \in Seq(Byte) /\ total = Len(C)
        BY <1>1, Lists DEF BlocksIInv, Sound, IsList
    <2> QED BY <2>1
<1>3. IsList(bs) /\ Contents(bs) = s \o C
    BY <1>2, Prepends
<1>4. Bytes!Outcome(call') = s \o C
    <2>1. Bytes!Outcome(call') = Bytes!Splice(0, 0, s)
        BY <1>1 DEF Bytes!Outcome
    <2>2. Bytes!Splice(0, 0, s) = Spliced(C, 0, 0, s)
        BY SpliceOfContents
    <2>3. Spliced(C, 0, 0, s) = s \o C
        BY <1>2, SpliceEnds
    <2> QED BY <2>1, <2>2, <2>3
<1>5. Len(s \o C) = total + Len(s)
    BY <1>2, Joined
<1>6. Sound(bs, total + Len(s)) /\ Contents(bs) = Bytes!Outcome(call')
    BY <1>3, <1>4, <1>5 DEF Sound
<1> QED BY <1>1, <1>6, Keeps

\* Insert and InsertFill, which differ only in what they spill.
LEMMA InsertStep ==
    ASSUME BlocksIInv, NEW index \in Nat, NEW s \in Seq(Byte),
           Insert(index, s) \/ InsertFill(index, s)
    PROVE  Bytes!Next /\ BlocksIInv'
<1> DEFINE C == Contents(blocks)
           tears == Spills(blocks, index, s)
<1>1. /\ torn = FALSE
      /\ call'.op \in {"Insert", "InsertFill"} /\ call'.at = index /\ call'.data = s
    BY DEF Insert, InsertFill, Asked
<1>2. PICK bs \in {Inserted(blocks, index, s), InsertFilled(blocks, index, s)} :
          Becomes(bs, total + Len(s), tears)
    BY DEF Insert, InsertFill
<1>3. tears \in BOOLEAN
    BY DEF Spills
<1>4. Sound(blocks, total) /\ C \in Seq(Byte)
    BY <1>1, Lists DEF BlocksIInv, Sound, IsList
<1>5. ASSUME ~tears
      PROVE  Sound(bs, total + Len(s)) /\ Contents(bs) = Bytes!Outcome(call')
    <2>1. IsList(bs) /\ Contents(bs) = Spliced(C, index, 0, s)
        BY <1>2, <1>4, <1>5, Inserts
    <2>2. Len(Spliced(C, index, 0, s)) = Len(C) + Len(s)
        BY <1>4, SpliceLength
    <2>3. Bytes!Outcome(call') = Bytes!Splice(index, 0, s)
        BY <1>1 DEF Bytes!Outcome
    <2>4. Bytes!Splice(index, 0, s) = Spliced(C, index, 0, s)
        BY SpliceOfContents
    <2> QED BY <1>4, <2>1, <2>2, <2>3, <2>4 DEF Sound
<1> HIDE DEF tears
<1> QED BY <1>1, <1>2, <1>3, <1>5, Keeps

\* What overwriting does to a buffer.
LEMMA Overwriting ==
    ASSUME NEW bs, NEW n, Sound(bs, n), NEW index \in Nat, NEW s \in Seq(Byte)
    PROVE  /\ Sound(Overwritten(bs, index, s), n)
           /\ Contents(bs) \in Seq(Byte) /\ Contents(Overwritten(bs, index, s)) \in Seq(Byte)
           /\ WrittenAt(Contents(Overwritten(bs, index, s)), Contents(bs), index, s)
<1> DEFINE ws == Overwritten(bs, index, s)
<1>1. IsList(bs) /\ n = Len(Contents(bs)) /\ Contents(bs) \in Seq(Byte)
    BY Lists DEF Sound, IsList
<1>2. /\ IsList(ws) /\ Contents(ws) \in Seq(Byte)
      /\ Len(Contents(ws)) = Len(Contents(bs))
      /\ \A k \in 1..Len(Contents(bs)) :
             Contents(ws)[k] = IF k - index \in 1..Len(s) THEN s[k - index] ELSE Contents(bs)[k]
    BY <1>1, Overwrites
<1> HIDE DEF ws
<1>3. WrittenAt(Contents(ws), Contents(bs), index, s)
    BY <1>2 DEF WrittenAt
<1>4. Sound(ws, n)
    BY <1>1, <1>2 DEF Sound
<1> QED BY <1>1, <1>2, <1>3, <1>4 DEF ws

\* Fill.
LEMMA FillStep ==
    ASSUME BlocksIInv, NEW index \in Nat, NEW s \in Seq(Byte), Fill(index, s)
    PROVE  Bytes!Next /\ BlocksIInv'
<1> DEFINE C == Contents(blocks)
           ws == Overwritten(blocks, index, s)
<1>1. /\ torn = FALSE /\ call' = [op |-> "Fill", at |-> index, data |-> s]
      /\ Becomes(ws, total, FALSE)
    BY DEF Fill, Asked
<1>2. Sound(blocks, total)
    BY <1>1 DEF BlocksIInv
<1>3. /\ Sound(ws, total) /\ C \in Seq(Byte) /\ Contents(ws) \in Seq(Byte)
      /\ WrittenAt(Contents(ws), C, index, s)
    BY <1>2, Overwriting
<1> HIDE DEF ws
<1>4. Contents(ws) = Bytes!Outcome(call')
    <2>1. Bytes!Within(index) <=> index < Len(C)
        BY DEF Bytes!Within
    <2>2. Len(C) \in Nat
        BY <1>3
    <2>3. CASE index < Len(C)
        <3>1. Contents(ws) = Spliced(C, index, Len(s), Take(s, Len(C) - index))
            BY <1>3, <2>3, WrittenSpliced
        <3>2. Bytes!Outcome(call')
                = Bytes!Splice(index, Len(s), Bytes!Take(s, Len(C) - index))
            BY <1>1, <2>1, <2>3 DEF Bytes!Outcome
        <3>3. Bytes!Take(s, Len(C) - index) = Take(s, Len(C) - index)
            BY DEF Bytes!Take, Take
        <3> QED BY <3>1, <3>2, <3>3, SpliceOfContents
    <2>4. CASE ~(index < Len(C))
        <3>1. Contents(ws) = C
            BY <1>3, <2>2, <2>4, WrittenPast
        <3>2. Bytes!Outcome(call') = C
            BY <1>1, <2>1, <2>4 DEF Bytes!Outcome
        <3> QED BY <3>1, <3>2
    <2> QED BY <2>3, <2>4
<1> QED BY <1>1, <1>3, <1>4, Keeps

\* Remove.
LEMMA RemoveStep ==
    ASSUME BlocksIInv, NEW index \in Nat, NEW n \in Nat, RemoveBytes(index, n)
    PROVE  Bytes!Next /\ BlocksIInv'
<1> DEFINE C == Contents(blocks)
<1>1. torn = FALSE /\ call' = [op |-> "Remove", at |-> index, size |-> n]
    BY DEF RemoveBytes, Asked
<1>2. Sound(blocks, total) /\ C \in Seq(Byte) /\ total = Len(C) /\ total \in Nat
    <2>1. Sound(blocks, total) /\ C \in Seq(Byte) /\ total = Len(C)
        BY <1>1, Lists DEF BlocksIInv, Sound, IsList
    <2> QED BY <2>1
<1>3. Bytes!Outcome(call') = Spliced(C, index, n, <<>>)
    <2>1. Bytes!Outcome(call') = Bytes!Splice(index, n, <<>>)
        BY <1>1 DEF Bytes!Outcome
    <2> QED BY <2>1, SpliceOfContents
<1>4. CASE index < total
    <2> DEFINE bs     == Removed(blocks, index, n)
               left   == TotalRemoved(blocks, index, n)
               tears == Across(blocks, index, n)
    <2>1. Becomes(bs, left, tears)
        BY <1>4 DEF RemoveBytes
    <2>2. tears \in BOOLEAN
        BY DEF Across
    <2>3. ASSUME ~tears PROVE Sound(bs, left) /\ Contents(bs) = Bytes!Outcome(call')
        BY <1>2, <1>3, <1>4, <2>3, Removes
    <2> HIDE DEF bs, left, tears
    <2> QED BY <1>1, <2>1, <2>2, <2>3, Keeps
<1>5. CASE ~(index < total)
    <2>1. Becomes(blocks, total, FALSE)
        BY <1>5 DEF RemoveBytes
    <2>2. Spliced(C, index, n, <<>>) = C
        <3>1. <<>> \in Seq(Byte) /\ index >= Len(C)
            BY <1>2, <1>5
        <3>2. Spliced(C, index, n, <<>>) = C \o <<>>
            BY <1>2, <3>1, SpliceEnds
        <3> QED BY <1>2, <3>2, ConcatEmptySeq
    <2> QED BY <1>1, <1>2, <1>3, <2>1, <2>2, Keeps
<1> QED BY <1>4, <1>5

\* Clear.
LEMMA ClearStep ==
    ASSUME Clear
    PROVE  Bytes!Next /\ BlocksIInv'
<1> DEFINE bs == <<<<>>>>
<1>1. torn = FALSE /\ call' = [op |-> "Clear"] /\ Becomes(bs, 0, FALSE)
    BY DEF Clear, Asked
<1>2. Sound(bs, 0) /\ Contents(bs) = <<>>
    BY EmptyBuffer
<1>3. Bytes!Outcome(call') = <<>>
    BY <1>1 DEF Bytes!Outcome
<1> HIDE DEF bs
<1> QED BY <1>1, <1>2, <1>3, Keeps

\* Compress.
LEMMA CompressStep ==
    ASSUME BlocksIInv, Compress
    PROVE  Bytes!Next /\ BlocksIInv'
<1> DEFINE C == Contents(blocks)
           bs == IF total = 0 THEN <<<<>>>> ELSE Pieces(C)
<1>1. torn = FALSE /\ call' = [op |-> "Compress"] /\ Becomes(bs, total, FALSE)
    BY DEF Compress, Asked
<1>2. C \in Seq(Byte) /\ total = Len(C)
    BY <1>1, Lists DEF BlocksIInv, Sound, IsList
<1>3. Bytes!Outcome(call') = C
    BY <1>1 DEF Bytes!Outcome
<1>4. Sound(bs, total) /\ Contents(bs) = C
    <2>1. CASE total = 0
        <3>1. C = <<>>
            BY <1>2, <2>1, EmptySeq
        <3> QED BY <2>1, <3>1, EmptyBuffer
    <2>2. CASE total # 0
        <3>1. Pieces(C) \in Seq(Held) /\ Contents(Pieces(C)) = C
              /\ (C = <<>> <=> Pieces(C) = <<>>)
            BY <1>2, PiecesHold
        <3>2. C # <<>>
            BY <1>2, <2>2
        <3> QED BY <1>2, <2>2, <3>1, <3>2 DEF Sound, IsList
    <2> QED BY <2>1, <2>2
<1> HIDE DEF bs
<1> QED BY <1>1, <1>3, <1>4, Keeps

\* Zeros to fill up with.
LEMMA Zeros ==
    ASSUME NEW n \in Nat
    PROVE  Same(0, n) \in Seq(Byte) /\ Len(Same(0, n)) = n
BY BlockAssumption DEF Same

\* Resize.
LEMMA ResizeStep ==
    ASSUME BlocksIInv, NEW n \in Nat, Resize(n)
    PROVE  Bytes!Next /\ BlocksIInv'
<1> DEFINE C == Contents(blocks)
           more == [i \in 1..n - Len(C) |-> 0]
<1>1. torn = FALSE /\ call' = [op |-> "Resize", size |-> n]
    BY DEF Resize, Asked
<1>2. Sound(blocks, total) /\ IsList(blocks) /\ C \in Seq(Byte) /\ total = Len(C) /\ total \in Nat
    <2>1. Sound(blocks, total) /\ IsList(blocks) /\ C \in Seq(Byte) /\ total = Len(C)
        BY <1>1, Lists DEF BlocksIInv, Sound, IsList
    <2> QED BY <2>1
<1>11. total \in Nat
    BY <1>2
<1>12. /\ n > total => Becomes(Appended(blocks, Same(0, n - total)), n, FALSE)
       /\ n < total => Becomes(Removed(blocks, n, total - n), TotalRemoved(blocks, n, total - n),
                               Across(blocks, n, total - n))
       /\ n = total => Becomes(blocks, total, FALSE)
    <2> DEFINE a == Becomes(Appended(blocks, Same(0, n - total)), n, FALSE)
               b == Becomes(Removed(blocks, n, total - n), TotalRemoved(blocks, n, total - n),
                            Across(blocks, n, total - n))
               c == Becomes(blocks, total, FALSE)
    <2>1. (n > total /\ a) \/ (n < total /\ b) \/ (n = total /\ c)
        BY Zenon DEF Resize
    <2> HIDE DEF a, b, c
    <2>2. (n > total => a) /\ (n < total => b) /\ (n = total => c)
        BY <1>11, <2>1
    <2> QED BY <2>2 DEF a, b, c
<1>3. Bytes!Outcome(call') = Take(C, n) \o more
    <2>1. Bytes!Outcome(call') = Bytes!Take(C, n) \o more
        BY <1>1 DEF Bytes!Outcome
    <2>2. Bytes!Take(C, n) = Take(C, n)
        BY DEF Bytes!Take, Take
    <2> QED BY <2>1, <2>2
<1>4. more = Same(0, n - total)
    BY <1>2 DEF Same
<1> HIDE DEF more
<1>5. n <= total => more = <<>>
    BY <1>2, <1>4 DEF Same
<1>6. Take(C, n) \in Seq(Byte) /\ Take(C, n) \o <<>> = Take(C, n)
    <2>1. Take(C, n) \in Seq(Byte)
        BY <1>2, TakeDrop
    <2> QED BY <2>1, ConcatEmptySeq
<1>7. n >= total => Take(C, n) = C
    BY <1>2, CutAtEnds
<1>8. CASE n > total
    <2> DEFINE bs == Appended(blocks, more)
    <2>1. Becomes(bs, n, FALSE)
        BY <1>4, <1>8, <1>12
    <2>2. more \in Seq(Byte) /\ Len(more) = n - total
        BY <1>2, <1>4, <1>8, Zeros
    <2>3. IsList(bs) /\ Contents(bs) = C \o more
        BY <1>2, <2>2, Appends
    <2>4. Len(C \o more) = n
        <3>1. Len(C \o more) = Len(C) + Len(more)
            BY <1>2, <2>2, Joined
        <3> QED BY <1>2, <2>2, <3>1
    <2>5. Sound(bs, n) /\ Contents(bs) = Bytes!Outcome(call')
        <3>1. Take(C, n) = C
            BY <1>2, <1>7, <1>8
        <3>2. Sound(bs, n)
            BY <2>3, <2>4 DEF Sound
        <3> HIDE DEF bs
        <3> QED BY <1>3, <2>3, <3>1, <3>2
    <2> HIDE DEF bs
    <2> QED BY <1>1, <2>1, <2>5, Keeps
<1>9. CASE n < total
    <2> DEFINE m      == total - n
               bs     == Removed(blocks, n, m)
               left   == TotalRemoved(blocks, n, m)
               tears == Across(blocks, n, m)
    <2>1. Becomes(bs, left, tears)
        BY <1>9, <1>12
    <2>2. tears \in BOOLEAN
        BY DEF Across
    <2>3. m \in Nat /\ n + m = Len(C)
        BY <1>2, <1>9
    <2> HIDE DEF m
    <2>4. ASSUME ~tears PROVE Sound(bs, left) /\ Contents(bs) = Bytes!Outcome(call')
        <3>1. Sound(bs, left) /\ Contents(bs) = Spliced(C, n, m, <<>>)
            BY <1>2, <1>9, <2>3, <2>4, Removes
        <3>2. Spliced(C, n, m, <<>>) = Take(C, n) \o Drop(C, n + m)
            BY <1>2, <2>3, SpliceNone
        <3>3. Drop(C, n + m) = <<>>
            <4>1. n + m \in Nat /\ n + m >= Len(C)
                BY <1>2, <2>3
            <4> QED BY <1>2, <4>1, CutAtEnds
        <3>4. more = <<>>
            BY <1>2, <1>5, <1>9
        <3> QED BY <1>3, <3>1, <3>2, <3>3, <3>4
    <2> HIDE DEF bs, left, tears
    <2> QED BY <1>1, <2>1, <2>2, <2>4, Keeps
<1>10. CASE n = total
    <2>1. Becomes(blocks, total, FALSE)
        BY <1>10, <1>12
    <2>2. C = Bytes!Outcome(call')
        <3>1. more = <<>> /\ Take(C, n) = C
            BY <1>2, <1>5, <1>7, <1>10
        <3> QED BY <1>3, <1>6, <3>1
    <2> QED BY <1>1, <1>2, <2>1, <2>2, Keeps
<1> QED BY <1>2, <1>8, <1>9, <1>10

\* A Replace that makes room behind the old text first.
LEMMA Growing ==
    ASSUME Sound(blocks, total), NEW index \in Nat, NEW old \in Nat, index + old <= total,
           NEW s \in Seq(Byte), Len(s) > old,
           LET pad == Same(0, Len(s) - old)
           IN ~Spills(blocks, index + old, pad)
    PROVE  LET pad == Same(0, Len(s) - old)
               bs  == Overwritten(InsertFilled(blocks, index + old, pad), index, s)
           IN /\ Sound(bs, total + Len(pad))
              /\ Contents(bs) = Spliced(Contents(blocks), index, old, s)
<1> DEFINE C   == Contents(blocks)
           pad == Same(0, Len(s) - old)
           at  == index + old
           new == InsertFilled(blocks, at, pad)
           e   == Contents(new)
           bs  == Overwritten(new, index, s)
<1>1. C \in Seq(Byte) /\ total = Len(C)
    BY Lists DEF Sound, IsList
<1>2. pad \in Seq(Byte) /\ Len(pad) = Len(s) - old
    <2>1. Len(s) - old \in Nat
        OBVIOUS
    <2> QED BY <2>1, Zeros
<1>3. ~Spills(blocks, at, pad)
    OBVIOUS
<1> HIDE DEF pad
<1>4. at \in Nat /\ at <= Len(C) /\ index + old <= Len(C)
    BY <1>1
<1> HIDE DEF at
<1>5. IsList(new) /\ e = Spliced(C, at, 0, pad)
    BY <1>2, <1>3, <1>4, Inserts
<1>6. e \in Seq(Byte) /\ Len(e) = Len(C) + Len(pad)
    <2>1. /\ Spliced(C, at, 0, pad) \in Seq(Byte)
          /\ Len(Spliced(C, at, 0, pad)) = Len(C) + Len(pad)
        <3> HIDE DEF C
        <3> QED BY <1>1, <1>2, <1>4, SpliceLength
    <2> HIDE DEF e
    <2> QED BY <1>5, <2>1
<1>7. SplicedAt(e, C, at, 0, pad)
    <2>1. \A n \in Nat : SplicedAt(Spliced(C, at, n, pad), C, at, n, pad)
        BY <1>1, <1>2, <1>4, SpliceAt
    <2> QED BY <1>5, <2>1
<1>8. Sound(new, total + Len(pad))
    BY <1>1, <1>5, <1>6 DEF Sound
<1> HIDE DEF new
<1>9. /\ Sound(bs, total + Len(pad)) /\ Contents(bs) \in Seq(Byte)
      /\ WrittenAt(Contents(bs), e, index, s)
    BY <1>8, Overwriting
<1> HIDE DEF bs, e
<1>10. Contents(bs) = Spliced(C, index, old, s)
    <2>1. SplicedAt(e, C, index + old, 0, pad)
        BY <1>7 DEF at
    <2> HIDE DEF C
    <2> QED BY <1>1, <1>2, <1>4, <1>6, <1>9, <2>1, Grown, SMTT(60)
<1> QED BY <1>9, <1>10 DEF bs, new, at, pad

\* A Replace that removes the rest of the old text first.
LEMMA Shrinking ==
    ASSUME Sound(blocks, total), NEW index \in Nat, NEW old \in Nat, index + old <= total,
           NEW s \in Seq(Byte), Len(s) < old,
           ~Across(blocks, index + Len(s), old - Len(s))
    PROVE  LET at == index + Len(s)
               n  == old - Len(s)
               bs == Overwritten(Removed(blocks, at, n), index, s)
           IN /\ Sound(bs, TotalRemoved(blocks, at, n))
              /\ Contents(bs) = Spliced(Contents(blocks), index, old, s)
<1> DEFINE C    == Contents(blocks)
           at   == index + Len(s)
           n    == old - Len(s)
           left == TotalRemoved(blocks, at, n)
           cut  == Removed(blocks, at, n)
           e    == Contents(cut)
           bs   == Overwritten(cut, index, s)
           none == <<>>
<1>1. C \in Seq(Byte) /\ total = Len(C)
    BY Lists DEF Sound, IsList
<1>2. at \in Nat /\ n \in Nat /\ at < total /\ at <= Len(C) /\ index + old <= Len(C)
    <2>1. total \in Nat /\ Len(s) \in Nat
        BY <1>1
    <2> QED BY <1>1, <2>1
<1>3. ~Across(blocks, at, n) /\ n = old - Len(s) /\ at = index + Len(s)
    OBVIOUS
<1>4. none \in Seq(Byte) /\ Len(none) = 0
    OBVIOUS
<1> HIDE DEF at, n, none
<1>5. Sound(cut, left) /\ e = Spliced(C, at, n, none)
    BY <1>2, <1>3, Removes DEF none
<1>6. SplicedAt(e, C, at, n, none) /\ e \in Seq(Byte)
    BY <1>1, <1>2, <1>4, <1>5, SpliceAt
<1> HIDE DEF cut, left
<1>7. Sound(bs, left) /\ Contents(bs) \in Seq(Byte) /\ WrittenAt(Contents(bs), e, index, s)
    BY <1>5, Overwriting
<1> HIDE DEF bs, e
<1>8. Contents(bs) = Spliced(C, index, old, s)
    <2>1. SplicedAt(e, C, index + Len(s), n, none)
        BY <1>3, <1>6
    <2> HIDE DEF C
    <2> QED BY <1>1, <1>2, <1>3, <1>4, <1>6, <1>7, <2>1, Shrunk
<1> QED BY <1>7, <1>8 DEF bs, cut, left, at, n

\* Replace.
LEMMA ReplaceStep ==
    ASSUME BlocksIInv, NEW index \in Nat, NEW size \in Nat, NEW s \in Seq(Byte),
           Replace(index, size, s)
    PROVE  Bytes!Next /\ BlocksIInv'
<1> DEFINE C   == Contents(blocks)
           old == IF index + size > total THEN total - index ELSE size
           one == Len(s) = 1 /\ size = 1
<1>1. /\ torn = FALSE
      /\ call' = [op |-> "Replace", at |-> index, size |-> size, data |-> s]
    BY DEF Replace, Asked
<1>2. Sound(blocks, total) /\ IsList(blocks) /\ C \in Seq(Byte) /\ total = Len(C)
    BY <1>1, Lists DEF BlocksIInv, Sound, IsList
<1>3. total \in Nat /\ Len(s) \in Nat
    BY <1>2
<1>4. \/ (one \/ (index < total /\ Len(s) = old)) /\ ReplaceInPlace(index, s)
      \/ /\ ~(one \/ (index < total /\ Len(s) = old)) /\ index >= total
         /\ Becomes(Appended(blocks, s), total + Len(s), FALSE)
      \/ index < total /\ Len(s) > old /\ ReplaceGrows(index, old, s)
      \/ index < total /\ Len(s) < old /\ ReplaceShrinks(index, old, s)
    BY Zenon DEF Replace
<1>5. ASSUME index < total \/ ~one
      PROVE  Bytes!Outcome(call') = Spliced(C, index, size, s)
    <2>1. Bytes!Within(index) <=> index < total
        BY <1>2 DEF Bytes!Within
    <2>2. Bytes!Outcome(call') = Bytes!Splice(index, size, s)
        BY <1>1, <1>5, <2>1 DEF Bytes!Outcome
    <2> QED BY <2>2, SpliceOfContents
<1>6. ASSUME index >= total, one
      PROVE  Bytes!Outcome(call') = C
    <2>1. Bytes!Within(index) <=> index < total
        BY <1>2 DEF Bytes!Within
    <2>2. ~(index < total)
        BY <1>3, <1>6
    <2> QED BY <1>1, <1>6, <2>1, <2>2 DEF Bytes!Outcome
<1>7. ASSUME index < total
      PROVE  old \in Nat /\ index + old <= total /\ (one => Len(s) = old)
    <2>1. old \in Nat /\ index + old <= total
        BY <1>3, <1>7
    <2>2. size = 1 => old = 1
        BY <1>3, <1>7
    <2> QED BY <2>1, <2>2
<1>8. ASSUME index < total
      PROVE  Bytes!Outcome(call') = Spliced(C, index, old, s)
    <2>1. Bytes!Outcome(call') = Spliced(C, index, size, s)
        BY <1>5, <1>8
    <2>2. CASE index + size > total
        <3>1. old \in Nat /\ index + size >= total /\ index + old >= total
            BY <1>3, <1>8, <2>2
        <3> HIDE DEF old
        <3>2. Spliced(C, index, size, s) = Spliced(C, index, old, s)
            BY <1>2, <3>1, SplicePast
        <3> QED BY <2>1, <3>2
    <2>3. CASE ~(index + size > total)
        BY <2>1, <2>3
    <2> QED BY <2>2, <2>3
<1>9. CASE (one \/ (index < total /\ Len(s) = old)) /\ ReplaceInPlace(index, s)
    <2> DEFINE ws == Overwritten(blocks, index, s)
    <2>1. Becomes(ws, total, FALSE)
        BY <1>9 DEF ReplaceInPlace
    <2>2. Sound(ws, total) /\ Contents(ws) \in Seq(Byte) /\ WrittenAt(Contents(ws), C, index, s)
        BY <1>2, Overwriting
    <2> HIDE DEF ws
    <2>3. Contents(ws) = Bytes!Outcome(call')
        <3>1. CASE index < total
            <4>1. Len(s) = old /\ index + Len(s) <= Len(C) /\ index < Len(C)
                BY <1>2, <1>7, <1>9, <3>1
            <4>2. Contents(ws) = Spliced(C, index, Len(s), s)
                BY <1>2, <2>2, <4>1, WrittenSame
            <4> QED BY <1>8, <3>1, <4>1, <4>2
        <3>2. CASE ~(index < total)
            <4>1. index >= total /\ index >= Len(C) /\ one
                BY <1>2, <1>3, <1>9, <3>2
            <4>2. Contents(ws) = C
                BY <1>2, <2>2, <4>1, WrittenPast
            <4> QED BY <1>6, <4>1, <4>2
        <3> QED BY <3>1, <3>2
    <2> QED BY <1>1, <2>1, <2>2, <2>3, Keeps
<1>10. CASE /\ ~(one \/ (index < total /\ Len(s) = old)) /\ index >= total
            /\ Becomes(Appended(blocks, s), total + Len(s), FALSE)
    <2> DEFINE bs == Appended(blocks, s)
    <2>1. IsList(bs) /\ Contents(bs) = C \o s
        BY <1>2, Appends
    <2>2. Len(C \o s) = total + Len(s)
        BY <1>2, Joined
    <2>3. Spliced(C, index, size, s) = C \o s
        BY <1>2, <1>10, SpliceEnds
    <2>4. Sound(bs, total + Len(s))
        BY <2>1, <2>2 DEF Sound
    <2>5. Contents(bs) = Bytes!Outcome(call')
        BY <1>5, <1>10, <2>1, <2>3
    <2>6. Becomes(bs, total + Len(s), FALSE)
        BY <1>10
    <2> HIDE DEF bs
    <2> QED BY <1>1, <2>4, <2>5, <2>6, Keeps
<1>11. CASE index < total /\ Len(s) > old /\ ReplaceGrows(index, old, s)
    <2>1. old \in Nat /\ index + old <= total /\ Bytes!Outcome(call') = Spliced(C, index, old, s)
        BY <1>7, <1>8, <1>11
    <2> HIDE DEF old
    <2> DEFINE pad    == Same(0, Len(s) - old)
               at     == index + old
               new    == InsertFilled(blocks, at, pad)
               to     == IF at = 0 /\ Len(pad) > Free(Head(blocks))
                         THEN Len(Contents(Fronted(blocks, pad))) ELSE index
               tears == Spills(blocks, at, pad) \/ to # index
               bs     == Overwritten(new, to, s)
    <2>2. Becomes(bs, total + Len(pad), tears)
        BY <1>11 DEF ReplaceGrows
    <2>3. tears \in BOOLEAN
        BY DEF Spills
    <2>4. ASSUME ~tears
          PROVE  Sound(bs, total + Len(pad)) /\ Contents(bs) = Bytes!Outcome(call')
        <3>1. to = index /\ ~Spills(blocks, at, pad)
            BY <2>4
        <3> HIDE DEF to
        <3>2. /\ Sound(Overwritten(new, index, s), total + Len(pad))
              /\ Contents(Overwritten(new, index, s)) = Spliced(C, index, old, s)
            BY <1>2, <1>11, <2>1, <3>1, Growing
        <3> QED BY <2>1, <3>1, <3>2
    <2> HIDE DEF bs, tears, pad
    <2> QED BY <1>1, <2>2, <2>3, <2>4, Keeps
<1>12. CASE index < total /\ Len(s) < old /\ ReplaceShrinks(index, old, s)
    <2>1. old \in Nat /\ index + old <= total /\ Bytes!Outcome(call') = Spliced(C, index, old, s)
        BY <1>7, <1>8, <1>12
    <2> HIDE DEF old
    <2> DEFINE at     == index + Len(s)
               n      == old - Len(s)
               bs     == Overwritten(Removed(blocks, at, n), index, s)
               left   == TotalRemoved(blocks, at, n)
               tears == Across(blocks, at, n)
    <2>2. Becomes(bs, left, tears)
        BY <1>12 DEF ReplaceShrinks
    <2>3. tears \in BOOLEAN
        BY DEF Across
    <2>4. ASSUME ~tears PROVE Sound(bs, left) /\ Contents(bs) = Bytes!Outcome(call')
        BY <1>2, <1>12, <2>1, <2>4, Shrinking
    <2> HIDE DEF bs, left, tears
    <2> QED BY <1>1, <2>2, <2>3, <2>4, Keeps
<1> QED BY <1>4, <1>9, <1>10, <1>11, <1>12

\* What is handed to a call is a sequence of bytes.
LEMMA DataAreBytes ==
    /\ \A s \in Data : s \in Seq(Byte)
    /\ \A s \in Runs : s \in Seq(Byte)
    /\ Sizes \subseteq Nat
<1>1. \A n \in 0..MaxCall : n \in Nat
    BY BlockAssumption
<1>2. ASSUME NEW s \in Data PROVE s \in Seq(Byte)
    <2>1. PICK n \in 0..MaxCall : s \in [1..n -> Byte]
        BY DEF Data
    <2> QED BY <1>1, <2>1
<1>3. ASSUME NEW s \in Runs PROVE s \in Seq(Byte)
    <2>1. PICK v \in Byte, n \in 0..MaxCall : s = Same(v, n)
        BY DEF Runs
    <2>2. s \in [1..n -> Byte]
        BY <2>1 DEF Same
    <2> QED BY <1>1, <2>2
<1>4. Sizes \subseteq Nat
    BY BlockAssumption DEF Sizes
<1> QED BY <1>2, <1>3, <1>4

\* Every step of the buffer, from blocks that are sound.
LEMMA BlocksStep ==
    ASSUME BlocksIInv, BufferNext
    PROVE  Bytes!Next /\ BlocksIInv'
<1> USE DataAreBytes
<1>1. ASSUME NEW s \in Data, AppendBytes(s) PROVE Bytes!Next /\ BlocksIInv'
    BY <1>1, AppendStep
<1>2. ASSUME NEW s \in Data, Prepend(s) PROVE Bytes!Next /\ BlocksIInv'
    BY <1>2, PrependStep
<1>3. ASSUME NEW s \in Data, NEW i \in Sizes, Insert(i, s) PROVE Bytes!Next /\ BlocksIInv'
    BY <1>3, InsertStep
<1>4. ASSUME NEW s \in Runs, NEW i \in Sizes, InsertFill(i, s) PROVE Bytes!Next /\ BlocksIInv'
    BY <1>4, InsertStep
<1>5. ASSUME NEW s \in Runs, NEW i \in Sizes, Fill(i, s) PROVE Bytes!Next /\ BlocksIInv'
    BY <1>5, FillStep
<1>6. ASSUME NEW i \in Sizes, NEW n \in Sizes, RemoveBytes(i, n) PROVE Bytes!Next /\ BlocksIInv'
    BY <1>6, RemoveStep
<1>7. ASSUME NEW s \in Data, NEW i \in Sizes, NEW n \in Sizes, Replace(i, n, s)
      PROVE  Bytes!Next /\ BlocksIInv'
    BY <1>7, ReplaceStep
<1>8. ASSUME NEW n \in Sizes, Resize(n) PROVE Bytes!Next /\ BlocksIInv'
    BY <1>8, ResizeStep
<1> QED BY <1>1, <1>2, <1>3, <1>4, <1>5, <1>6, <1>7, <1>8, CompressStep, ClearStep DEF BufferNext

\* What the refinement of the byte sequence rests on.
THEOREM BlocksInvariant == BufferSpec => []BlocksIInv
<1>1. BufferInit => BlocksIInv
    BY EmptyBuffer DEF BufferInit, BlocksIInv
<1>2. BlocksIInv /\ [BufferNext]_bufferVars => BlocksIInv'
    <2>1. CASE BufferNext
        BY <2>1, BlocksStep
    <2>2. CASE UNCHANGED bufferVars
        BY <2>2 DEF bufferVars, BlocksIInv
    <2> QED BY <2>1, <2>2
<1> QED BY <1>1, <1>2, PTL DEF BufferSpec

\* The blocks implement the byte sequence: through any calls, of any length and
\* with blocks of any size, what DataBuffer.cpp carries through leaves the bytes
\* and the size that the calls ask for.
THEOREM BufferRefines == BufferSpec => BufferIsBytes
<1>1. BufferInit => Bytes!Init
    BY EmptyBuffer DEF BufferInit, Bytes!Init
<1>2. BlocksIInv /\ [BufferNext]_bufferVars => [Bytes!Next]_(Bytes!vars)
    <2>1. ASSUME BlocksIInv, BufferNext PROVE Bytes!Next
        BY <2>1, BlocksStep
    <2>2. ASSUME UNCHANGED bufferVars PROVE UNCHANGED Bytes!vars
        BY <2>2 DEF bufferVars, Bytes!vars
    <2> QED BY <2>1, <2>2
<1> QED BY <1>1, <1>2, BlocksInvariant, PTL DEF BufferSpec, BufferIsBytes, Bytes!Spec
===============================================================================
