---------------------------- MODULE FileSendProofs ----------------------------
(***************************************************************************)
(* Proofs about FileSend and the SerialPort it writes to, for every number  *)
(* of Starts, every set of writes and every file.                           *)
(***************************************************************************)
EXTENDS FileSend, SequenceTheorems, TLAPS

-----------------------------------------------------------------------------
(* The invariant.                                                           *)

\* The operations that are inside CloseSerialPort, past its test of the port,
\* and those of them that an earlier Start left behind.
Closers == {o \in Ops : io[o] \in {"close", "remove", "set", "tell"}}
Stale   == \E o \in Closers : on[o] # cur
At(p)   == \E o \in Ops : io[o] = p

\* No operation is of a Start to come, and no loop reads before ListChannel.
InStart == ui \in {"open", "set", "list"}

OnlyStarted ==
  /\ port <= cur /\ \A o \in Ops : on[o] <= cur
  /\ InStart => cur # Closed
  /\ \A g \in Opens : g > cur \/ (g = cur /\ InStart) => io[g] = "idle"

\* How far the closing of this Start's port has come.
ClosedInOrder ==
  /\ At("remove") \/ At("set") \/ At("tell") => port = Closed
  /\ At("set") \/ At("tell") => ~listed
  /\ At("tell") => status = "Disconnected"

\* What is so at each place of the UI thread: the port, the list, the status and
\* the window are one, but for the step that a closing thread comes to next.
StartAgrees ==
  InStart =>
    /\ ~listed
    /\ ui = "open" => status = "Connecting" /\ port = Closed /\ Closers = {}
    /\ ui = "set" => status = "Connecting"
    /\ ui = "list" => status = "Connected"
    /\ shown = status /\ ~At("set") /\ ~At("tell")
    /\ button = (ui = "list")
    /\ ui # "open" => port # Closed \/ At("remove")

StopAgrees ==
  ui = "stopped" =>
    /\ port = Closed /\ status # "Connecting"
    /\ status = "Disconnected" => At("tell")

IdleAgrees ==
  ui = "idle" =>
    /\ status # "Connecting"
    /\ status = "Connected" =>
         /\ shown = "Connected" /\ button
         /\ port = Closed => At("remove") \/ At("set")
         /\ listed \/ At("set")
    /\ status = "Disconnected" =>
         /\ port = Closed /\ ~listed
         /\ (shown = "Disconnected" /\ button) \/ At("tell")

PortInv ==
  ~crossed /\ ~Stale => ClosedInOrder /\ StartAgrees /\ StopAgrees /\ IdleAgrees

\* Which blocks are on the wire, by where the write of the file is.
Accounted(n) == 1..n \subseteq ToSet(wire) \cup skipped

FileInv ==
  /\ result = "none" <=> io[File] = "idle"
  /\ io[File] = "idle" => wire = <<>> /\ block = 0
  /\ ToSet(wire) \subseteq 1..(IF io[File] = "pending" THEN block - 1 ELSE block)
  /\ io[File] = "pending" => block > 0 /\ Accounted(block - 1)
  /\ io[File] = "written" => Accounted(block)
  /\ BlocksInOrder /\ SentIsAccounted

FileIInv == TypeOK /\ WritingFlag /\ OnlyStarted /\ PortInv /\ FileInv

-----------------------------------------------------------------------------
(* Types.                                                                   *)

\* Writers and openings are operations of different names.
LEMMA Operations ==
  /\ Writers \subseteq Ops /\ Opens \subseteq Ops
  /\ Opens \subseteq Handles /\ Handles \subseteq Nat
  /\ Writers \cap Opens = {}
  /\ Users \subseteq Writers /\ File \in Writers /\ File \notin Users
BY SerialAssumption, FileAssumption DEF Ops, Opens, Handles, Users, Closed

\* Moving an operation on keeps the types of the port.
LEMMA GotoTypes ==
  ASSUME SerialTypeOK, NEW o \in Ops, NEW p \in Phases, Goto(o, p)
  PROVE  io' \in [Ops -> Phases] /\ on' \in [Ops -> Handles]
BY DEF SerialTypeOK, Goto, Handles

\* Beginning a write keeps the types of the port, and sets the flag.
LEMMA BeginTypes ==
  ASSUME SerialTypeOK, NEW w \in Writers, BeginWrite(w)
  PROVE  io' \in [Ops -> Phases] /\ on' \in [Ops -> Handles] /\ writing' = TRUE
BY Operations DEF SerialTypeOK, BeginWrite, Phases

\* Sending a block keeps the types of the port and of the window.
LEMMA SendBlockTypes ==
  ASSUME TypeOK, SendBlock
  PROVE  /\ io' \in [Ops -> Phases] /\ on' \in [Ops -> Handles] /\ writing' \in BOOLEAN
         /\ result' \in {"sending", "sent", "cancelled"} /\ block' \in 0..Blocks
         /\ skipped' \in SUBSET (1..Blocks)
<1> USE Operations, FileAssumption DEF TypeOK
<1>1. CASE Goto(File, "done") /\ UNCHANGED <<writing, block, skipped>>
  BY <1>1, GotoTypes DEF SendBlock, Phases, SerialTypeOK
<1>2. CASE BeginWrite(File) /\ UNCHANGED skipped /\ block # Blocks /\ block' = block + 1
  <2>1. block' \in 0..Blocks
    BY <1>2
  <2> QED
    BY <1>2, <2>1, BeginTypes DEF SendBlock
<1>3. CASE /\ GiveUpWrite(File, "written") /\ block # Blocks /\ block' = block + 1
           /\ skipped' = skipped \cup {block'}
  <2>1. block' \in 1..Blocks
    BY <1>3
  <2>2. io' \in [Ops -> Phases] /\ on' \in [Ops -> Handles]
    BY <1>3, GotoTypes DEF GiveUpWrite, Phases
  <2> QED
    BY <1>3, <2>1, <2>2 DEF SendBlock, GiveUpWrite, SerialTypeOK
<1> QED
  BY <1>1, <1>2, <1>3 DEF SendBlock

\* Every step keeps the types.
LEMMA FileTypes == FileIInv /\ [Next]_vars => TypeOK'
<1> SUFFICES ASSUME FileIInv, [Next]_vars PROVE TypeOK'
  OBVIOUS
<1> USE DEF FileIInv
<1>1. CASE UNCHANGED vars
  BY <1>1 DEF vars, serialVars, winVars, fileVars, TypeOK, SerialTypeOK
<1>2. CASE ClickConnect /\ UNCHANGED fileVars
  <2>1. cur + 1 \in Handles
    BY <1>2, SerialAssumption DEF ClickConnect, TypeOK, SerialTypeOK, Handles, Opens, Closed
  <2> QED
    BY <1>2, <2>1 DEF ClickConnect, TypeOK, SerialTypeOK, Statuses, fileVars, winVars
<1>3. CASE Open /\ UNCHANGED fileVars
  BY <1>3 DEF Open, TypeOK, SerialTypeOK, winVars, fileVars
<1>4. CASE OpenFails /\ UNCHANGED fileVars
  <2>1. Closed \in Handles
    BY DEF Handles
  <2> QED
    BY <1>4, <2>1 DEF OpenFails, TypeOK, SerialTypeOK, Statuses, winVars, fileVars
<1>5. CASE SetConnected /\ UNCHANGED fileVars
  BY <1>5 DEF SetConnected, TypeOK, SerialTypeOK, Statuses, fileVars
<1>6. CASE ListChannel /\ UNCHANGED fileVars
  BY <1>6 DEF ListChannel, TypeOK, SerialTypeOK, Phases, winVars, fileVars
<1>7. CASE ClickDisconnect /\ UNCHANGED fileVars
  BY <1>7 DEF ClickDisconnect, TypeOK, SerialTypeOK, Handles, fileVars
<1>8. CASE StopNotify /\ UNCHANGED fileVars
  BY <1>8 DEF StopNotify, TypeOK, SerialTypeOK, Statuses, fileVars
<1>9. ASSUME NEW w \in Users, Send(w) /\ UNCHANGED fileVars PROVE TypeOK'
  <2>1. io' \in [Ops -> Phases] /\ on' \in [Ops -> Handles]
    BY <1>9, GotoTypes, BeginTypes, Operations
       DEF TypeOK, Phases, ClosePhases, Send, GiveUpWrite, BeginWrite
  <2> QED
    BY <1>9, <2>1
       DEF Send, GiveUpWrite, BeginWrite, TypeOK, SerialTypeOK, serialVars, winVars,
           fileVars
<1>10. CASE ClickSendFile
  <2>1. SendBlock
    BY <1>10 DEF ClickSendFile
  <2> QED
    BY <1>10, <2>1, SendBlockTypes DEF ClickSendFile, TypeOK, SerialTypeOK, winVars
<1>11. CASE AnswerCancel
  BY <1>11 DEF AnswerCancel, TypeOK, SerialTypeOK, serialVars, winVars
<1>12. CASE WroteBlock
  <2>1. block \in 1..Blocks /\ wire \in Seq(1..Blocks)
    BY <1>12 DEF FileIInv, FileInv, WroteBlock, WriteDone, TypeOK
  <2>2. wire' \in Seq(1..Blocks)
    BY <1>12, <2>1 DEF WroteBlock
  <2>3. io' \in [Ops -> Phases] /\ on' \in [Ops -> Handles]
    BY <1>12, GotoTypes, Operations DEF WroteBlock, WriteDone, TypeOK, Phases
  <2> QED
    BY <1>12, <2>2, <2>3 DEF WroteBlock, WriteDone, TypeOK, SerialTypeOK, winVars
<1>13. CASE WriteFails(File, "failed") /\ UNCHANGED fileVars
  <2>1. io' \in [Ops -> Phases] /\ on' \in [Ops -> Handles]
    BY <1>13, GotoTypes, BeginTypes, Operations DEF TypeOK, Phases, ClosePhases, WriteFails
  <2> QED
    BY <1>13, <2>1 DEF WriteFails, TypeOK, SerialTypeOK, serialVars, winVars, fileVars
<1>14. CASE BlockDone
  <2>1. SendBlock
    BY <1>14 DEF BlockDone
  <2> QED
    BY <1>14, <2>1, SendBlockTypes DEF BlockDone, TypeOK, SerialTypeOK, winVars
<1>15. CASE BlockFails
  <2>1. io' \in [Ops -> Phases] /\ on' \in [Ops -> Handles]
    BY <1>15, GotoTypes, BeginTypes, Operations DEF TypeOK, Phases, ClosePhases, BlockFails
  <2> QED
    BY <1>15, <2>1 DEF BlockFails, TypeOK, SerialTypeOK, serialVars, winVars, fileVars
<1>16. ASSUME NEW w \in Users, UserWrite(w) PROVE TypeOK'
  <2>1. io' \in [Ops -> Phases] /\ on' \in [Ops -> Handles]
    BY <1>16, GotoTypes, BeginTypes, Operations
       DEF TypeOK, Phases, ClosePhases, UserWrite, WriteDone, WriteFails
  <2> QED
    BY <1>16, <2>1
       DEF UserWrite, WriteDone, WriteFails, TypeOK, SerialTypeOK, serialVars, winVars,
           fileVars
<1>17. ASSUME NEW g \in Opens, ReadLoop(g) /\ UNCHANGED fileVars PROVE TypeOK'
  <2>1. CASE ReadData(g)
    BY <1>17, <2>1, Operations DEF ReadData, TypeOK, SerialTypeOK, winVars, fileVars
  <2>2. CASE ReadCanceled(g)
    BY <1>17, <2>2, GotoTypes, Operations
       DEF ReadCanceled, TypeOK, SerialTypeOK, Phases, winVars, fileVars
  <2> QED
    BY <1>17, <2>1, <2>2 DEF ReadLoop
<1>18. ASSUME NEW o \in Ops, TestOpen(o) /\ UNCHANGED fileVars PROVE TypeOK'
  <2>1. io' \in [Ops -> Phases] /\ on' \in [Ops -> Handles]
    BY <1>18, GotoTypes, BeginTypes, Operations DEF TypeOK, Phases, ClosePhases, TestOpen
  <2> QED
    BY <1>18, <2>1 DEF TestOpen, TypeOK, SerialTypeOK, serialVars, winVars, fileVars
<1>19. ASSUME NEW o \in Ops, ClosePort(o) /\ UNCHANGED fileVars PROVE TypeOK'
  <2>0. Closed \in Handles
    BY DEF Handles
  <2>1. io' \in [Ops -> Phases] /\ on' \in [Ops -> Handles]
    BY <1>19, GotoTypes, BeginTypes, Operations
       DEF TypeOK, Phases, ClosePhases, ClosePort, Crosses
  <2> QED
    BY <1>19, <2>0, <2>1 DEF ClosePort, Crosses, TypeOK, SerialTypeOK, winVars, fileVars
<1>20. ASSUME NEW o \in Ops, RemoveChannel(o) /\ UNCHANGED fileVars PROVE TypeOK'
  <2>1. io' \in [Ops -> Phases] /\ on' \in [Ops -> Handles]
    BY <1>20, GotoTypes, BeginTypes, Operations
       DEF TypeOK, Phases, ClosePhases, RemoveChannel, Crosses
  <2> QED
    BY <1>20, <2>1
       DEF RemoveChannel, Crosses, TypeOK, SerialTypeOK, serialVars, winVars, fileVars
<1>21. ASSUME NEW o \in Ops, SetDisconnected(o) /\ UNCHANGED fileVars PROVE TypeOK'
  <2>1. io' \in [Ops -> Phases] /\ on' \in [Ops -> Handles]
    BY <1>21, GotoTypes, BeginTypes, Operations
       DEF TypeOK, Phases, ClosePhases, SetDisconnected, Crosses, Statuses
  <2> QED
    BY <1>21, <2>1
       DEF SetDisconnected, Crosses, Statuses, TypeOK, SerialTypeOK, serialVars, winVars,
           fileVars
<1>22. ASSUME NEW o \in Ops, TellWindow(o) /\ UNCHANGED fileVars PROVE TypeOK'
  <2>0. Closed \in Handles
    BY DEF Handles
  <2>1. io' \in [Ops -> Phases] /\ on' \in [Ops -> Handles]
    BY <1>22, GotoTypes, BeginTypes, Operations
       DEF TypeOK, Phases, ClosePhases, TellWindow, Crosses, OnDeviceStatusChanged, Statuses
  <2> QED
    BY <1>22, <2>0, <2>1
       DEF TellWindow, Crosses, OnDeviceStatusChanged, Statuses, TypeOK, SerialTypeOK,
           winVars, fileVars
<1> QED
  BY <1>1, <1>2, <1>3, <1>4, <1>5, <1>6, <1>7, <1>8, <1>9, <1>10, <1>11, <1>12, <1>13,
     <1>14, <1>15, <1>16, <1>17, <1>18, <1>19, <1>20, <1>21, <1>22
     DEF Next, UIThread, FileThread, CloseSerialPort
-----------------------------------------------------------------------------
(* One write at a time.                                                     *)

\* Every step keeps the flag of a write in progress.
LEMMA FileFlag == FileIInv /\ [Next]_vars => WritingFlag'
<1> SUFFICES ASSUME FileIInv, [Next]_vars PROVE WritingFlag'
  OBVIOUS
<1> USE SerialAssumption, FileAssumption DEF FileIInv, TypeOK, SerialTypeOK, WritingFlag,
            OneWrite, FlagIsServed, FileInv, serialVars, winVars, fileVars, Ops, Opens,
            Closed, Users
<1>1. CASE UNCHANGED vars
  BY <1>1 DEF vars
<1>2. CASE ClickConnect /\ UNCHANGED fileVars
  BY <1>2 DEF ClickConnect
<1>3. CASE Open /\ UNCHANGED fileVars
  BY <1>3 DEF Open
<1>4. CASE OpenFails /\ UNCHANGED fileVars
  BY <1>4 DEF OpenFails
<1>5. CASE SetConnected /\ UNCHANGED fileVars
  BY <1>5 DEF SetConnected
<1>6. CASE ListChannel /\ UNCHANGED fileVars
  <2>1. cur \in Opens /\ cur \notin Writers
    BY <1>6, Operations
       DEF ListChannel, OnlyStarted, InStart, TypeOK, SerialTypeOK, Handles, Closed
  <2> QED
    BY <1>6, <2>1, Operations DEF ListChannel
<1>7. CASE ClickDisconnect /\ UNCHANGED fileVars
  BY <1>7 DEF ClickDisconnect
<1>8. CASE StopNotify /\ UNCHANGED fileVars
  BY <1>8 DEF StopNotify
<1>9. ASSUME NEW w \in Users, Send(w) /\ UNCHANGED fileVars PROVE WritingFlag'
  <2>1. BeginWrite(w) \/ GiveUpWrite(w, "done")
    BY <1>9 DEF Send
  <2>2. w \in Writers /\ w \in Ops /\ io[w] = "idle"
    BY <1>9, Operations DEF Send
  <2>3. CASE BeginWrite(w)
    BY <2>2, <2>3 DEF BeginWrite
  <2>4. CASE GiveUpWrite(w, "done")
    BY <2>2, <2>4 DEF GiveUpWrite, Goto
  <2> QED
    BY <2>1, <2>3, <2>4
<1>10. CASE ClickSendFile
  BY <1>10 DEF ClickSendFile, SendBlock, BeginWrite, GiveUpWrite, Goto
<1>11. CASE AnswerCancel
  BY <1>11 DEF AnswerCancel
<1>12. CASE WroteBlock
  BY <1>12 DEF WroteBlock, WriteDone, Goto
<1>13. CASE WriteFails(File, "failed") /\ UNCHANGED fileVars
  BY <1>13 DEF WriteFails, Goto
<1>14. CASE BlockDone
  BY <1>14 DEF BlockDone, SendBlock, BeginWrite, GiveUpWrite, Goto
<1>15. CASE BlockFails
  BY <1>15 DEF BlockFails, Goto
<1>16. ASSUME NEW w \in Users, UserWrite(w) PROVE WritingFlag'
  BY <1>16, Operations DEF UserWrite, WriteDone, WriteFails, Goto
<1>17. ASSUME NEW g \in Opens, ReadLoop(g) /\ UNCHANGED fileVars PROVE WritingFlag'
  <2>1. UNCHANGED writing /\ \A v \in Writers : io'[v] = io[v]
    BY <1>17, Operations DEF ReadLoop, ReadData, ReadCanceled, Goto
  <2> QED
    BY <2>1 DEF WritingFlag, OneWrite, FlagIsServed
<1>18. ASSUME NEW o \in Ops, TestOpen(o) /\ UNCHANGED fileVars PROVE WritingFlag'
  BY <1>18 DEF TestOpen, Goto
<1>19. ASSUME NEW o \in Ops, ClosePort(o) /\ UNCHANGED fileVars PROVE WritingFlag'
  BY <1>19 DEF ClosePort, Goto, Crosses
<1>20. ASSUME NEW o \in Ops, RemoveChannel(o) /\ UNCHANGED fileVars PROVE WritingFlag'
  BY <1>20 DEF RemoveChannel, Goto, Crosses
<1>21. ASSUME NEW o \in Ops, SetDisconnected(o) /\ UNCHANGED fileVars PROVE WritingFlag'
  BY <1>21 DEF SetDisconnected, Goto, Crosses
<1>22. ASSUME NEW o \in Ops, TellWindow(o) /\ UNCHANGED fileVars PROVE WritingFlag'
  BY <1>22 DEF TellWindow, Goto, Crosses, OnDeviceStatusChanged
<1> QED
  BY <1>1, <1>2, <1>3, <1>4, <1>5, <1>6, <1>7, <1>8, <1>9, <1>10, <1>11, <1>12, <1>13,
     <1>14, <1>15, <1>16, <1>17, <1>18, <1>19, <1>20, <1>21, <1>22
     DEF Next, UIThread, FileThread, CloseSerialPort
-----------------------------------------------------------------------------
(* The numbers of the Starts.                                               *)

\* What the file's thread and the UI thread do to the write of a block.
LEMMA SendBlockMoves ==
  ASSUME TypeOK, SendBlock
  PROVE  \E p \in {"done", "pending", "written"}, h \in {Closed, on[File], port} :
           /\ io' = [io EXCEPT ![File] = p] /\ on' = [on EXCEPT ![File] = h]
           /\ p = "pending" => ~writing /\ writing' = TRUE
           /\ p # "pending" => UNCHANGED writing
<1> USE Operations DEF SendBlock, TypeOK, SerialTypeOK
<1>1. CASE Goto(File, "done") /\ UNCHANGED writing
  BY <1>1 DEF Goto
<1>2. CASE BeginWrite(File)
  BY <1>2 DEF BeginWrite
<1>3. CASE GiveUpWrite(File, "written")
  BY <1>3 DEF GiveUpWrite, Goto
<1> QED
  BY <1>1, <1>2, <1>3

\* A write moves: no read loop is concerned.
LEMMA OneMove ==
  ASSUME FileIInv, NEW w \in Writers, NEW p, NEW h \in {Closed, on[w], port},
         io' = [io EXCEPT ![w] = p], on' = [on EXCEPT ![w] = h],
         UNCHANGED <<port, cur, ui>>
  PROVE  OnlyStarted'
BY Operations DEF FileIInv, TypeOK, SerialTypeOK, OnlyStarted, InStart, Closed

\* No step gives an operation to a Start to come.
LEMMA FileOpens == FileIInv /\ [Next]_vars => OnlyStarted'
<1> SUFFICES ASSUME FileIInv, [Next]_vars PROVE OnlyStarted'
  OBVIOUS
<1> USE SerialAssumption, FileAssumption DEF FileIInv, TypeOK, SerialTypeOK, Handles,
            OnlyStarted, InStart, FileInv, serialVars, winVars, fileVars, Ops, Opens,
            Closed, Users
<1>1. CASE UNCHANGED vars
  BY <1>1 DEF vars
<1>2. CASE ClickConnect /\ UNCHANGED fileVars
  <2>1. cur \in Nat /\ cur' = cur + 1 /\ cur' # Closed
    BY <1>2, Operations DEF ClickConnect, TypeOK, SerialTypeOK, Closed
  <2>2. port \in Nat /\ \A o \in Ops : on[o] \in Nat
    BY Operations DEF TypeOK, SerialTypeOK
  <2>3. \A g \in Opens : g \in Nat
    BY Operations
  <2> QED
    BY <1>2, <2>1, <2>2, <2>3 DEF ClickConnect, OnlyStarted, InStart
<1>3. CASE Open /\ UNCHANGED fileVars
  BY <1>3 DEF Open
<1>4. CASE OpenFails /\ UNCHANGED fileVars
  BY <1>4 DEF OpenFails
<1>5. CASE SetConnected /\ UNCHANGED fileVars
  BY <1>5 DEF SetConnected
<1>6. CASE ListChannel /\ UNCHANGED fileVars
  BY <1>6 DEF ListChannel
<1>7. CASE ClickDisconnect /\ UNCHANGED fileVars
  BY <1>7 DEF ClickDisconnect
<1>8. CASE StopNotify /\ UNCHANGED fileVars
  BY <1>8 DEF StopNotify
<1>9. ASSUME NEW w \in Users, Send(w) /\ UNCHANGED fileVars PROVE OnlyStarted'
  <2>1. \E p : \E h \in {Closed, on[w], port} :
          io' = [io EXCEPT ![w] = p] /\ on' = [on EXCEPT ![w] = h]
    BY <1>9 DEF Send, BeginWrite, GiveUpWrite, Goto
  <2> QED
    BY <1>9, <2>1, OneMove, Operations DEF Send
<1>10. CASE ClickSendFile
  BY <1>10, SendBlockMoves, OneMove, Operations DEF ClickSendFile
<1>11. CASE AnswerCancel
  BY <1>11 DEF AnswerCancel
<1>12. CASE WroteBlock
  BY <1>12 DEF WroteBlock, WriteDone, Goto
<1>13. CASE WriteFails(File, "failed") /\ UNCHANGED fileVars
  BY <1>13 DEF WriteFails, Goto
<1>14. CASE BlockDone
  BY <1>14, SendBlockMoves, OneMove, Operations DEF BlockDone
<1>15. CASE BlockFails
  BY <1>15 DEF BlockFails, Goto
<1>16. ASSUME NEW w \in Users, UserWrite(w) PROVE OnlyStarted'
  <2>1. \E p : \E h \in {Closed, on[w], port} :
          io' = [io EXCEPT ![w] = p] /\ on' = [on EXCEPT ![w] = h]
    BY <1>16 DEF UserWrite, WriteDone, WriteFails, Goto
  <2> QED
    BY <1>16, <2>1, OneMove, Operations DEF UserWrite, WriteDone, WriteFails
<1>17. ASSUME NEW g \in Opens, ReadLoop(g) /\ UNCHANGED fileVars PROVE OnlyStarted'
  <2>1. CASE ReadData(g)
    BY <1>17, <2>1, Operations DEF ReadData, TypeOK, SerialTypeOK, OnlyStarted, InStart
  <2>2. CASE ReadCanceled(g)
    BY <1>17, <2>2, Operations
       DEF ReadCanceled, Goto, TypeOK, SerialTypeOK, OnlyStarted, InStart, Closed
  <2> QED
    BY <1>17, <2>1, <2>2 DEF ReadLoop
<1>18. ASSUME NEW o \in Ops, TestOpen(o) /\ UNCHANGED fileVars PROVE OnlyStarted'
  BY <1>18 DEF TestOpen, Goto
<1>19. ASSUME NEW o \in Ops, ClosePort(o) /\ UNCHANGED fileVars PROVE OnlyStarted'
  BY <1>19 DEF ClosePort, Goto, Crosses
<1>20. ASSUME NEW o \in Ops, RemoveChannel(o) /\ UNCHANGED fileVars PROVE OnlyStarted'
  BY <1>20 DEF RemoveChannel, Goto, Crosses
<1>21. ASSUME NEW o \in Ops, SetDisconnected(o) /\ UNCHANGED fileVars PROVE OnlyStarted'
  BY <1>21 DEF SetDisconnected, Goto, Crosses
<1>22. ASSUME NEW o \in Ops, TellWindow(o) /\ UNCHANGED fileVars PROVE OnlyStarted'
  BY <1>22 DEF TellWindow, Goto, Crosses, OnDeviceStatusChanged
<1> QED
  BY <1>1, <1>2, <1>3, <1>4, <1>5, <1>6, <1>7, <1>8, <1>9, <1>10, <1>11, <1>12, <1>13,
     <1>14, <1>15, <1>16, <1>17, <1>18, <1>19, <1>20, <1>21, <1>22
     DEF Next, UIThread, FileThread, CloseSerialPort
-----------------------------------------------------------------------------
(* The port, the status, the list and the window.                           *)

\* An operation moves outside CloseSerialPort.
LEMMA CalmStep ==
  ASSUME FileIInv, NEW w \in Ops, NEW p, NEW h,
         {io[w], p} \cap {"close", "remove", "set", "tell"} = {},
         io' = [io EXCEPT ![w] = p], on' = [on EXCEPT ![w] = h],
         UNCHANGED <<status, port, ui, winVars, cur, crossed>>
  PROVE  PortInv'
<1>1. /\ Closers' = Closers /\ Stale' = Stale
      /\ \A q \in {"close", "remove", "set", "tell"} : At(q)' = At(q)
  BY DEF FileIInv, TypeOK, SerialTypeOK, Closers, Stale, At
<1> QED
  BY <1>1
     DEF FileIInv, PortInv, ClosedInOrder, StartAgrees, StopAgrees, IdleAgrees, InStart,
         winVars

\* Every step keeps the port's handles and what they are used for.
LEMMA FilePort == FileIInv /\ [Next]_vars => PortInv'
<1> SUFFICES ASSUME FileIInv, [Next]_vars PROVE PortInv'
  OBVIOUS
<1> USE SerialAssumption, FileAssumption DEF FileIInv, TypeOK, SerialTypeOK, Handles,
            Statuses, OnlyStarted, InStart, PortInv, ClosedInOrder, StartAgrees,
            StopAgrees, IdleAgrees, At, Closers, Stale, FileInv, serialVars, winVars,
            fileVars, Ops, Opens, Closed, Users
<1>1. CASE UNCHANGED vars
  BY <1>1 DEF vars
<1>2. CASE ClickConnect /\ UNCHANGED fileVars
  <2>1. cur' = cur + 1 /\ cur \in Nat
    BY <1>2, Operations DEF ClickConnect, TypeOK, SerialTypeOK
  <2>2. CASE Closers = {}
    <3>1. Closers' = {} /\ ~Stale /\ ~At("remove") /\ ~At("set") /\ ~At("tell")
      BY <1>2, <2>2 DEF ClickConnect, Closers, Stale, At
    <3>2. ~At("remove")' /\ ~At("set")' /\ ~At("tell")'
      BY <3>1 DEF Closers, At
    <3> QED
      BY <1>2, <2>2, <3>1, <3>2 DEF ClickConnect, PortInv, ClosedInOrder, StartAgrees,
         StopAgrees, IdleAgrees, InStart
  <2>3. ASSUME NEW o \in Closers PROVE PortInv'
    <3>1. o \in Closers' /\ on'[o] = on[o] /\ on[o] <= cur /\ on[o] \in Nat
      BY <1>2, <2>3, Operations DEF ClickConnect, Closers, OnlyStarted, TypeOK, SerialTypeOK
    <3>2. Stale'
      BY <2>1, <3>1 DEF Stale
    <3> QED
      BY <3>2 DEF PortInv
  <2> QED
    BY <2>2, <2>3
<1>3. CASE Open /\ UNCHANGED fileVars
  BY <1>3 DEF Open
<1>4. CASE OpenFails /\ UNCHANGED fileVars
  BY <1>4 DEF OpenFails
<1>5. CASE SetConnected /\ UNCHANGED fileVars
  BY <1>5 DEF SetConnected
<1>6. CASE ListChannel /\ UNCHANGED fileVars
  BY <1>6 DEF ListChannel
<1>7. CASE ClickDisconnect /\ UNCHANGED fileVars
  BY <1>7 DEF ClickDisconnect
<1>8. CASE StopNotify /\ UNCHANGED fileVars
  BY <1>8 DEF StopNotify
<1>9. ASSUME NEW w \in Users, Send(w) /\ UNCHANGED fileVars PROVE PortInv'
  <2>1. io[w] = "idle" /\ w \in Ops
    BY <1>9, Operations DEF Send
  <2>2. CASE BeginWrite(w)
    BY <1>9, <2>1, <2>2, CalmStep DEF Send, BeginWrite
  <2>3. CASE GiveUpWrite(w, "done")
    BY <1>9, <2>1, <2>3, CalmStep DEF Send, GiveUpWrite, Goto
  <2> QED
    BY <1>9, <2>2, <2>3 DEF Send
<1>10. CASE ClickSendFile
  <2>1. io[File] = "idle" /\ File \in Ops /\ TypeOK /\ SendBlock
    BY <1>10, Operations DEF ClickSendFile, FileInv
  <2>2. PICK p \in {"done", "pending", "written"} : \E h :
               io' = [io EXCEPT ![File] = p] /\ on' = [on EXCEPT ![File] = h]
    BY <2>1, SendBlockMoves
  <2> QED
    BY <1>10, <2>1, <2>2, CalmStep DEF ClickSendFile
<1>11. CASE AnswerCancel
  BY <1>11 DEF AnswerCancel
<1>12. CASE WroteBlock
  BY <1>12 DEF WroteBlock, WriteDone, Goto
<1>13. CASE WriteFails(File, "failed") /\ UNCHANGED fileVars
  BY <1>13 DEF WriteFails, Goto
<1>14. CASE BlockDone
  <2>1. io[File] = "written" /\ File \in Ops /\ TypeOK /\ SendBlock
    BY <1>14, Operations DEF BlockDone, FileInv
  <2>2. PICK p \in {"done", "pending", "written"} : \E h :
               io' = [io EXCEPT ![File] = p] /\ on' = [on EXCEPT ![File] = h]
    BY <2>1, SendBlockMoves
  <2> QED
    BY <1>14, <2>1, <2>2, CalmStep DEF BlockDone
<1>15. CASE BlockFails
  BY <1>15 DEF BlockFails, Goto
<1>16. ASSUME NEW w \in Users, UserWrite(w) PROVE PortInv'
  BY <1>16 DEF UserWrite, WriteDone, WriteFails, Goto
<1>17. ASSUME NEW g \in Opens, ReadLoop(g) /\ UNCHANGED fileVars PROVE PortInv'
  BY <1>17 DEF ReadLoop, ReadData, ReadCanceled, Goto
<1>18. ASSUME NEW o \in Ops, TestOpen(o) /\ UNCHANGED fileVars PROVE PortInv'
  BY <1>18 DEF TestOpen, Goto
<1>19. ASSUME NEW o \in Ops, ClosePort(o) /\ UNCHANGED fileVars PROVE PortInv'
  BY <1>19 DEF ClosePort, Goto, Crosses
<1>20. ASSUME NEW o \in Ops, RemoveChannel(o) /\ UNCHANGED fileVars PROVE PortInv'
  BY <1>20 DEF RemoveChannel, Goto, Crosses
<1>21. ASSUME NEW o \in Ops, SetDisconnected(o) /\ UNCHANGED fileVars PROVE PortInv'
  BY <1>21 DEF SetDisconnected, Goto, Crosses
<1>22. ASSUME NEW o \in Ops, TellWindow(o) /\ UNCHANGED fileVars PROVE PortInv'
  BY <1>22 DEF TellWindow, Goto, Crosses, OnDeviceStatusChanged
<1> QED
  BY <1>1, <1>2, <1>3, <1>4, <1>5, <1>6, <1>7, <1>8, <1>9, <1>10, <1>11, <1>12, <1>13,
     <1>14, <1>15, <1>16, <1>17, <1>18, <1>19, <1>20, <1>21, <1>22
     DEF Next, UIThread, FileThread, CloseSerialPort
-----------------------------------------------------------------------------
(* The blocks of the file.                                                  *)

\* Appending an element adds it to the set of the elements.
LEMMA ToSetAppend ==
  ASSUME NEW S, NEW s \in Seq(S), NEW x \in S
  PROVE  ToSet(Append(s, x)) = ToSet(s) \cup {x}
<1>1. /\ Len(Append(s, x)) = Len(s) + 1
      /\ \A i \in 1..Len(s) : Append(s, x)[i] = s[i]
      /\ Append(s, x)[Len(s) + 1] = x
  OBVIOUS
<1>2. DOMAIN s = 1..Len(s) /\ DOMAIN Append(s, x) = 1..(Len(s) + 1) /\ Len(s) \in Nat
  BY <1>1
<1> QED
  BY <1>1, <1>2 DEF ToSet

\* Every step keeps the blocks of the file accounted for.
LEMMA FileBlocks == FileIInv /\ [Next]_vars => FileInv'
<1> SUFFICES ASSUME FileIInv, [Next]_vars PROVE FileInv'
  OBVIOUS
<1> USE SerialAssumption, FileAssumption DEF FileIInv, TypeOK, SerialTypeOK, FileInv,
            Accounted, BlocksInOrder, SentIsAccounted, serialVars, winVars, fileVars, Ops,
            Opens, Closed, Users
<1>1. CASE UNCHANGED vars
  BY <1>1 DEF vars
<1>2. CASE ClickConnect /\ UNCHANGED fileVars
  BY <1>2 DEF ClickConnect
<1>3. CASE Open /\ UNCHANGED fileVars
  BY <1>3 DEF Open
<1>4. CASE OpenFails /\ UNCHANGED fileVars
  BY <1>4 DEF OpenFails
<1>5. CASE SetConnected /\ UNCHANGED fileVars
  BY <1>5 DEF SetConnected
<1>6. CASE ListChannel /\ UNCHANGED fileVars
  <2>1. cur \in Opens /\ cur # File
    BY <1>6, Operations
       DEF ListChannel, OnlyStarted, InStart, TypeOK, SerialTypeOK, Handles, Closed
  <2> QED
    BY <1>6, <2>1, Operations DEF ListChannel
<1>7. CASE ClickDisconnect /\ UNCHANGED fileVars
  BY <1>7 DEF ClickDisconnect
<1>8. CASE StopNotify /\ UNCHANGED fileVars
  BY <1>8 DEF StopNotify
<1>9. ASSUME NEW w \in Users, Send(w) /\ UNCHANGED fileVars PROVE FileInv'
  BY <1>9 DEF Send, BeginWrite, GiveUpWrite, Goto
<1>10. CASE ClickSendFile
  BY <1>10 DEF ClickSendFile, SendBlock, BeginWrite, GiveUpWrite, Goto
<1>11. CASE AnswerCancel
  BY <1>11 DEF AnswerCancel
<1>12. CASE WroteBlock
  <2>1. /\ io[File] = "pending" /\ io'[File] = "written" /\ block' = block
        /\ block \in 1..Blocks
        /\ wire' = Append(wire, block) /\ wire \in Seq(1..Blocks)
        /\ UNCHANGED <<result, skipped>>
    BY <1>12, Operations DEF WroteBlock, WriteDone, Goto
  <2>2. ToSet(wire') = ToSet(wire) \cup {block}
    BY <2>1, ToSetAppend
  <2>3. BlocksInOrder'
    <3>1. \A i \in DOMAIN wire : wire[i] < block
      <4>1. ToSet(wire) \subseteq 1..(block - 1)
        BY <2>1
      <4>2. \A i \in DOMAIN wire : wire[i] \in ToSet(wire)
        BY DEF ToSet
      <4> QED
        BY <2>1, <4>1, <4>2
    <3>2. /\ DOMAIN wire' = 1..(Len(wire) + 1) /\ DOMAIN wire = 1..Len(wire)
          /\ Len(wire) \in Nat
          /\ \A i \in DOMAIN wire : wire'[i] = wire[i]
          /\ wire'[Len(wire) + 1] = block
      BY <2>1
    <3>3. ASSUME NEW i \in DOMAIN wire', NEW j \in DOMAIN wire', i < j
          PROVE  wire'[i] < wire'[j]
      <4>1. i \in DOMAIN wire
        BY <3>2, <3>3
      <4>2. CASE j = Len(wire) + 1
        BY <3>1, <3>2, <4>1, <4>2
      <4>3. CASE j \in DOMAIN wire
        BY <3>2, <3>3, <4>1, <4>3
      <4> QED
        BY <3>2, <4>2, <4>3
    <3> QED
      BY <3>3
  <2> QED
    BY <2>1, <2>2, <2>3
<1>13. CASE WriteFails(File, "failed") /\ UNCHANGED fileVars
  BY <1>13 DEF WriteFails, Goto
<1>14. CASE BlockDone
  BY <1>14 DEF BlockDone, SendBlock, BeginWrite, GiveUpWrite, Goto
<1>15. CASE BlockFails
  BY <1>15 DEF BlockFails, Goto
<1>16. ASSUME NEW w \in Users, UserWrite(w) PROVE FileInv'
  BY <1>16 DEF UserWrite, WriteDone, WriteFails, Goto
<1>17. ASSUME NEW g \in Opens, ReadLoop(g) /\ UNCHANGED fileVars PROVE FileInv'
  BY <1>17 DEF ReadLoop, ReadData, ReadCanceled, Goto
<1>18. ASSUME NEW o \in Ops, TestOpen(o) /\ UNCHANGED fileVars PROVE FileInv'
  BY <1>18 DEF TestOpen, Goto
<1>19. ASSUME NEW o \in Ops, ClosePort(o) /\ UNCHANGED fileVars PROVE FileInv'
  BY <1>19 DEF ClosePort, Goto, Crosses
<1>20. ASSUME NEW o \in Ops, RemoveChannel(o) /\ UNCHANGED fileVars PROVE FileInv'
  BY <1>20 DEF RemoveChannel, Goto, Crosses
<1>21. ASSUME NEW o \in Ops, SetDisconnected(o) /\ UNCHANGED fileVars PROVE FileInv'
  BY <1>21 DEF SetDisconnected, Goto, Crosses
<1>22. ASSUME NEW o \in Ops, TellWindow(o) /\ UNCHANGED fileVars PROVE FileInv'
  BY <1>22 DEF TellWindow, Goto, Crosses, OnDeviceStatusChanged
<1> QED
  BY <1>1, <1>2, <1>3, <1>4, <1>5, <1>6, <1>7, <1>8, <1>9, <1>10, <1>11, <1>12, <1>13,
     <1>14, <1>15, <1>16, <1>17, <1>18, <1>19, <1>20, <1>21, <1>22
     DEF Next, UIThread, FileThread, CloseSerialPort
-----------------------------------------------------------------------------
(* The theorems.                                                            *)

\* With the port closed and no file sent, the invariant holds.
LEMMA FileStart == Init => FileIInv
<1> SUFFICES ASSUME Init PROVE FileIInv
  OBVIOUS
<1> USE Operations DEF Init, SerialInit
<1>1. TypeOK
  <2>1. Closed \in Handles /\ "idle" \in Phases /\ 0 \in 0..Blocks
    BY FileAssumption DEF Handles, Phases
  <2>2. SerialTypeOK
    BY <2>1 DEF SerialTypeOK, Statuses
  <2>3. wire \in Seq(1..Blocks) /\ result = "none" /\ block \in 0..Blocks
    BY <2>1, EmptySeq
  <2> QED
    BY <2>2, <2>3 DEF TypeOK
<1>2. WritingFlag
  BY DEF WritingFlag, OneWrite, FlagIsServed
<1>3. OnlyStarted
  BY DEF OnlyStarted, InStart, Closed
<1>4. PortInv
  BY DEF PortInv, ClosedInOrder, StartAgrees, StopAgrees, IdleAgrees, InStart, At
<1>5. FileInv
  <2>1. ToSet(wire) = {} /\ DOMAIN wire = {}
    BY DEF ToSet
  <2>2. File \in Ops
    OBVIOUS
  <2> QED
    BY <2>1, <2>2 DEF FileInv, BlocksInOrder, SentIsAccounted
<1> QED
  BY <1>1, <1>2, <1>3, <1>4, <1>5 DEF FileIInv

\* Whatever the user, the port and the window do, the invariant holds.
THEOREM FileInvariant == Spec => []FileIInv
<1>1. Init => FileIInv
  BY FileStart
<1>2. FileIInv /\ [Next]_vars => FileIInv'
  BY FileTypes, FileFlag, FileOpens, FilePort, FileBlocks DEF FileIInv
<1> QED
  BY <1>1, <1>2, PTL DEF Spec

\* Whatever fails, closes or restarts the port between two blocks of a file: one
\* write at a time has m_Writing, it is never left set, and once no thread is at
\* work the port, the status, the list and the window agree (SerialPort.cpp:390).
THEOREM PortServed == FairSpec => []PortIsServed
<1>1. FileIInv => PortAgrees
  <2> SUFFICES ASSUME FileIInv, SerialQuiet, ~crossed
               PROVE  /\ shown = status /\ button
                      /\ status = IF port = Closed THEN "Disconnected" ELSE "Connected"
                      /\ listed = (port # Closed)
    BY DEF PortAgrees
  <2>1. Closers = {} /\ ~Stale /\ ~At("remove") /\ ~At("set") /\ ~At("tell")
    BY DEF SerialQuiet, Closers, Stale, At
  <2>2. status \in Statuses /\ listed \in BOOLEAN /\ IdleAgrees
    BY <2>1 DEF FileIInv, TypeOK, SerialTypeOK, PortInv
  <2> QED
    BY <2>1, <2>2 DEF IdleAgrees, SerialQuiet, Statuses
<1>2. FileIInv => PortIsServed
  BY <1>1 DEF FileIInv, PortIsServed
<1> QED
  BY <1>2, FileInvariant, PTL DEF FairSpec

\* A file reported as sent is on the wire in order, each block once, but for the
\* blocks whose write gave up (NetDebuggerDlg.cpp:1044).
THEOREM FileIsSent == FairSpec => []FileArrives
<1>1. FileIInv => FileArrives
  BY DEF FileIInv, FileInv, FileArrives
<1> QED
  BY <1>1, FileInvariant, PTL DEF FairSpec
===============================================================================

