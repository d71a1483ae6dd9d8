------------------------------- MODULE FileSend -------------------------------
(***************************************************************************)
(* Sending a file (NetDebuggerDlg.cpp, StartSendFileToChannel and           *)
(* SendFileBlockToChannel) through the serial port of SerialPort, while the *)
(* user sends, cancels, stops and restarts the device.                      *)
(*                                                                         *)
(* The file is read and written a block at a time.  The completion of a     *)
(* block's write begins the next, on the thread of the completion; the      *)
(* first block is written by the UI thread.                                 *)
(***************************************************************************)
EXTENDS SerialPort, Sequences, SequencesExt

CONSTANTS
  File,   \* the write of the file's current block
  Blocks  \* the number of blocks of the file

ASSUME FileAssumption ==
  /\ File \in Writers
  /\ Blocks \in Nat \ {0}

VARIABLES
  result,   \* what the pop-up says of the file
  block,    \* the block read last
  cancel,   \* FileSendContext::cancel
  wire,     \* the blocks written to the port
  skipped   \* history: blocks whose write gave up

fileVars == <<result, block, cancel, wire, skipped>>
vars     == <<serialVars, fileVars>>

Users == Writers \ {File}

TypeOK ==
  /\ SerialTypeOK
  /\ result \in {"none", "sending", "sent", "failed", "cancelled"}
  /\ block \in 0..Blocks
  /\ cancel \in BOOLEAN
  /\ wire \in Seq(1..Blocks)
  /\ skipped \in SUBSET (1..Blocks)

Init ==
  /\ SerialInit
  /\ result = "none"
  /\ block = 0
  /\ cancel = FALSE
  /\ wire = <<>>
  /\ skipped = {}

-----------------------------------------------------------------------------
(* SendFileBlockToChannel.                                                  *)

SendBlock ==
  IF cancel
  THEN /\ result' = "cancelled"
       /\ Goto(File, "done")
       /\ UNCHANGED <<writing, block, skipped>>
  ELSE IF block = Blocks
  THEN /\ result' = "sent"
       /\ Goto(File, "done")
       /\ UNCHANGED <<writing, block, skipped>>
  ELSE /\ result' = "sending"
       /\ block' = block + 1
       /\ \/ BeginWrite(File) /\ UNCHANGED skipped
          \/ GiveUpWrite(File, "written") /\ skipped' = skipped \cup {block'}

\* OnBnClickedButtonSendFile, for the one channel; the device may have been
\* disconnected while the file dialog was open.
ClickSendFile ==
  /\ ui = "idle" /\ listed
  /\ result = "none"
  /\ SendBlock
  /\ UNCHANGED <<status, port, ui, winVars, cur, crossed, cancel, wire>>

\* Variant: the same block is written again.
BlockDoneAgain ==
  /\ io[File] = "written"
  /\ BeginWrite(File)
  /\ UNCHANGED <<status, port, ui, winVars, cur, crossed, fileVars>>

\* The completion handler: the next block ...
BlockDone ==
  /\ io[File] = "written"
  /\ SendBlock
  /\ UNCHANGED <<status, port, ui, winVars, cur, crossed, cancel, wire>>

\* Variant: nothing is told of the failure.
BlockFailsSilently ==
  /\ io[File] = "failed"
  /\ Goto(File, "test")
  /\ UNCHANGED <<status, port, writing, ui, winVars, cur, crossed, fileVars>>

\* ... or the end; after the handler, the port is closed.
BlockFails ==
  /\ io[File] = "failed"
  /\ result' = "failed"
  /\ Goto(File, "test")
  /\ UNCHANGED <<status, port, writing, ui, winVars, cur, crossed, block, cancel, wire, skipped>>

\* Closing the pop-up while the file is sent asks whether to cancel.
AnswerCancel ==
  /\ ui = "idle"
  /\ result = "sending"
  /\ cancel' \in BOOLEAN
  /\ UNCHANGED <<serialVars, result, block, wire, skipped>>

WroteBlock ==
  /\ WriteDone(File, "written")
  /\ wire' = Append(wire, block)
  /\ UNCHANGED <<result, block, cancel, skipped>>

-----------------------------------------------------------------------------

FileThread ==
  \/ WroteBlock
  \/ WriteFails(File, "failed") /\ UNCHANGED fileVars
  \/ BlockDone \/ BlockFails

UserWrite(w) ==
  /\ WriteDone(w, "done") \/ WriteFails(w, "test")
  /\ UNCHANGED fileVars

Next ==
  \/ UIThread /\ UNCHANGED fileVars
  \/ \E w \in Users : Send(w) /\ UNCHANGED fileVars
  \/ ClickSendFile \/ AnswerCancel
  \/ FileThread
  \/ \E w \in Users : UserWrite(w)
  \/ \E g \in Opens : ReadLoop(g) /\ UNCHANGED fileVars
  \/ \E o \in Ops : CloseSerialPort(o) /\ UNCHANGED fileVars

Spec == Init /\ [][Next]_vars

\* The write of a block is over when its port is closed; on an open port it may
\* wait for the peer's flow control for ever.  A handler runs.
Over == io[File] # "pending" \/ on[File] # port \/ on[File] = Closed

Fairness == WF_vars(Over /\ FileThread)

FairSpec == Spec /\ Fairness

-----------------------------------------------------------------------------
(* Properties.                                                              *)

\* The blocks on the wire are in the order of the file, none twice, whoever
\* writes in between and whatever thread each block was written by.
BlocksInOrder == \A i, j \in DOMAIN wire : i < j => wire[i] < wire[j]

\* When the file is reported as sent, each block is on the wire, except those
\* whose write gave up.
SentIsAccounted == result = "sent" => 1..Blocks \subseteq ToSet(wire) \cup skipped

\* A file that is reported as sent is the file, but for the blocks that gave up.
FileArrives == BlocksInOrder /\ SentIsAccounted

\* The port is one, with one write at a time, and what the window says of it is so.
PortIsServed == TypeOK /\ WritingFlag /\ PortAgrees

\* A file send comes to an end once the port is closed for good, though nothing
\* tells it of the close but its own write.
SendEndsOnceClosed == <>[](port = Closed) => []<>(result # "sending")

\* "文件发送成功" (the file was sent): all of it is on the wire.  It is violated:
\* a block whose write gave up counts as sent.
SentIsComplete == result = "sent" => 1..Blocks \subseteq ToSet(wire)
=============================================================================
