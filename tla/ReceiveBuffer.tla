----------------------------- MODULE ReceiveBuffer -----------------------------
(***************************************************************************)
(* The receive buffer of the main window (NetDebuggerDlg.cpp): m_ReadBuffer *)
(* and its mutex, the io_context threads that append to it and save it when *)
(* it exceeds the limit, the thread of "Save", and the UI thread.           *)
(*                                                                         *)
(* A call of a control's method from another thread (GetWindowText,         *)
(* EnableWindow, the text of the received data) is a SendMessage: it waits  *)
(* until the UI thread is between two of its handlers.  A handler that      *)
(* waits for the mutex is not between two handlers.                         *)
(*                                                                         *)
(* The received data is a sequence of blocks, numbered as they are appended.*)
(* What the edit control displays is not modelled.                          *)
(***************************************************************************)
EXTENDS Naturals, Sequences, SequencesExt

CONSTANTS
  Readers,    \* io_context threads in a read completion
  Savers,     \* threads of the "Save" button
  Limits,     \* values of m_MaxReadMemorySize, in blocks
  MaxBlocks,  \* bound on the blocks received
  None        \* the mutex is free

ASSUME BufferAssumption ==
  /\ Limits \subseteq Nat /\ Limits # {}
  /\ MaxBlocks \in Nat
  /\ Readers \cap Savers = {} /\ None \notin Readers \cup Savers

VARIABLES
  buf,       \* m_ReadBuffer
  mutex,     \* the thread that holds m_ReadBufferMutex (the UI thread frees it at once)
  pc,        \* per reader and saver: what it does next
  ui,        \* the handler in which the UI thread waits for the mutex, or "idle"
  clearOn,   \* IDC_BUTTON_RECV_CLEAR is enabled
  autoSave,  \* m_bAutoSave
  limit,     \* m_MaxReadMemorySize
  file,      \* the blocks appended to the auto-save file
  received,  \* the number of blocks received
  dropped    \* history: blocks cleared by the user, or with no file to save them to

vars == <<buf, mutex, pc, ui, clearOn, autoSave, limit, file, received, dropped>>

Threads == Readers \cup Savers
Blocks  == 1..MaxBlocks

\* What a reader does while it holds the mutex to save, each a call that waits
\* for the UI thread or for the disk.
AutoSaveSteps == {"path", "open", "disable", "write", "enable"}

TypeOK ==
  /\ buf \in Seq(Blocks)
  /\ mutex \in Readers \cup {None}
  /\ pc \in [Threads -> AutoSaveSteps \cup {"idle", "append", "clear", "show", "save"}]
  /\ ui \in {"idle", "clear", "display"}
  /\ clearOn \in BOOLEAN /\ autoSave \in BOOLEAN
  /\ limit \in Limits
  /\ file \in Seq(Blocks)
  /\ received \in 0..MaxBlocks
  /\ dropped \in SUBSET Blocks

Init ==
  /\ buf = <<>> /\ mutex = None
  /\ pc = [t \in Threads |-> "idle"]
  /\ ui = "idle"
  /\ clearOn = TRUE
  /\ autoSave \in BOOLEAN
  /\ limit \in Limits
  /\ file = <<>>
  /\ received = 0
  /\ dropped = {}

Goto(t, from, to) ==
  /\ pc[t] = from
  /\ pc' = [pc EXCEPT ![t] = to]

-----------------------------------------------------------------------------
(* A read completion: AppendDataToRecvBuffer.                               *)

\* Bound: MaxBlocks blocks are received.
Read(r) ==
  /\ Goto(r, "idle", "append")
  /\ received < MaxBlocks
  /\ UNCHANGED <<buf, mutex, ui, clearOn, autoSave, limit, file, received, dropped>>

\* Variant: the mutex is not taken.
AppendUnlocked(r) ==
  /\ received < MaxBlocks
  /\ received' = received + 1
  /\ buf' = Append(buf, received')
  /\ IF Len(buf') <= limit
     THEN Goto(r, "append", "show") /\ UNCHANGED <<mutex, dropped>>
     ELSE /\ mutex' = r
          /\ IF autoSave
             THEN Goto(r, "append", "path") /\ UNCHANGED dropped
             ELSE Goto(r, "append", "clear") /\ dropped' = dropped \cup ToSet(buf')
  /\ UNCHANGED <<ui, clearOn, autoSave, limit, file>>

AppendBlock(r) ==
  /\ mutex = None
  /\ received < MaxBlocks
  /\ received' = received + 1
  /\ buf' = Append(buf, received')
  /\ IF Len(buf') <= limit
     THEN Goto(r, "append", "show") /\ UNCHANGED <<mutex, dropped>>
     ELSE /\ mutex' = r
          /\ IF autoSave
             THEN Goto(r, "append", "path") /\ UNCHANGED dropped
             ELSE Goto(r, "append", "clear") /\ dropped' = dropped \cup ToSet(buf')
  /\ UNCHANGED <<ui, clearOn, autoSave, limit, file>>

\* GetWindowText of the path, which may be empty.
GetPath(r) ==
  /\ ui = "idle"
  /\ \/ Goto(r, "path", "open") /\ UNCHANGED dropped
     \/ Goto(r, "path", "clear") /\ dropped' = dropped \cup ToSet(buf)
  /\ UNCHANGED <<buf, mutex, ui, clearOn, autoSave, limit, file, received>>

\* SaveReadHistory, without the mutex of its own: a file that cannot be opened
\* is passed over in silence.
OpenFile(r) ==
  /\ \/ Goto(r, "open", "disable") /\ UNCHANGED dropped
     \/ Goto(r, "open", "clear") /\ dropped' = dropped \cup ToSet(buf)
  /\ UNCHANGED <<buf, mutex, ui, clearOn, autoSave, limit, file, received>>

DisableClear(t) ==
  /\ ui = "idle"
  /\ Goto(t, "disable", IF t \in Readers THEN "write" ELSE "save")
  /\ clearOn' = FALSE
  /\ UNCHANGED <<buf, mutex, ui, autoSave, limit, file, received, dropped>>

WriteFile(r) ==
  /\ Goto(r, "write", "enable")
  /\ file' = file \o buf
  /\ UNCHANGED <<buf, mutex, ui, clearOn, autoSave, limit, received, dropped>>

EnableClear(t) ==
  /\ ui = "idle"
  /\ Goto(t, "enable", IF t \in Readers THEN "clear" ELSE "idle")
  /\ clearOn' = TRUE
  /\ UNCHANGED <<buf, mutex, ui, autoSave, limit, file, received, dropped>>

\* Variant: the handler forgets to release the mutex.
ClearBufferLocked(r) ==
  /\ Goto(r, "clear", "show")
  /\ buf' = <<>>
  /\ UNCHANGED <<mutex, ui, clearOn, autoSave, limit, file, received, dropped>>

\* ... and the mutex is released.
ClearBuffer(r) ==
  /\ Goto(r, "clear", "show")
  /\ buf' = <<>>
  /\ mutex' = None
  /\ UNCHANGED <<ui, clearOn, autoSave, limit, file, received, dropped>>

\* The text of the block is sent to the edit control, unless m_bShowRecvData is
\* off; the mutex is free whether that waits or not.  The next read is issued.
Show(r) ==
  /\ Goto(r, "show", "idle")
  /\ UNCHANGED <<buf, mutex, ui, clearOn, autoSave, limit, file, received, dropped>>

-----------------------------------------------------------------------------
(* The thread of "Save": SaveReadHistory with its own mutex.                *)

\* The buffer is written to a file of the user's choice under the mutex.
SaveCopy(t) ==
  /\ mutex = None
  /\ Goto(t, "save", "enable")
  /\ UNCHANGED <<buf, mutex, ui, clearOn, autoSave, limit, file, received, dropped>>

-----------------------------------------------------------------------------
(* The UI thread.                                                           *)

\* OnBnClickedButtonRecvSave: the thread is detached.
ClickSave(t) ==
  /\ ui = "idle"
  /\ Goto(t, "idle", "disable")
  /\ UNCHANGED <<buf, mutex, ui, clearOn, autoSave, limit, file, received, dropped>>

\* OnBnClickedButtonRecvClear and OnEditRecvBoxDisplayTypeChanged.
ClickClear ==
  /\ ui = "idle" /\ clearOn
  /\ ui' = "clear"
  /\ UNCHANGED <<buf, mutex, pc, clearOn, autoSave, limit, file, received, dropped>>

ClickDisplayType ==
  /\ ui = "idle"
  /\ ui' = "display"
  /\ UNCHANGED <<buf, mutex, pc, clearOn, autoSave, limit, file, received, dropped>>

\* The mutex is taken, the buffer cleared or copied, the mutex released.
ClearByUser ==
  /\ ui = "clear" /\ mutex = None
  /\ ui' = "idle"
  /\ buf' = <<>>
  /\ dropped' = dropped \cup ToSet(buf)
  /\ UNCHANGED <<mutex, pc, clearOn, autoSave, limit, file, received>>

CopyForDisplay ==
  /\ ui = "display" /\ mutex = None
  /\ ui' = "idle"
  /\ UNCHANGED <<buf, mutex, pc, clearOn, autoSave, limit, file, received, dropped>>

\* OnBnClickedCheckAutoSave and OnCbnSelchangeComboMemoryMax.
ClickAutoSave ==
  /\ ui = "idle"
  /\ autoSave' = ~autoSave
  /\ UNCHANGED <<buf, mutex, pc, ui, clearOn, limit, file, received, dropped>>

SelectLimit(n) ==
  /\ ui = "idle"
  /\ limit' = n
  /\ UNCHANGED <<buf, mutex, pc, ui, clearOn, autoSave, file, received, dropped>>

-----------------------------------------------------------------------------

ReaderThread(r) ==
  \/ AppendBlock(r) \/ GetPath(r) \/ OpenFile(r) \/ DisableClear(r)
  \/ WriteFile(r) \/ EnableClear(r) \/ ClearBuffer(r) \/ Show(r)

SaverThread(t) == DisableClear(t) \/ SaveCopy(t) \/ EnableClear(t)

UIHandler == ClearByUser \/ CopyForDisplay

Next ==
  \/ \E r \in Readers : Read(r) \/ ReaderThread(r)
  \/ \E t \in Savers : ClickSave(t) \/ SaverThread(t)
  \/ UIHandler \/ ClickClear \/ ClickDisplayType \/ ClickAutoSave
  \/ \E n \in Limits : SelectLimit(n)

Spec == Init /\ [][Next]_vars

\* Every thread goes on with what it has begun, once what it waits for is free;
\* data and clicks are under no obligation.
Fairness ==
  /\ WF_vars(UIHandler)
  /\ \A r \in Readers : SF_vars(ReaderThread(r))
  /\ \A t \in Savers : SF_vars(SaverThread(t))

FairSpec == Spec /\ Fairness

-----------------------------------------------------------------------------
(* Properties.                                                              *)

\* No received block is lost between the buffer and the file: each is in one
\* of the two, unless the user cleared it or there was no file to save it to.
NoBlockLost == 1..received \subseteq ToSet(buf) \cup ToSet(file) \cup dropped

\* The file and then the buffer hold the blocks in the order of reception, none
\* of them twice, except that a block is in both until the save has cleared it.
SavedInOrder ==
  LET s == IF \E r \in Readers : pc[r] \in {"enable", "clear"} THEN file ELSE file \o buf IN
  \A i, j \in 1..Len(s) : i < j => s[i] < s[j]

\* Both together: buffer and file are what was received, whoever saves or clears.
ReceivedIsKept == TypeOK /\ NoBlockLost /\ SavedInOrder

\* A handler of the UI thread gets the mutex, unless a read completion holds it
\* for an automatic save and waits for the UI thread in turn.
AutoSaving == \E r \in Readers : pc[r] \in AutoSaveSteps

UIReturns == ui # "idle" ~> ui = "idle" \/ AutoSaving

\* "When the received content exceeds the limit, it is automatically saved to
\* the file [...], and then the content is emptied." (res/language.ini).  It is
\* violated: the saving thread and the UI thread wait for each other.
ContentIsEmptied == (autoSave /\ AutoSaving) ~> buf = <<>>
=============================================================================
