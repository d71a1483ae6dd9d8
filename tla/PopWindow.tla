------------------------------- MODULE PopWindow ------------------------------
(***************************************************************************)
(* The pop-up windows (PopWindow.cpp).  Show, Update and Close may be       *)
(* called on any thread: they post a message to the main window, and its    *)
(* hooked window procedure creates, changes and destroys the windows on the *)
(* UI thread, in the order of the messages.                                 *)
(***************************************************************************)
EXTENDS Naturals, Sequences

CONSTANTS
  WindowIds,  \* identifiers of pop-ups.  Bound: Show waits for a free one
  Looks,      \* what a pop-up shows, and so the listener it has
  Free,       \* an identifier without a window,
  Reserved    \* and one whose window is still to be made

ASSUME PopWindowAssumption == Free \notin Looks /\ Reserved \notin Looks /\ Free # Reserved

VARIABLES
  map,      \* m_WindowMap: the look of each window
  visible,  \* m_VisibleWindowList
  timed,    \* the windows whose timer 0 is set
  posted    \* messages on their way to the window procedure

popVars == <<map, visible, timed, posted>>

NoWindow == 0   \* an identifier no window has: -1 in the code
ASSUME NoWindowAssumption == NoWindow \notin WindowIds

Messages ==
  [msg : {"create", "update"}, id : WindowIds, look : Looks, timer : BOOLEAN]
    \cup [msg : {"delete"}, id : WindowIds \cup {NoWindow}]

PopWindowTypeOK ==
  /\ map \in [WindowIds -> Looks \cup {Free, Reserved}]
  /\ visible \subseteq WindowIds
  /\ timed \subseteq visible
  /\ posted \in Seq(Messages)

PopWindowInit ==
  /\ map = [i \in WindowIds |-> Free]
  /\ visible = {}
  /\ timed = {}
  /\ posted = <<>>

-----------------------------------------------------------------------------
(* Calls, on any thread.                                                    *)

\* NewWindowId counts upwards, so an identifier comes back only after all the
\* others: one that a message or the caller (held) still names is not taken.
NewWindowId(held) ==
  {i \in WindowIds \ held : map[i] = Free /\ \A k \in DOMAIN posted : posted[k].id # i}

\* PopWindow::Show: the identifier is reserved and returned at once.
Show(id, look, timer) ==
  /\ map' = [map EXCEPT ![id] = Reserved]
  /\ posted' = Append(posted, [msg |-> "create", id |-> id, look |-> look, timer |-> timer])
  /\ UNCHANGED <<visible, timed>>

Update(id, look, timer) ==
  /\ posted' = Append(posted, [msg |-> "update", id |-> id, look |-> look, timer |-> timer])
  /\ UNCHANGED <<map, visible, timed>>

Close(id) ==
  /\ posted' = Append(posted, [msg |-> "delete", id |-> id])
  /\ UNCHANGED <<map, visible, timed>>

-----------------------------------------------------------------------------
(* The window procedure, on the UI thread.                                  *)

\* DestroyWindow, whose OnDestroy takes the window out of both collections.
Destroy(id) ==
  /\ map' = [map EXCEPT ![id] = Free]
  /\ visible' = visible \ {id}
  /\ timed' = timed \ {id}

\* Timer 0 runs while the duration is not 0.
SetTimer(id, timer) == IF timer THEN timed \cup {id} ELSE timed \ {id}

\* NewPopWindow and CreateHWND: the window is shown, and OnShowWindow lists it.
NewPopWindow(m) ==
  /\ map' = [map EXCEPT ![m.id] = m.look]
  /\ visible' = visible \cup {m.id}
  /\ timed' = SetTimer(m.id, m.timer)

\* ChangePopWindow and UpdateWindow: a window that is gone is left alone.
ChangePopWindow(m) ==
  /\ IF m.id \in visible
     THEN /\ map' = [map EXCEPT ![m.id] = m.look]
          /\ timed' = SetTimer(m.id, m.timer)
     ELSE UNCHANGED <<map, timed>>
  /\ UNCHANGED visible

ClosePopWindow(m) ==
  IF m.id \in WindowIds /\ map[m.id] # Free
  THEN Destroy(m.id)
  ELSE UNCHANGED <<map, visible, timed>>

\* HookWndProc.
HookWndProc ==
  /\ posted # <<>>
  /\ LET m == Head(posted) IN
     \/ m.msg = "create" /\ NewPopWindow(m)
     \/ m.msg = "update" /\ ChangePopWindow(m)
     \/ m.msg = "delete" /\ ClosePopWindow(m)
  /\ posted' = Tail(posted)

\* OnTimer, of a window whose listener does not refuse.
OnTimer(id) ==
  /\ id \in timed
  /\ Destroy(id)
  /\ UNCHANGED posted

\* The "X" (OnLButtonUp, OnClose), once the listener has agreed.
Closed(id) ==
  /\ id \in visible
  /\ Destroy(id)
  /\ UNCHANGED posted
===============================================================================
