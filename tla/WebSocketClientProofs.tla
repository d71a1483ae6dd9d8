------------------------- MODULE WebSocketClientProofs -------------------------
(***************************************************************************)
(* Proofs about WebSocketClient, for every set of channels and every number *)
(* of slots and of clicks.                                                  *)
(***************************************************************************)
EXTENDS WebSocketClient, FiniteSetTheorems, TLAPS

-----------------------------------------------------------------------------
(* The invariant.                                                           *)

InSlot(c) == \E i \in SlotIds : slot[i] = c

\* Stop closed the channel under its Connect, or Start's loop opened it behind
\* that of Stop.
Loose(c) == c \in cut \cup missed

\* The phases that lead to the channel being listed; "fail" only does in the single
\* client, whose channel is always in its slot.
Lists == {"resolving", "connecting", "handshake", "ok", "okTell", "failTell", "okAdd",
          "failAdd", "add", "addLast"}

\* A channel that is open is in m_Channels, or was missed; one that is listed, or
\* is on the way there, is in m_Channels or loose.
Slotted ==
  /\ \A c \in open : InSlot(c) \/ c \in missed
  /\ \A c \in Channels : c \in listed \/ hs[c] \in Lists => InSlot(c) \/ Loose(c)

\* No channel is in two slots; the loop of Start is at a slot while it has a
\* channel in hand, that of Stop while it closes.
Apart ==
  /\ \A i, j \in SlotIds : slot[i] = slot[j] /\ slot[i] # NoChannel => i = j
  /\ starting # NoChannel => startAt \in SlotIds /\ ~Single
  /\ stop \in {"close", "erase", "empty"} => stopAt \in SlotIds

\* What Stop has closed and is about to drop holds nothing but what is excepted.
Closing ==
  stop \in {"erase", "empty"} =>
    /\ slot[stopAt] \in Channels
    /\ slot[stopAt] \in open => slot[stopAt] \in missed
    /\ hs[slot[stopAt]] \in Lists => Loose(slot[stopAt])
    /\ stop = "empty" /\ slot[stopAt] \in listed => Loose(slot[stopAt])

\* The single client has one channel, and takes no part in the loops.
MultiplePhases == {"add", "addLast", "miss", "missLast", "last", "lastTell"}

OneChannel ==
  Single =>
    /\ slot[1] \in Channels
    /\ startAt = 0 /\ starting = NoChannel /\ stop = "none"
    /\ open \cup owned \cup io \subseteq {slot[1]}
    /\ \A c \in Channels :
         /\ hs[c] # "none" => c = slot[1] /\ hs[c] \notin MultiplePhases
         /\ note[c] # "none" => c \in owned
         /\ hs[c] = "failTell" => status = "Disconnected"

\* While the single client is not Disconnected its channel is open, or a thread
\* has yet to decide the status.
Connecting == {"resolving", "connecting", "handshake", "ok", "fail"}

StopHasEffect ==
  Single /\ status # "Disconnected" /\ ui \notin {"start", "stop"} /\ ~orphan =>
    slot[1] \in open \/ note[slot[1]] \in {"remove", "set"} \/ hs[slot[1]] \in Connecting

\* While the multiple client is Connecting, the slots that the loop of Start has
\* passed are counted already or have a Connect under way; a handler of the start
\* before may be counted as well.  Who counts up to Slots has yet to report.
Uncounted == {c \in Channels : hs[c] \in Connecting}
Passed    == IF startAt = 0 THEN Slots ELSE startAt - 1
Reporting == {"addLast", "missLast", "last"}

Counted ==
  ~Single /\ status = "Connecting" /\ stop \in {"none", "tell"} =>
    /\ ui = "idle" /\ ~refused => Passed <= connected + Cardinality(Uncounted)
    /\ ui \in {"second", "idle"} /\ connected >= Slots =>
         \E c \in Channels : hs[c] \in Reporting

WsIInv ==
  /\ TypeOK /\ Apart /\ Slotted /\ Closing /\ OneChannel /\ StopHasEffect
  /\ IsFiniteSet(Uncounted) /\ Counted

-----------------------------------------------------------------------------
(* Types, and where the channels are.                                       *)

\* Every step keeps the types.
LEMMA WsTypes == WsIInv /\ [Next]_<<deviceVars, wsVars>> => TypeOK'
<1> SUFFICES ASSUME WsIInv, [Next]_<<deviceVars, wsVars>> PROVE TypeOK'
  OBVIOUS
<1> USE WebSocketAssumption DEF WsIInv, TypeOK, DeviceTypeOK, WsTypeOK, Statuses,
            HsPhases, NotePhases, SlotIds, Single, deviceVars, wsVars, chVars, loopVars,
            startVars, stopVars, countVars, historyVars
<1>1. CASE UNCHANGED <<deviceVars, wsVars>>
  BY <1>1
<1>2. CASE WsClickConnect
  BY <1>2 DEF WsClickConnect, ClickConnect, Click, StatusChanged
<1>3. CASE StartSingle
  <2>1. slot[1] \in Channels
    BY <1>3 DEF StartSingle, OneChannel
  <2>2. CASE slot[1] \in open
    BY <1>3, <2>2 DEF StartSingle, TryOpen
  <2>3. CASE slot[1] \notin open
    BY <1>3, <2>1, <2>3 DEF StartSingle, TryOpen, HsAt
  <2> QED
    BY <2>2, <2>3
<1>4. CASE StartBadAddress
  <2>1. slot[1] \in Channels
    BY <1>4 DEF StartBadAddress, OneChannel
  <2> QED
    BY <1>4, <2>1 DEF StartBadAddress, StatusChanged
<1>5. CASE StopSingle
  BY <1>5 DEF StopSingle
<1>6. CASE StopSingleEnds
  BY <1>6 DEF StopSingleEnds, StatusChanged
<1>7. CASE StartMultiple
  BY <1>7 DEF StartMultiple
<1>8. CASE StartMultiplePosts
  BY <1>8 DEF StartMultiplePosts
<1>9. CASE StopMultiple
  BY <1>9 DEF StopMultiple, Click, StatusChanged
<1>10. CASE CloseSlot
  <2>1. stopAt \in SlotIds
    BY <1>10 DEF CloseSlot, Apart
  <2> QED
    BY <1>10, <2>1 DEF CloseSlot, StopsAtNext, NextSlot
<1>11. CASE EraseSlot
  BY <1>11 DEF EraseSlot
<1>12. CASE EmptySlot
  <2>1. stopAt \in SlotIds
    BY <1>12 DEF EmptySlot, Apart
  <2> QED
    BY <1>12, <2>1 DEF EmptySlot, StopsAtNext, NextSlot
<1>13. CASE StopResets
  BY <1>13 DEF StopResets
<1>14. CASE StopLoopEnds
  BY <1>14 DEF StopLoopEnds
<1>15. CASE StopLoopTells
  BY <1>15 DEF StopLoopTells, ShowStatus, Sweep
<1>16. ASSUME NEW c \in Channels, Connects(c) \/ Refused(c) PROVE TypeOK'
  BY <1>16 DEF Connects, Refused, ConnectStep, HsAt
<1>17. ASSUME NEW c \in Channels, ConnectFails(c) PROVE TypeOK'
  BY <1>17 DEF ConnectFails, HsAt
<1>18. ASSUME NEW c \in Channels, SetSingle(c) PROVE TypeOK'
  BY <1>18 DEF SetSingle, HsAt
<1>19. ASSUME NEW c \in Channels, TellSingle(c) PROVE TypeOK'
  <2>1. hs' \in [Channels -> HsPhases]
    BY <1>19 DEF TellSingle, HsAt
  <2> QED
    <3>1. CASE ShowStatus("Connected")
      BY <1>19, <2>1, <3>1 DEF TellSingle, ShowStatus, Sweep
    <3>2. CASE ShowStatus("Disconnected")
      BY <1>19, <2>1, <3>2 DEF TellSingle, ShowStatus, Sweep
    <3> QED
      BY <1>19, <3>1, <3>2 DEF TellSingle
<1>20. ASSUME NEW c \in Channels, ListSingle(c) PROVE TypeOK'
  BY <1>20 DEF ListSingle, HsAt, List
<1>21. ASSUME NEW c \in Channels, SetOwner(c) PROVE TypeOK'
  BY <1>21 DEF SetOwner, HsAt
<1>22. ASSUME NEW c \in Channels, CountChannel(c) PROVE TypeOK'
  BY <1>22 DEF CountChannel, HsAt
<1>23. ASSUME NEW c \in Channels, CountFailed(c) PROVE TypeOK'
  BY <1>23 DEF CountFailed, HsAt
<1>24. ASSUME NEW c \in Channels, ListMultiple(c) PROVE TypeOK'
  BY <1>24 DEF ListMultiple, HsAt, List
<1>25. ASSUME NEW c \in Channels, SetMultiple(c) PROVE TypeOK'
  BY <1>25 DEF SetMultiple, HsAt
<1>26. ASSUME NEW c \in Channels, TellMultiple(c) PROVE TypeOK'
  BY <1>26 DEF TellMultiple, HsAt, ShowStatus, Sweep
<1>27. ASSUME NEW c \in Channels, TakeSlot(c) PROVE TypeOK'
  BY <1>27 DEF TakeSlot, Fresh, Busy
<1>28. ASSUME NEW c \in Channels, ConnectChannel(c) PROVE TypeOK'
  <2>1. startAt \in SlotIds /\ startAt' \in 0..Slots /\ starting' = NoChannel
    BY <1>28 DEF ConnectChannel, StartsAtNext, NextSlot, Apart
  <2>2. open' \subseteq Channels /\ hs' \in [Channels -> HsPhases] /\ refused' \in BOOLEAN
    BY <1>28 DEF ConnectChannel, TryOpen, HsAt
  <2> QED
    BY <1>28, <2>1, <2>2 DEF ConnectChannel
<1>29. ASSUME NEW c \in Channels, ConnectBadAddress(c) PROVE TypeOK'
  <2>1. startAt \in SlotIds /\ startAt' \in 0..Slots /\ starting' = NoChannel
    BY <1>29 DEF ConnectBadAddress, StartsAtNext, NextSlot, Apart
  <2> QED
    BY <1>29, <2>1 DEF ConnectBadAddress, HsAt
<1>30. ASSUME NEW c \in Channels, ClickClose(c) PROVE TypeOK'
  BY <1>30 DEF ClickClose, Click
<1>31. ASSUME NEW c \in Channels, IoFails(c) PROVE TypeOK'
  BY <1>31 DEF IoFails, NoteAt
<1>32. ASSUME NEW c \in Channels, NotifyRemove(c) PROVE TypeOK'
  BY <1>32 DEF NotifyRemove, NoteAt
<1>33. ASSUME NEW c \in Channels, NotifyStatus(c) PROVE TypeOK'
  BY <1>33 DEF NotifyStatus, NoteAt
<1>34. ASSUME NEW c \in Channels, NotifyTells(c) PROVE TypeOK'
  BY <1>34 DEF NotifyTells, NoteAt, ShowStatus, Sweep
<1> QED
  BY <1>1, <1>2, <1>3, <1>4, <1>5, <1>6, <1>7, <1>8, <1>9, <1>10, <1>11, <1>12, <1>13,
     <1>14, <1>15, <1>16, <1>17, <1>18, <1>19, <1>20, <1>21, <1>22, <1>23, <1>24, <1>25,
     <1>26, <1>27, <1>28, <1>29, <1>30, <1>31, <1>32, <1>33, <1>34
     DEF Next, WsDevice, WsChannel

\* Every step keeps the slots apart and the loops at a slot.
LEMMA WsApart == WsIInv /\ [Next]_<<deviceVars, wsVars>> => Apart'
<1> SUFFICES ASSUME WsIInv, [Next]_<<deviceVars, wsVars>> PROVE Apart'
  OBVIOUS
<1> USE WebSocketAssumption DEF WsIInv, TypeOK, DeviceTypeOK, WsTypeOK, SlotIds, Single,
            Apart, OneChannel, deviceVars, wsVars, chVars, loopVars, startVars, stopVars,
            countVars, historyVars
<1>1. CASE UNCHANGED <<deviceVars, wsVars>>
  BY <1>1
<1>2. CASE WsClickConnect
  BY <1>2 DEF WsClickConnect, ClickConnect, Click, StatusChanged
<1>3. CASE StartSingle
  BY <1>3 DEF StartSingle, TryOpen, HsAt
<1>4. CASE StartBadAddress
  BY <1>4 DEF StartBadAddress, StatusChanged
<1>5. CASE StopSingle
  BY <1>5 DEF StopSingle
<1>6. CASE StopSingleEnds
  BY <1>6 DEF StopSingleEnds, StatusChanged
<1>7. CASE StartMultiple
  BY <1>7 DEF StartMultiple
<1>8. CASE StartMultiplePosts
  BY <1>8 DEF StartMultiplePosts
<1>9. CASE StopMultiple
  BY <1>9 DEF StopMultiple, Click, StatusChanged
<1>10. CASE CloseSlot
  BY <1>10 DEF CloseSlot, StopsAtNext, NextSlot
<1>11. CASE EraseSlot
  BY <1>11 DEF EraseSlot
<1>12. CASE EmptySlot
  BY <1>12 DEF EmptySlot, StopsAtNext, NextSlot
<1>13. CASE StopResets
  BY <1>13 DEF StopResets
<1>14. CASE StopLoopEnds
  BY <1>14 DEF StopLoopEnds
<1>15. CASE StopLoopTells
  BY <1>15 DEF StopLoopTells, ShowStatus, Sweep
<1>16. ASSUME NEW c \in Channels, Connects(c) \/ Refused(c) PROVE Apart'
  BY <1>16 DEF Connects, Refused, ConnectStep, HsAt
<1>17. ASSUME NEW c \in Channels, ConnectFails(c) PROVE Apart'
  BY <1>17 DEF ConnectFails, HsAt
<1>18. ASSUME NEW c \in Channels, SetSingle(c) PROVE Apart'
  BY <1>18 DEF SetSingle, HsAt
<1>19. ASSUME NEW c \in Channels, TellSingle(c) PROVE Apart'
  BY <1>19 DEF TellSingle, HsAt, ShowStatus, Sweep
<1>20. ASSUME NEW c \in Channels, ListSingle(c) PROVE Apart'
  BY <1>20 DEF ListSingle, HsAt, List
<1>21. ASSUME NEW c \in Channels, SetOwner(c) PROVE Apart'
  BY <1>21 DEF SetOwner, HsAt
<1>22. ASSUME NEW c \in Channels, CountChannel(c) PROVE Apart'
  BY <1>22 DEF CountChannel, HsAt
<1>23. ASSUME NEW c \in Channels, CountFailed(c) PROVE Apart'
  BY <1>23 DEF CountFailed, HsAt
<1>24. ASSUME NEW c \in Channels, ListMultiple(c) PROVE Apart'
  BY <1>24 DEF ListMultiple, HsAt, List
<1>25. ASSUME NEW c \in Channels, SetMultiple(c) PROVE Apart'
  BY <1>25 DEF SetMultiple, HsAt
<1>26. ASSUME NEW c \in Channels, TellMultiple(c) PROVE Apart'
  BY <1>26 DEF TellMultiple, HsAt, ShowStatus, Sweep
<1>27. ASSUME NEW c \in Channels, TakeSlot(c) PROVE Apart'
  BY <1>27 DEF TakeSlot, Fresh, Busy
<1>28. ASSUME NEW c \in Channels, ConnectChannel(c) PROVE Apart'
  BY <1>28 DEF ConnectChannel, StartsAtNext, NextSlot, TryOpen, HsAt
<1>29. ASSUME NEW c \in Channels, ConnectBadAddress(c) PROVE Apart'
  BY <1>29 DEF ConnectBadAddress, StartsAtNext, NextSlot, HsAt
<1>30. ASSUME NEW c \in Channels, ClickClose(c) PROVE Apart'
  BY <1>30 DEF ClickClose, Click
<1>31. ASSUME NEW c \in Channels, IoFails(c) PROVE Apart'
  BY <1>31 DEF IoFails, NoteAt
<1>32. ASSUME NEW c \in Channels, NotifyRemove(c) PROVE Apart'
  BY <1>32 DEF NotifyRemove, NoteAt
<1>33. ASSUME NEW c \in Channels, NotifyStatus(c) PROVE Apart'
  BY <1>33 DEF NotifyStatus, NoteAt
<1>34. ASSUME NEW c \in Channels, NotifyTells(c) PROVE Apart'
  BY <1>34 DEF NotifyTells, NoteAt, ShowStatus, Sweep
<1> QED
  BY <1>1, <1>2, <1>3, <1>4, <1>5, <1>6, <1>7, <1>8, <1>9, <1>10, <1>11, <1>12, <1>13,
     <1>14, <1>15, <1>16, <1>17, <1>18, <1>19, <1>20, <1>21, <1>22, <1>23, <1>24, <1>25,
     <1>26, <1>27, <1>28, <1>29, <1>30, <1>31, <1>32, <1>33, <1>34
     DEF Next, WsDevice, WsChannel

\* Every step keeps in a slot what is not excepted.
LEMMA WsSlotted == WsIInv /\ [Next]_<<deviceVars, wsVars>> => Slotted'
<1> SUFFICES ASSUME WsIInv, [Next]_<<deviceVars, wsVars>> PROVE Slotted'
  OBVIOUS
<1> USE WebSocketAssumption DEF WsIInv, TypeOK, DeviceTypeOK, WsTypeOK, Slotted, InSlot,
            Loose, Lists, SlotIds, Single, OneChannel, deviceVars, wsVars, chVars,
            loopVars, startVars, stopVars, countVars, historyVars
<1>1. CASE UNCHANGED <<deviceVars, wsVars>>
  BY <1>1
<1>2. CASE WsClickConnect
  BY <1>2 DEF WsClickConnect, ClickConnect, Click, StatusChanged
<1>3. CASE StartSingle
  BY <1>3 DEF StartSingle, TryOpen, HsAt
<1>4. CASE StartBadAddress
  BY <1>4 DEF StartBadAddress, StatusChanged
<1>5. CASE StopSingle
  BY <1>5 DEF StopSingle
<1>6. CASE StopSingleEnds
  BY <1>6 DEF StopSingleEnds, StatusChanged
<1>7. CASE StartMultiple
  BY <1>7 DEF StartMultiple
<1>8. CASE StartMultiplePosts
  BY <1>8 DEF StartMultiplePosts
<1>9. CASE StopMultiple
  BY <1>9 DEF StopMultiple, Click, StatusChanged
<1>10. CASE CloseSlot
  <2>1. cut \subseteq cut' /\ open' \subseteq open
    BY <1>10 DEF CloseSlot
  <2> QED
    BY <1>10, <2>1 DEF CloseSlot
<1>11. CASE EraseSlot
  BY <1>11 DEF EraseSlot
<1>12. CASE EmptySlot
  <2>1. stopAt \in SlotIds /\ slot[stopAt] \in Channels
    BY <1>12 DEF EmptySlot, Apart, Closing
  <2>2. \A d \in Channels : InSlot(d) => InSlot(d)' \/ d = slot[stopAt]
    BY <1>12, <2>1 DEF EmptySlot
  <2> QED
    BY <1>12, <2>1, <2>2 DEF EmptySlot, Closing
<1>13. CASE StopResets
  BY <1>13 DEF StopResets
<1>14. CASE StopLoopEnds
  BY <1>14 DEF StopLoopEnds
<1>15. CASE StopLoopTells
  BY <1>15 DEF StopLoopTells, ShowStatus, Sweep
<1>16. ASSUME NEW c \in Channels, Connects(c) \/ Refused(c) PROVE Slotted'
  BY <1>16 DEF Connects, Refused, ConnectStep, HsAt
<1>17. ASSUME NEW c \in Channels, ConnectFails(c) PROVE Slotted'
  BY <1>17 DEF ConnectFails, HsAt
<1>18. ASSUME NEW c \in Channels, SetSingle(c) PROVE Slotted'
  BY <1>18 DEF SetSingle, HsAt
<1>19. ASSUME NEW c \in Channels, TellSingle(c) PROVE Slotted'
  BY <1>19 DEF TellSingle, HsAt, ShowStatus, Sweep
<1>20. ASSUME NEW c \in Channels, ListSingle(c) PROVE Slotted'
  BY <1>20 DEF ListSingle, HsAt, List
<1>21. ASSUME NEW c \in Channels, SetOwner(c) PROVE Slotted'
  BY <1>21 DEF SetOwner, HsAt
<1>22. ASSUME NEW c \in Channels, CountChannel(c) PROVE Slotted'
  BY <1>22 DEF CountChannel, HsAt
<1>23. ASSUME NEW c \in Channels, CountFailed(c) PROVE Slotted'
  BY <1>23 DEF CountFailed, HsAt
<1>24. ASSUME NEW c \in Channels, ListMultiple(c) PROVE Slotted'
  BY <1>24 DEF ListMultiple, HsAt, List
<1>25. ASSUME NEW c \in Channels, SetMultiple(c) PROVE Slotted'
  BY <1>25 DEF SetMultiple, HsAt
<1>26. ASSUME NEW c \in Channels, TellMultiple(c) PROVE Slotted'
  BY <1>26 DEF TellMultiple, HsAt, ShowStatus, Sweep
<1>27. ASSUME NEW c \in Channels, TakeSlot(c) PROVE Slotted'
  <2>1. \A d \in Channels : InSlot(d) => InSlot(d)'
    BY <1>27 DEF TakeSlot
  <2>2. \A d \in Channels : d # c \/ slot[startAt] # NoChannel => (Loose(d) <=> Loose(d)')
    BY <1>27 DEF TakeSlot
  <2>3. InSlot(c)'
    BY <1>27 DEF TakeSlot
  <2> QED
    BY <1>27, <2>1, <2>2, <2>3 DEF TakeSlot
<1>28. ASSUME NEW c \in Channels, ConnectChannel(c) PROVE Slotted'
  <2>1. startAt \in SlotIds /\ ~Single
    BY <1>28 DEF ConnectChannel, StartsAtNext, Apart
  <2>2. c \in open \/ InSlot(c) \/ c \in missed'
    BY <1>28, <2>1 DEF ConnectChannel, BehindStop
  <2> QED
    BY <1>28, <2>2 DEF ConnectChannel, TryOpen, HsAt
<1>29. ASSUME NEW c \in Channels, ConnectBadAddress(c) PROVE Slotted'
  BY <1>29 DEF ConnectBadAddress, StartsAtNext, NextSlot, HsAt
<1>30. ASSUME NEW c \in Channels, ClickClose(c) PROVE Slotted'
  BY <1>30 DEF ClickClose, Click
<1>31. ASSUME NEW c \in Channels, IoFails(c) PROVE Slotted'
  BY <1>31 DEF IoFails, NoteAt
<1>32. ASSUME NEW c \in Channels, NotifyRemove(c) PROVE Slotted'
  BY <1>32 DEF NotifyRemove, NoteAt
<1>33. ASSUME NEW c \in Channels, NotifyStatus(c) PROVE Slotted'
  BY <1>33 DEF NotifyStatus, NoteAt
<1>34. ASSUME NEW c \in Channels, NotifyTells(c) PROVE Slotted'
  BY <1>34 DEF NotifyTells, NoteAt, ShowStatus, Sweep
<1> QED
  BY <1>1, <1>2, <1>3, <1>4, <1>5, <1>6, <1>7, <1>8, <1>9, <1>10, <1>11, <1>12, <1>13,
     <1>14, <1>15, <1>16, <1>17, <1>18, <1>19, <1>20, <1>21, <1>22, <1>23, <1>24, <1>25,
     <1>26, <1>27, <1>28, <1>29, <1>30, <1>31, <1>32, <1>33, <1>34
     DEF Next, WsDevice, WsChannel

\* Every step keeps that what Stop drops is closed or excepted.
LEMMA WsClosing == WsIInv /\ [Next]_<<deviceVars, wsVars>> => Closing'
<1> SUFFICES ASSUME WsIInv, [Next]_<<deviceVars, wsVars>> PROVE Closing'
  OBVIOUS
<1> USE WebSocketAssumption DEF WsIInv, TypeOK, DeviceTypeOK, WsTypeOK, Closing, Loose,
            Lists, SlotIds, Single, OneChannel, deviceVars, wsVars, chVars, loopVars,
            startVars, stopVars, countVars, historyVars
<1>1. CASE UNCHANGED <<deviceVars, wsVars>>
  BY <1>1
<1>2. CASE WsClickConnect
  BY <1>2 DEF WsClickConnect, ClickConnect, Click, StatusChanged
<1>3. CASE StartSingle
  BY <1>3 DEF StartSingle, TryOpen, HsAt
<1>4. CASE StartBadAddress
  BY <1>4 DEF StartBadAddress, StatusChanged
<1>5. CASE StopSingle
  BY <1>5 DEF StopSingle
<1>6. CASE StopSingleEnds
  BY <1>6 DEF StopSingleEnds, StatusChanged
<1>7. CASE StartMultiple
  BY <1>7 DEF StartMultiple
<1>8. CASE StartMultiplePosts
  BY <1>8 DEF StartMultiplePosts
<1>9. CASE StopMultiple
  BY <1>9 DEF StopMultiple, Click, StatusChanged
<1>10. CASE CloseSlot
  <2>1. stopAt \in SlotIds
    BY <1>10 DEF CloseSlot, Apart
  <2>2. CASE slot[stopAt] = NoChannel
    BY <1>10, <2>2 DEF CloseSlot, StopsAtNext
  <2>3. CASE slot[stopAt] # NoChannel
    <3>1. /\ slot[stopAt] \in Channels /\ slot' = slot /\ stopAt' = stopAt /\ stop' = "erase"
          /\ hs' = hs
      BY <1>10, <2>1, <2>3 DEF CloseSlot
    <3>2. slot[stopAt] \notin open'
      BY <1>10, <2>3 DEF CloseSlot
    <3>3. hs[slot[stopAt]] # "none" => slot[stopAt] \in cut'
      BY <1>10, <2>3, <3>1 DEF CloseSlot
    <3> QED
      BY <3>1, <3>2, <3>3
  <2> QED
    BY <2>2, <2>3
<1>11. CASE EraseSlot
  BY <1>11 DEF EraseSlot
<1>12. CASE EmptySlot
  BY <1>12 DEF EmptySlot, StopsAtNext, NextSlot
<1>13. CASE StopResets
  BY <1>13 DEF StopResets
<1>14. CASE StopLoopEnds
  BY <1>14 DEF StopLoopEnds
<1>15. CASE StopLoopTells
  BY <1>15 DEF StopLoopTells, ShowStatus, Sweep
<1>16. ASSUME NEW c \in Channels, Connects(c) \/ Refused(c) PROVE Closing'
  BY <1>16 DEF Connects, Refused, ConnectStep, HsAt
<1>17. ASSUME NEW c \in Channels, ConnectFails(c) PROVE Closing'
  BY <1>17 DEF ConnectFails, HsAt
<1>18. ASSUME NEW c \in Channels, SetSingle(c) PROVE Closing'
  BY <1>18 DEF SetSingle, HsAt
<1>19. ASSUME NEW c \in Channels, TellSingle(c) PROVE Closing'
  BY <1>19 DEF TellSingle, HsAt, ShowStatus, Sweep
<1>20. ASSUME NEW c \in Channels, ListSingle(c) PROVE Closing'
  BY <1>20 DEF ListSingle, HsAt, List
<1>21. ASSUME NEW c \in Channels, SetOwner(c) PROVE Closing'
  BY <1>21 DEF SetOwner, HsAt
<1>22. ASSUME NEW c \in Channels, CountChannel(c) PROVE Closing'
  BY <1>22 DEF CountChannel, HsAt
<1>23. ASSUME NEW c \in Channels, CountFailed(c) PROVE Closing'
  BY <1>23 DEF CountFailed, HsAt
<1>24. ASSUME NEW c \in Channels, ListMultiple(c) PROVE Closing'
  BY <1>24 DEF ListMultiple, HsAt, List
<1>25. ASSUME NEW c \in Channels, SetMultiple(c) PROVE Closing'
  BY <1>25 DEF SetMultiple, HsAt
<1>26. ASSUME NEW c \in Channels, TellMultiple(c) PROVE Closing'
  BY <1>26 DEF TellMultiple, HsAt, ShowStatus, Sweep
<1>27. ASSUME NEW c \in Channels, TakeSlot(c) PROVE Closing'
  <2>1. stop \in {"erase", "empty"} => stopAt \in SlotIds
    BY DEF Apart
  <2> QED
    BY <1>27, <2>1 DEF TakeSlot, Fresh, Busy
<1>28. ASSUME NEW c \in Channels, ConnectChannel(c) PROVE Closing'
  <2>1. startAt \in SlotIds /\ (stop \in {"erase", "empty"} => stopAt \in SlotIds)
    BY <1>28 DEF ConnectChannel, StartsAtNext, Apart
  <2>2. stop \in {"erase", "empty"} /\ slot[stopAt] = c => BehindStop(c)
    BY <1>28, <2>1 DEF BehindStop, Apart
  <2> QED
    BY <1>28, <2>1, <2>2 DEF ConnectChannel, TryOpen, HsAt
<1>29. ASSUME NEW c \in Channels, ConnectBadAddress(c) PROVE Closing'
  BY <1>29 DEF ConnectBadAddress, StartsAtNext, NextSlot, HsAt
<1>30. ASSUME NEW c \in Channels, ClickClose(c) PROVE Closing'
  BY <1>30 DEF ClickClose, Click
<1>31. ASSUME NEW c \in Channels, IoFails(c) PROVE Closing'
  BY <1>31 DEF IoFails, NoteAt
<1>32. ASSUME NEW c \in Channels, NotifyRemove(c) PROVE Closing'
  BY <1>32 DEF NotifyRemove, NoteAt
<1>33. ASSUME NEW c \in Channels, NotifyStatus(c) PROVE Closing'
  BY <1>33 DEF NotifyStatus, NoteAt
<1>34. ASSUME NEW c \in Channels, NotifyTells(c) PROVE Closing'
  BY <1>34 DEF NotifyTells, NoteAt, ShowStatus, Sweep
<1> QED
  BY <1>1, <1>2, <1>3, <1>4, <1>5, <1>6, <1>7, <1>8, <1>9, <1>10, <1>11, <1>12, <1>13,
     <1>14, <1>15, <1>16, <1>17, <1>18, <1>19, <1>20, <1>21, <1>22, <1>23, <1>24, <1>25,
     <1>26, <1>27, <1>28, <1>29, <1>30, <1>31, <1>32, <1>33, <1>34
     DEF Next, WsDevice, WsChannel
-----------------------------------------------------------------------------
(* The single client.                                                       *)

\* Every step keeps the single client's one channel.
LEMMA WsOneChannel == WsIInv /\ [Next]_<<deviceVars, wsVars>> => OneChannel'
<1> SUFFICES ASSUME WsIInv, [Next]_<<deviceVars, wsVars>> PROVE OneChannel'
  OBVIOUS
<1> USE WebSocketAssumption DEF WsIInv, TypeOK, DeviceTypeOK, WsTypeOK, SlotIds, Single,
            OneChannel, MultiplePhases, deviceVars, wsVars, chVars, loopVars, startVars,
            stopVars, countVars, historyVars
<1>1. CASE UNCHANGED <<deviceVars, wsVars>>
  BY <1>1
<1>2. CASE WsClickConnect
  BY <1>2 DEF WsClickConnect, ClickConnect, Click, StatusChanged
<1>3. CASE StartSingle
  BY <1>3 DEF StartSingle, TryOpen, HsAt
<1>4. CASE StartBadAddress
  BY <1>4 DEF StartBadAddress, StatusChanged
<1>5. CASE StopSingle
  BY <1>5 DEF StopSingle
<1>6. CASE StopSingleEnds
  BY <1>6 DEF StopSingleEnds, StatusChanged
<1>7. CASE StartMultiple
  BY <1>7 DEF StartMultiple
<1>8. CASE StartMultiplePosts
  BY <1>8 DEF StartMultiplePosts
<1>9. CASE StopMultiple
  BY <1>9 DEF StopMultiple, Click, StatusChanged
<1>10. CASE CloseSlot
  BY <1>10 DEF CloseSlot, StopsAtNext, NextSlot
<1>11. CASE EraseSlot
  BY <1>11 DEF EraseSlot
<1>12. CASE EmptySlot
  BY <1>12 DEF EmptySlot, StopsAtNext, NextSlot
<1>13. CASE StopResets
  BY <1>13 DEF StopResets
<1>14. CASE StopLoopEnds
  BY <1>14 DEF StopLoopEnds
<1>15. CASE StopLoopTells
  BY <1>15 DEF StopLoopTells, ShowStatus, Sweep
<1>16. ASSUME NEW c \in Channels, Connects(c) \/ Refused(c) PROVE OneChannel'
  BY <1>16 DEF Connects, Refused, ConnectStep, HsAt
<1>17. ASSUME NEW c \in Channels, ConnectFails(c) PROVE OneChannel'
  BY <1>17 DEF ConnectFails, HsAt
<1>18. ASSUME NEW c \in Channels, SetSingle(c) PROVE OneChannel'
  BY <1>18 DEF SetSingle, HsAt
<1>19. ASSUME NEW c \in Channels, TellSingle(c) PROVE OneChannel'
  BY <1>19 DEF TellSingle, HsAt, ShowStatus, Sweep
<1>20. ASSUME NEW c \in Channels, ListSingle(c) PROVE OneChannel'
  BY <1>20 DEF ListSingle, HsAt, List
<1>21. ASSUME NEW c \in Channels, SetOwner(c) PROVE OneChannel'
  BY <1>21 DEF SetOwner, HsAt
<1>22. ASSUME NEW c \in Channels, CountChannel(c) PROVE OneChannel'
  BY <1>22 DEF CountChannel, HsAt
<1>23. ASSUME NEW c \in Channels, CountFailed(c) PROVE OneChannel'
  BY <1>23 DEF CountFailed, HsAt
<1>24. ASSUME NEW c \in Channels, ListMultiple(c) PROVE OneChannel'
  BY <1>24 DEF ListMultiple, HsAt, List
<1>25. ASSUME NEW c \in Channels, SetMultiple(c) PROVE OneChannel'
  BY <1>25 DEF SetMultiple, HsAt
<1>26. ASSUME NEW c \in Channels, TellMultiple(c) PROVE OneChannel'
  BY <1>26 DEF TellMultiple, HsAt, ShowStatus, Sweep
<1>27. ASSUME NEW c \in Channels, TakeSlot(c) PROVE OneChannel'
  BY <1>27 DEF TakeSlot, Fresh, Busy
<1>28. ASSUME NEW c \in Channels, ConnectChannel(c) PROVE OneChannel'
  BY <1>28 DEF ConnectChannel, StartsAtNext, NextSlot, TryOpen, HsAt
<1>29. ASSUME NEW c \in Channels, ConnectBadAddress(c) PROVE OneChannel'
  BY <1>29 DEF ConnectBadAddress, StartsAtNext, NextSlot, HsAt
<1>30. ASSUME NEW c \in Channels, ClickClose(c) PROVE OneChannel'
  BY <1>30 DEF ClickClose, Click
<1>31. ASSUME NEW c \in Channels, IoFails(c) PROVE OneChannel'
  BY <1>31 DEF IoFails, NoteAt
<1>32. ASSUME NEW c \in Channels, NotifyRemove(c) PROVE OneChannel'
  BY <1>32 DEF NotifyRemove, NoteAt
<1>33. ASSUME NEW c \in Channels, NotifyStatus(c) PROVE OneChannel'
  BY <1>33 DEF NotifyStatus, NoteAt
<1>34. ASSUME NEW c \in Channels, NotifyTells(c) PROVE OneChannel'
  BY <1>34 DEF NotifyTells, NoteAt, ShowStatus, Sweep
<1> QED
  BY <1>1, <1>2, <1>3, <1>4, <1>5, <1>6, <1>7, <1>8, <1>9, <1>10, <1>11, <1>12, <1>13,
     <1>14, <1>15, <1>16, <1>17, <1>18, <1>19, <1>20, <1>21, <1>22, <1>23, <1>24, <1>25,
     <1>26, <1>27, <1>28, <1>29, <1>30, <1>31, <1>32, <1>33, <1>34
     DEF Next, WsDevice, WsChannel

\* Every step keeps that a stop takes effect.
LEMMA WsStops == WsIInv /\ [Next]_<<deviceVars, wsVars>> => StopHasEffect'
<1> SUFFICES ASSUME WsIInv, [Next]_<<deviceVars, wsVars>> PROVE StopHasEffect'
  OBVIOUS
<1> USE WebSocketAssumption DEF WsIInv, TypeOK, DeviceTypeOK, WsTypeOK, SlotIds, Single,
            OneChannel, MultiplePhases, StopHasEffect, Connecting, deviceVars, wsVars,
            chVars, loopVars, startVars, stopVars, countVars, historyVars
<1>1. CASE UNCHANGED <<deviceVars, wsVars>>
  BY <1>1
<1>2. CASE WsClickConnect
  BY <1>2 DEF WsClickConnect, ClickConnect, Click, StatusChanged
<1>3. CASE StartSingle
  BY <1>3 DEF StartSingle, TryOpen, HsAt
<1>4. CASE StartBadAddress
  BY <1>4 DEF StartBadAddress, StatusChanged
<1>5. CASE StopSingle
  BY <1>5 DEF StopSingle
<1>6. CASE StopSingleEnds
  BY <1>6 DEF StopSingleEnds, StatusChanged
<1>7. CASE StartMultiple
  BY <1>7 DEF StartMultiple
<1>8. CASE StartMultiplePosts
  BY <1>8 DEF StartMultiplePosts
<1>9. CASE StopMultiple
  BY <1>9 DEF StopMultiple, Click, StatusChanged
<1>10. CASE CloseSlot
  BY <1>10 DEF CloseSlot, StopsAtNext, NextSlot
<1>11. CASE EraseSlot
  BY <1>11 DEF EraseSlot
<1>12. CASE EmptySlot
  BY <1>12 DEF EmptySlot, StopsAtNext, NextSlot
<1>13. CASE StopResets
  BY <1>13 DEF StopResets
<1>14. CASE StopLoopEnds
  BY <1>14 DEF StopLoopEnds
<1>15. CASE StopLoopTells
  BY <1>15 DEF StopLoopTells, ShowStatus, Sweep
<1>16. ASSUME NEW c \in Channels, Connects(c) \/ Refused(c) PROVE StopHasEffect'
  BY <1>16 DEF Connects, Refused, ConnectStep, HsAt
<1>17. ASSUME NEW c \in Channels, ConnectFails(c) PROVE StopHasEffect'
  BY <1>17 DEF ConnectFails, HsAt
<1>18. ASSUME NEW c \in Channels, SetSingle(c) PROVE StopHasEffect'
  BY <1>18 DEF SetSingle, HsAt
<1>19. ASSUME NEW c \in Channels, TellSingle(c) PROVE StopHasEffect'
  BY <1>19 DEF TellSingle, HsAt, ShowStatus, Sweep
<1>20. ASSUME NEW c \in Channels, ListSingle(c) PROVE StopHasEffect'
  BY <1>20 DEF ListSingle, HsAt, List
<1>21. ASSUME NEW c \in Channels, SetOwner(c) PROVE StopHasEffect'
  BY <1>21 DEF SetOwner, HsAt
<1>22. ASSUME NEW c \in Channels, CountChannel(c) PROVE StopHasEffect'
  BY <1>22 DEF CountChannel, HsAt
<1>23. ASSUME NEW c \in Channels, CountFailed(c) PROVE StopHasEffect'
  BY <1>23 DEF CountFailed, HsAt
<1>24. ASSUME NEW c \in Channels, ListMultiple(c) PROVE StopHasEffect'
  BY <1>24 DEF ListMultiple, HsAt, List
<1>25. ASSUME NEW c \in Channels, SetMultiple(c) PROVE StopHasEffect'
  BY <1>25 DEF SetMultiple, HsAt
<1>26. ASSUME NEW c \in Channels, TellMultiple(c) PROVE StopHasEffect'
  BY <1>26 DEF TellMultiple, HsAt, ShowStatus, Sweep
<1>27. ASSUME NEW c \in Channels, TakeSlot(c) PROVE StopHasEffect'
  BY <1>27 DEF TakeSlot, Fresh, Busy
<1>28. ASSUME NEW c \in Channels, ConnectChannel(c) PROVE StopHasEffect'
  BY <1>28 DEF ConnectChannel, StartsAtNext, NextSlot, TryOpen, HsAt
<1>29. ASSUME NEW c \in Channels, ConnectBadAddress(c) PROVE StopHasEffect'
  BY <1>29 DEF ConnectBadAddress, StartsAtNext, NextSlot, HsAt
<1>30. ASSUME NEW c \in Channels, ClickClose(c) PROVE StopHasEffect'
  BY <1>30 DEF ClickClose, Click
<1>31. ASSUME NEW c \in Channels, IoFails(c) PROVE StopHasEffect'
  BY <1>31 DEF IoFails, NoteAt
<1>32. ASSUME NEW c \in Channels, NotifyRemove(c) PROVE StopHasEffect'
  BY <1>32 DEF NotifyRemove, NoteAt
<1>33. ASSUME NEW c \in Channels, NotifyStatus(c) PROVE StopHasEffect'
  BY <1>33 DEF NotifyStatus, NoteAt
<1>34. ASSUME NEW c \in Channels, NotifyTells(c) PROVE StopHasEffect'
  BY <1>34 DEF NotifyTells, NoteAt, ShowStatus, Sweep
<1> QED
  BY <1>1, <1>2, <1>3, <1>4, <1>5, <1>6, <1>7, <1>8, <1>9, <1>10, <1>11, <1>12, <1>13,
     <1>14, <1>15, <1>16, <1>17, <1>18, <1>19, <1>20, <1>21, <1>22, <1>23, <1>24, <1>25,
     <1>26, <1>27, <1>28, <1>29, <1>30, <1>31, <1>32, <1>33, <1>34
     DEF Next, WsDevice, WsChannel
-----------------------------------------------------------------------------
(* The counters of the multiple client.                                     *)

\* While Connecting, every slot passed stays counted or under way.
LEMMA WsCounted ==
  WsIInv /\ [Next]_<<deviceVars, wsVars>> => (IsFiniteSet(Uncounted) /\ Counted)'
<1> SUFFICES ASSUME WsIInv, [Next]_<<deviceVars, wsVars>>
             PROVE  (IsFiniteSet(Uncounted) /\ Counted)'
  OBVIOUS
<1> USE WebSocketAssumption DEF WsIInv, TypeOK, DeviceTypeOK, WsTypeOK, SlotIds, Single,
            OneChannel, deviceVars, wsVars, chVars, loopVars, startVars, stopVars,
            countVars, historyVars
<1>1. CASE UNCHANGED <<deviceVars, wsVars>>
  <2>1. Uncounted' = Uncounted
    BY <1>1 DEF Uncounted, Connecting, MultiplePhases
  <2> QED
    BY <1>1, <2>1 DEF Counted, Passed, Reporting
<1>2. CASE WsClickConnect
  <2>1. Uncounted' = Uncounted
    BY <1>2
       DEF WsClickConnect, ClickConnect, Click, StatusChanged, Uncounted, Connecting,
           MultiplePhases
  <2> QED
    BY <1>2, <2>1
       DEF WsClickConnect, ClickConnect, Click, StatusChanged, Counted, Passed, Reporting
<1>3. CASE StartSingle
  <2>1. Uncounted' = Uncounted \/ Uncounted' = Uncounted \cup {slot[1]}
    BY <1>3 DEF StartSingle, OneChannel, TryOpen, HsAt, Uncounted, Connecting
  <2>2. IsFiniteSet(Uncounted \cup {slot[1]})
    BY FS_AddElement
  <2>3. IsFiniteSet(Uncounted)'
    BY <2>1, <2>2
  <2> QED
    BY <1>3, <2>3 DEF StartSingle, Counted
<1>4. CASE StartBadAddress
  <2>1. Uncounted' = Uncounted
    BY <1>4 DEF StartBadAddress, StatusChanged, Uncounted, Connecting, MultiplePhases
  <2> QED
    BY <1>4, <2>1 DEF StartBadAddress, StatusChanged, Counted, Passed, Reporting
<1>5. CASE StopSingle
  <2>1. Uncounted' = Uncounted
    BY <1>5 DEF StopSingle, Uncounted, Connecting, MultiplePhases
  <2> QED
    BY <1>5, <2>1 DEF StopSingle, Counted, Passed, Reporting
<1>6. CASE StopSingleEnds
  <2>1. Uncounted' = Uncounted
    BY <1>6 DEF StopSingleEnds, StatusChanged, Uncounted, Connecting, MultiplePhases
  <2> QED
    BY <1>6, <2>1 DEF StopSingleEnds, StatusChanged, Counted, Passed, Reporting
<1>7. CASE StartMultiple
  <2>1. Uncounted' = Uncounted
    BY <1>7 DEF StartMultiple, Uncounted, Connecting, MultiplePhases
  <2> QED
    BY <1>7, <2>1 DEF StartMultiple, Counted, Passed, Reporting
<1>8. CASE StartMultiplePosts
  <2>1. Uncounted' = Uncounted /\ Cardinality(Uncounted) \in Nat
    BY <1>8, FS_CardinalityType DEF StartMultiplePosts, Uncounted
  <2> QED
    BY <1>8, <2>1 DEF StartMultiplePosts, Counted, Passed, Reporting
<1>9. CASE StopMultiple
  <2>1. Uncounted' = Uncounted
    BY <1>9 DEF StopMultiple, Click, StatusChanged, Uncounted, Connecting, MultiplePhases
  <2> QED
    BY <1>9, <2>1 DEF StopMultiple, Click, StatusChanged, Counted, Passed, Reporting
<1>10. CASE CloseSlot
  <2>1. Uncounted' = Uncounted
    BY <1>10 DEF CloseSlot, StopsAtNext, NextSlot, Uncounted, Connecting, MultiplePhases
  <2> QED
    BY <1>10, <2>1 DEF CloseSlot, StopsAtNext, NextSlot, Counted, Passed, Reporting
<1>11. CASE EraseSlot
  <2>1. Uncounted' = Uncounted
    BY <1>11 DEF EraseSlot, Uncounted, Connecting, MultiplePhases
  <2> QED
    BY <1>11, <2>1 DEF EraseSlot, Counted, Passed, Reporting
<1>12. CASE EmptySlot
  <2>1. Uncounted' = Uncounted
    BY <1>12 DEF EmptySlot, StopsAtNext, NextSlot, Uncounted, Connecting, MultiplePhases
  <2> QED
    BY <1>12, <2>1 DEF EmptySlot, StopsAtNext, NextSlot, Counted, Passed, Reporting
<1>13. CASE StopResets
  <2>1. Uncounted' = Uncounted
    BY <1>13 DEF StopResets, Uncounted, Connecting, MultiplePhases
  <2> QED
    BY <1>13, <2>1 DEF StopResets, Counted, Passed, Reporting
<1>14. CASE StopLoopEnds
  <2>1. Uncounted' = Uncounted
    BY <1>14 DEF StopLoopEnds, Uncounted, Connecting, MultiplePhases
  <2> QED
    BY <1>14, <2>1 DEF StopLoopEnds, Counted, Passed, Reporting
<1>15. CASE StopLoopTells
  <2>1. Uncounted' = Uncounted
    BY <1>15 DEF StopLoopTells, ShowStatus, Sweep, Uncounted, Connecting, MultiplePhases
  <2> QED
    BY <1>15, <2>1 DEF StopLoopTells, ShowStatus, Sweep, Counted, Passed, Reporting
<1>16. ASSUME NEW c \in Channels, Connects(c) \/ Refused(c)
       PROVE  (IsFiniteSet(Uncounted) /\ Counted)'
  <2>1. Uncounted' = Uncounted
    BY <1>16
       DEF Connects, Refused, ConnectStep, HsAt, Uncounted, Connecting, MultiplePhases
  <2> QED
    BY <1>16, <2>1 DEF Connects, Refused, ConnectStep, HsAt, Counted, Passed, Reporting
<1>17. ASSUME NEW c \in Channels, ConnectFails(c)
       PROVE  (IsFiniteSet(Uncounted) /\ Counted)'
  <2>1. Uncounted' = Uncounted
    BY <1>17 DEF ConnectFails, HsAt, Uncounted, Connecting, MultiplePhases
  <2> QED
    BY <1>17, <2>1 DEF ConnectFails, HsAt, Counted, Passed, Reporting
<1>18. ASSUME NEW c \in Channels, SetSingle(c) PROVE (IsFiniteSet(Uncounted) /\ Counted)'
  <2>1. Uncounted' = Uncounted \ {c}
    BY <1>18 DEF SetSingle, HsAt, Uncounted, Connecting
  <2>2. IsFiniteSet(Uncounted)'
    BY <2>1, FS_RemoveElement
  <2> QED
    BY <1>18, <2>2 DEF SetSingle, Counted
<1>19. ASSUME NEW c \in Channels, TellSingle(c) PROVE (IsFiniteSet(Uncounted) /\ Counted)'
  <2>1. Uncounted' = Uncounted
    BY <1>19
       DEF TellSingle, HsAt, ShowStatus, Sweep, Uncounted, Connecting, MultiplePhases
  <2> QED
    BY <1>19, <2>1 DEF TellSingle, HsAt, ShowStatus, Sweep, Counted, Passed, Reporting
<1>20. ASSUME NEW c \in Channels, ListSingle(c) PROVE (IsFiniteSet(Uncounted) /\ Counted)'
  <2>1. Uncounted' = Uncounted
    BY <1>20 DEF ListSingle, HsAt, List, Uncounted, Connecting, MultiplePhases
  <2> QED
    BY <1>20, <2>1 DEF ListSingle, HsAt, List, Counted, Passed, Reporting
<1>21. ASSUME NEW c \in Channels, SetOwner(c) PROVE (IsFiniteSet(Uncounted) /\ Counted)'
  <2>1. Uncounted' = Uncounted
    BY <1>21 DEF SetOwner, HsAt, Uncounted, Connecting, MultiplePhases
  <2> QED
    BY <1>21, <2>1 DEF SetOwner, HsAt, Counted, Passed, Reporting
<1>22. ASSUME NEW c \in Channels, CountChannel(c)
       PROVE  (IsFiniteSet(Uncounted) /\ Counted)'
  <2>1. Uncounted' = Uncounted \ {c} /\ c \in Uncounted /\ connected' = connected + 1
    BY <1>22 DEF CountChannel, HsAt, Uncounted, Connecting
  <2>2. /\ IsFiniteSet(Uncounted') /\ Cardinality(Uncounted) \in Nat
        /\ Cardinality(Uncounted') = Cardinality(Uncounted) - 1
    BY <2>1, FS_RemoveElement, FS_CardinalityType
  <2>3. connected' >= Slots => \E d \in Channels : hs'[d] \in Reporting
    BY <1>22, <2>1 DEF CountChannel, HsAt, Reporting
  <2>4. Passed' = Passed /\ Passed \in Nat
    BY <1>22 DEF CountChannel, Passed
  <2> QED
    BY <1>22, <2>1, <2>2, <2>3, <2>4 DEF CountChannel, Counted
<1>23. ASSUME NEW c \in Channels, CountFailed(c)
       PROVE  (IsFiniteSet(Uncounted) /\ Counted)'
  <2>1. Uncounted' = Uncounted
    BY <1>23 DEF CountFailed, HsAt, Uncounted, Connecting, MultiplePhases
  <2> QED
    BY <1>23, <2>1 DEF CountFailed, HsAt, Counted, Passed, Reporting
<1>24. ASSUME NEW c \in Channels, ListMultiple(c)
       PROVE  (IsFiniteSet(Uncounted) /\ Counted)'
  <2>1. Uncounted' = Uncounted
    BY <1>24 DEF ListMultiple, HsAt, List, Uncounted, Connecting, MultiplePhases
  <2> QED
    BY <1>24, <2>1 DEF ListMultiple, HsAt, List, Counted, Passed, Reporting
<1>25. ASSUME NEW c \in Channels, SetMultiple(c)
       PROVE  (IsFiniteSet(Uncounted) /\ Counted)'
  <2>1. Uncounted' = Uncounted
    BY <1>25 DEF SetMultiple, HsAt, Uncounted, Connecting, MultiplePhases
  <2> QED
    BY <1>25, <2>1 DEF SetMultiple, HsAt, Counted, Passed, Reporting
<1>26. ASSUME NEW c \in Channels, TellMultiple(c)
       PROVE  (IsFiniteSet(Uncounted) /\ Counted)'
  <2>1. Uncounted' = Uncounted
    BY <1>26
       DEF TellMultiple, HsAt, ShowStatus, Sweep, Uncounted, Connecting, MultiplePhases
  <2> QED
    BY <1>26, <2>1 DEF TellMultiple, HsAt, ShowStatus, Sweep, Counted, Passed, Reporting
<1>27. ASSUME NEW c \in Channels, TakeSlot(c) PROVE (IsFiniteSet(Uncounted) /\ Counted)'
  <2>1. Uncounted' = Uncounted
    BY <1>27 DEF TakeSlot, Fresh, Busy, Uncounted, Connecting, MultiplePhases
  <2> QED
    BY <1>27, <2>1 DEF TakeSlot, Fresh, Busy, Counted, Passed, Reporting
<1>28. ASSUME NEW c \in Channels, ConnectChannel(c)
       PROVE  (IsFiniteSet(Uncounted) /\ Counted)'
  <2>1. /\ startAt \in SlotIds /\ startAt' = NextSlot(startAt)
        /\ Passed \in Nat /\ Passed' = Passed + 1
    BY <1>28 DEF ConnectChannel, StartsAtNext, NextSlot, Passed, Apart
  <2>2. Cardinality(Uncounted) \in Nat
    BY FS_CardinalityType
  <2>3. \A d \in Channels : hs[d] \in Reporting => hs'[d] = hs[d]
    BY <1>28 DEF ConnectChannel, TryOpen, HsAt, Reporting
  <2>4. CASE c \in open
    <3>1. Uncounted' = Uncounted /\ refused'
      BY <1>28, <2>4 DEF ConnectChannel, TryOpen, Uncounted
    <3> QED
      BY <1>28, <3>1, <2>3 DEF ConnectChannel, Counted
  <2>5. CASE c \notin open
    <3>1. Uncounted' = Uncounted \cup {c} /\ c \notin Uncounted /\ refused' = refused
      BY <1>28, <2>5 DEF ConnectChannel, TryOpen, HsAt, Uncounted, Connecting
    <3>2. /\ IsFiniteSet(Uncounted')
          /\ Cardinality(Uncounted') = Cardinality(Uncounted) + 1
      BY <3>1, FS_AddElement
    <3> QED
      BY <1>28, <2>1, <2>2, <2>3, <3>1, <3>2 DEF ConnectChannel, Counted
  <2> QED
    BY <2>4, <2>5
<1>29. ASSUME NEW c \in Channels, ConnectBadAddress(c)
       PROVE  (IsFiniteSet(Uncounted) /\ Counted)'
  <2>1. /\ startAt \in SlotIds /\ startAt' = NextSlot(startAt)
        /\ Passed \in Nat /\ Passed' = Passed + 1
    BY <1>29 DEF ConnectBadAddress, StartsAtNext, NextSlot, Passed, Apart
  <2>2. Cardinality(Uncounted) \in Nat
    BY FS_CardinalityType
  <2>3. \A d \in Channels : hs[d] \in Reporting => hs'[d] = hs[d]
    BY <1>29 DEF ConnectBadAddress, HsAt, Reporting
  <2>4. Uncounted' = Uncounted \cup {c} /\ c \notin Uncounted
    BY <1>29 DEF ConnectBadAddress, HsAt, Uncounted, Connecting
  <2>5. /\ IsFiniteSet(Uncounted')
        /\ Cardinality(Uncounted') = Cardinality(Uncounted) + 1
    BY <2>4, FS_AddElement
  <2> QED
    BY <1>29, <2>1, <2>2, <2>3, <2>5 DEF ConnectBadAddress, Counted
<1>30. ASSUME NEW c \in Channels, ClickClose(c) PROVE (IsFiniteSet(Uncounted) /\ Counted)'
  <2>1. Uncounted' = Uncounted
    BY <1>30 DEF ClickClose, Click, Uncounted, Connecting, MultiplePhases
  <2> QED
    BY <1>30, <2>1 DEF ClickClose, Click, Counted, Passed, Reporting
<1>31. ASSUME NEW c \in Channels, IoFails(c) PROVE (IsFiniteSet(Uncounted) /\ Counted)'
  <2>1. Uncounted' = Uncounted
    BY <1>31 DEF IoFails, NoteAt, Uncounted, Connecting, MultiplePhases
  <2> QED
    BY <1>31, <2>1 DEF IoFails, NoteAt, Counted, Passed, Reporting
<1>32. ASSUME NEW c \in Channels, NotifyRemove(c)
       PROVE  (IsFiniteSet(Uncounted) /\ Counted)'
  <2>1. Uncounted' = Uncounted
    BY <1>32 DEF NotifyRemove, NoteAt, Uncounted, Connecting, MultiplePhases
  <2> QED
    BY <1>32, <2>1 DEF NotifyRemove, NoteAt, Counted, Passed, Reporting
<1>33. ASSUME NEW c \in Channels, NotifyStatus(c)
       PROVE  (IsFiniteSet(Uncounted) /\ Counted)'
  <2>1. Uncounted' = Uncounted
    BY <1>33 DEF NotifyStatus, NoteAt, Uncounted, Connecting, MultiplePhases
  <2> QED
    BY <1>33, <2>1 DEF NotifyStatus, NoteAt, Counted, Passed, Reporting
<1>34. ASSUME NEW c \in Channels, NotifyTells(c)
       PROVE  (IsFiniteSet(Uncounted) /\ Counted)'
  <2>1. Uncounted' = Uncounted
    BY <1>34
       DEF NotifyTells, NoteAt, ShowStatus, Sweep, Uncounted, Connecting, MultiplePhases
  <2> QED
    BY <1>34, <2>1 DEF NotifyTells, NoteAt, ShowStatus, Sweep, Counted, Passed, Reporting
<1> QED
  BY <1>1, <1>2, <1>3, <1>4, <1>5, <1>6, <1>7, <1>8, <1>9, <1>10, <1>11, <1>12, <1>13,
     <1>14, <1>15, <1>16, <1>17, <1>18, <1>19, <1>20, <1>21, <1>22, <1>23, <1>24, <1>25,
     <1>26, <1>27, <1>28, <1>29, <1>30, <1>31, <1>32, <1>33, <1>34
     DEF Next, WsDevice, WsChannel
-----------------------------------------------------------------------------
(* The theorems.                                                            *)

\* A client that was never started satisfies the invariant.
LEMMA WsStart == Init => WsIInv
<1> SUFFICES ASSUME Init PROVE WsIInv
  OBVIOUS
<1> USE WebSocketAssumption DEF Init, DeviceInit, WsInit
<1>1. DeviceTypeOK
  BY DEF DeviceTypeOK, Statuses
<1>2. WsTypeOK
  <2>1. hs \in [Channels -> HsPhases] /\ note \in [Channels -> NotePhases]
    BY DEF HsPhases, NotePhases
  <2>2. /\ connected \in Nat /\ failed \in Nat /\ clicks \in 0..Clicks
        /\ startAt \in 0..Slots /\ stopAt \in 0..Slots
    OBVIOUS
  <2> QED
    BY <2>1, <2>2 DEF WsTypeOK
<1>3. Slotted /\ Closing /\ OneChannel /\ StopHasEffect
  BY DEF Slotted, Lists, Closing, OneChannel, StopHasEffect, Single
<1>4. Apart
  BY DEF Apart, SlotIds
<1>5. IsFiniteSet(Uncounted)
  <2>1. Uncounted = {}
    BY DEF Uncounted, Connecting
  <2> QED
    BY <2>1, FS_EmptySet
<1>6. Counted
  BY DEF Counted
<1> QED
  BY <1>1, <1>2, <1>3, <1>4, <1>5, <1>6 DEF WsIInv, TypeOK

\* However connecting, stopping and failing interleave, the invariant holds.
THEOREM WsInvariant == Spec => []WsIInv
<1>1. Init => WsIInv
  BY WsStart
<1>2. WsIInv /\ [Next]_<<deviceVars, wsVars>> => WsIInv'
  BY WsTypes, WsApart, WsSlotted, WsClosing, WsOneChannel, WsStops, WsCounted DEF WsIInv
<1> QED
  BY <1>1, <1>2, PTL DEF Spec

\* The variables of both clients keep their types: no loop leaves the slots, and
\* the counters are never negative.
THEOREM WebSocketTyped == Spec => []TypeOK
<1>1. WsIInv => TypeOK
  BY DEF WsIInv
<1> QED
  BY <1>1, WsInvariant, PTL

\* Stop of a single client that is not Disconnected finds its channel open, or a
\* thread is about to decide the status (Websocket.cpp:1114).
THEOREM SingleCanBeStopped == Spec => []CanBeStopped
<1>1. WsIInv => CanBeStopped
  BY DEF WsIInv, StopHasEffect, CanBeStopped, Busy, Connecting
<1> QED
  BY <1>1, WsInvariant, PTL

\* Once the loops of Start and Stop are over and no handler of a channel is under
\* way, a multiple client is not Connecting any more: either each slot has
\* been counted, and the last to be counted reports, or one is still uncounted;
\* except after a Connect was ignored (Websocket.cpp:1210).
THEOREM MultipleDecides == Spec => []ConnectingIsDecided
<1>1. WsIInv => ConnectingIsDecided
  <2> SUFFICES ASSUME WsIInv, ~Single, status = "Connecting", ui = "idle",
                      startAt = 0, stop \in {"none", "tell"}, ~refused
               PROVE  \E c \in Channels : hs[c] # "none"
    BY DEF ConnectingIsDecided
  <2>1. CASE connected >= Slots
    BY <2>1 DEF WsIInv, Counted, Reporting
  <2>2. CASE ~(connected >= Slots)
    <3>1. Slots <= connected + Cardinality(Uncounted) /\ connected \in Nat /\ Slots \in Nat
      BY WebSocketAssumption DEF WsIInv, Counted, Passed, TypeOK, WsTypeOK
    <3>2. Cardinality(Uncounted) # 0
      BY <2>2, <3>1
    <3>3. Uncounted # {}
      BY <3>2, FS_EmptySet
    <3> QED
      BY <3>3 DEF Uncounted, Connecting
  <2> QED
    BY <2>1, <2>2
<1> QED
  BY <1>1, WsInvariant, PTL

\* Once Stop has emptied the slots no channel is open, and none is listed but
\* those whose connect was under way; what the loop of Start opened in between the
\* steps of Stop, or after them, is all that is left (Websocket.cpp:1199, 1252).
THEOREM MultipleStops == Spec => []NothingSurvivesStop
<1>1. WsIInv => NothingSurvivesStop
  <2> SUFFICES ASSUME WsIInv, \A i \in SlotIds : slot[i] = NoChannel
               PROVE  open \subseteq missed /\ listed \subseteq cut \cup missed
    BY DEF NothingSurvivesStop
  <2>1. \A c \in Channels : ~InSlot(c)
    BY WebSocketAssumption DEF InSlot
  <2> QED
    BY <2>1 DEF WsIInv, Slotted, Loose, TypeOK, DeviceTypeOK, WsTypeOK
<1> QED
  BY <1>1, WsInvariant, PTL
===============================================================================
