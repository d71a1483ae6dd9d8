-------------------------------- MODULE Device --------------------------------
(***************************************************************************)
(* What every communication device shares: the status of                   *)
(* CommunicationDevice (IAsyncStream.h) and the part of the dialog that     *)
(* starts and stops it and lists its channels (NetDebuggerDlg.cpp).         *)
(*                                                                         *)
(* The dialog has one device at a time, of the class chosen in a combo box  *)
(* that is enabled only while the device is disconnected.  Start, Stop and  *)
(* Close run on the UI thread; a call from an io_context thread into the    *)
(* window goes through SendMessage and waits until the UI thread is idle.   *)
(***************************************************************************)
EXTENDS Naturals

CONSTANTS
  Classes,   \* the device classes of this run
  Channels   \* channel objects the device may create

VARIABLES
  class,     \* the class of m_CDevice
  status,    \* CommunicationDevice::m_Status
  button,    \* IDC_BUTTON_CONNECT is enabled
  ui,        \* where the UI thread is inside Start or Stop
  listed     \* the channels in m_ChannelsMap

deviceVars == <<class, status, button, ui, listed>>

Statuses == {"Disconnected", "Connecting", "Connected", "Disconnecting"}

DeviceTypeOK ==
  /\ class \in Classes
  /\ status \in Statuses
  /\ button \in BOOLEAN
  /\ ui \in {"idle", "start", "listening", "second", "third", "stop", "closed"}
  /\ listed \subseteq Channels

DeviceInit ==
  /\ class \in Classes
  /\ status = "Disconnected"
  /\ button = TRUE
  /\ ui = "idle"
  /\ listed = {}

\* StatusChanged(s) on the UI thread: the status, and the window at once.
StatusChanged(s) ==
  /\ status' = s
  /\ button' = (s \in {"Connected", "Disconnected"})

\* OnBnClickedButtonConnect while stopped: Start up to StatusChanged(Connecting).
ClickConnect ==
  /\ ui = "idle" /\ button
  /\ status = "Disconnected"
  /\ StatusChanged("Connecting")
  /\ ui' = "start"
  /\ UNCHANGED <<class, listed>>
===============================================================================
