--------------------------- MODULE DeviceProperties ---------------------------
(***************************************************************************)
(* The settings of the devices: the table of EnumProperties of each class   *)
(* with the setters it binds (IAsyncStream.h, and the files of the devices), *)
(* the property panel (CDPropertyGridCtrl.cpp), and the dialog that passes  *)
(* an edited value to the device and to the profile, and loads the profile  *)
(* when it makes the device (NetDebuggerDlg.cpp).                           *)
(*                                                                         *)
(* Settings do not depend on each other: a behaviour follows one of them.   *)
(* A value is the text the user types: a number stands for its digits,      *)
(* Empty for no text, Word for one that is not a number.                    *)
(***************************************************************************)
EXTENDS Naturals, Sequences, FiniteSets

CONSTANTS
  Numbers,               \* numbers the user types.  Bound: below 2^31
  Empty, Word,           \* other texts
  BINARY, TEXT           \* the values of Mode

ASSUME NumbersAssumption ==
  /\ {0, 1} \subseteq Numbers      \* the digits the getters write
  /\ \A n \in Numbers : n \in Nat /\ n % 65536 \in Numbers

VARIABLES
  class,     \* the class of m_CDevice
  property,  \* the setting followed
  field,     \* what the device has stored of it
  device,    \* the program runs, the panel shows the device
  started,   \* the device is started, its port open
  shown,     \* the value the panel shows
  dropped,   \* its drop-down list was opened: m_LastOptions is filled
  saved,     \* the value in the profile
  due,       \* OnDevicePropertyChanged is posted: the panel will be brought up to date
  refused,   \* history: the setter threw at the value that the panel shows
  unsaved    \* history: a setter threw when it had stored its value
historyOfSetters == <<refused, unsaved>>
propertyVars == <<class, property, field, device, started, shown, dropped, saved, due,
                  historyOfSetters>>

Texts == Numbers \cup {Empty, Word, BINARY, TEXT}

-----------------------------------------------------------------------------
(* The tables.                                                              *)

Flags   == {"readonly", "before", "always"}     \* PropertyChangeFlags in use
Editors == {"text", "options", "enum"}          \* typed; also a list; only a list

\* A PropertyDescription with its setter.
P(name, flag, setter, editor) ==
  [name |-> <<name>>, flag |-> flag, setter |-> setter, editor |-> editor]

\* A PropertyGroupDescription puts its name before its children's.
Group(name, table) == {[p EXCEPT !.name = <<name>> \o @] : p \in table}

Address(name) == P(name, "before", "text", "options")
Host(name)    == P(name, "before", "text", "text")
Port(name)    == P(name, "before", "word", "text")
Flag(name)    == P(name, "before", "flag", "enum")
Protocol      == P("Protocol", "readonly", "none", "text")

TCPServerTable ==
  {Address("ListenAddress"), Port("ListenPort"), Flag("ReuseAddress"), Flag("Keepalive"), Protocol}

TCPClientTable == {Host("Host"), Port("RemotePort"), Flag("Keepalive"), Protocol}

Counts == {Port("CanonsCount"), P("ConnectedConuter", "readonly", "none", "text")}

TCPMultipleTable == TCPClientTable \cup Counts

TCPForwardTable ==
  Group("Local", {Address("ListenAddress"), Port("ListenPort")})
    \cup Group("Remote", {Host("RemoteHost"), Port("RemotePort")})
    \cup {Flag("ReuseAddress"), Flag("Keepalive")}

UDPBasicTable ==
  {Address("LocalAddress"), Port("LocalPort"), Host("RemoteAddress"), Port("RemotePort"),
   Flag("ReuseAddress"), Protocol}

UDPClientTable ==
  {Host("RemoteAddress"), Port("RemotePort"), Flag("Broadcast"), Flag("ReuseAddress"), Protocol}

WebModes == {P("Mode", "always", "mode", "enum"), P("Masked", "always", "flag", "enum")}

AdditionalHeaders ==
  {"AdditionalHeaders[0]", "AdditionalHeaders[1]", "AdditionalHeaders[2]",
   "AdditionalHeaders[3]", "AdditionalHeaders[4]", "AdditionalHeaders[5]"}

WebSocketClientTable ==
  {Host("Host")} \cup WebModes \cup {Host(h) : h \in AdditionalHeaders}

WebSocketMultipleTable == WebSocketClientTable \cup Counts

WebSocketServerTable ==
  {Address("ListenAddress"), Port("ListenPort"), Host("URL")} \cup WebModes

SerialPortTable ==
  {P("PortName", "before", "text", "options"), P("BaudRate", "always", "baud", "options"),
   P("CharacterSize", "always", "size", "text"), P("StopBits", "always", "choice", "enum"),
   P("Parity", "always", "choice", "enum"), P("FlowControl", "always", "choice", "enum"),
   P("DTR", "always", "dtr", "enum")}

\* SerialPortStream has a table of its own, with the same settings.
SerialStreamTable == SerialPortTable
ForwardStreamTable == {Host("Host"), Port("RemotePort"), Flag("Keepalive"), Protocol}

SerialSwitchTable ==
  Group("PortA", SerialStreamTable) \cup Group("PortB", SerialStreamTable)

SerialToTCPTable ==
  Group("PortA", SerialStreamTable) \cup Group("PortB", ForwardStreamTable)

EnumProperties ==
  [TCPServer |-> TCPServerTable, TCPSingleClient |-> TCPClientTable,
   TCPMultipleClient |-> TCPMultipleTable, TCPForwardServer |-> TCPForwardTable,
   UDPBasic |-> UDPBasicTable, UDPClient |-> UDPClientTable,
   WebSocketSingleClient |-> WebSocketClientTable,
   WebSocketMultipleClient |-> WebSocketMultipleTable,
   WebSocketServer |-> WebSocketServerTable, SerialPort |-> SerialPortTable,
   SerialPortSwitch |-> SerialSwitchTable, SerialPortToTCPClient |-> SerialToTCPTable]

-----------------------------------------------------------------------------
(* The setters and the getters of the settings that can be changed.         *)

\* wcstoul.
Number(v) == IF v \in Numbers THEN v ELSE 0

Ports == {"baud", "size", "choice", "dtr"}      \* setters that tell an open port

\* character_size, stop_bits, parity and flow_control throw at a value they do not know.
Unknown(p, v) == \/ p.setter = "size" /\ Number(v) \notin 5..8
                 \/ p.setter = "choice" /\ Number(v) \notin 0..2

\* What the getter gives once the setter has taken v.
Stored(p, v) ==
  CASE p.setter = "text" -> v
    [] p.setter = "word" -> Number(v) % 65536
    [] p.setter = "flag" -> IF v = 1 THEN 1 ELSE 0
    [] p.setter = "dtr"  -> IF Number(v) # 0 THEN 1 ELSE 0
    [] p.setter = "mode" -> IF v = BINARY THEN BINARY ELSE TEXT
    [] OTHER             -> Number(v)

\* The constructor of the device: what stays when the setter throws at the value in
\* the profile.  A setter that cannot throw is always called.
Constructed(p) ==
  CASE p.setter = "size" -> 8
    [] p.setter = "choice" -> IF p.name[Len(p.name)] = "StopBits" THEN 2 ELSE 0
    [] OTHER -> Stored(p, Empty)

\* LoadHistoryPropertyValue: a setter that throws leaves the field.
Loaded(p, v) == IF Unknown(p, v) THEN Constructed(p) ELSE Stored(p, v)

\* What the user can type: MFC takes only digits where the setting is a number.
Typed(p) == CASE p.editor = "enum" -> {}
              [] p.setter \in {"word", "size"} -> Numbers
              [] OTHER -> Texts

\* Options(): the values listed; Word stands for an address or a port's name.
Options(p) ==
  CASE p.editor = "text" -> {}
    [] p.setter \in {"flag", "dtr"} -> {0, 1}
    [] p.setter = "choice" -> 0..2
    [] p.setter = "mode" -> {BINARY, TEXT}
    [] p.setter = "baud" -> Numbers
    [] OTHER -> {Word}

-----------------------------------------------------------------------------
(* The panel and the dialog, on the UI thread.                              *)

\* UpdatePropertyValue.  It leaves a value with a list that is not an enum's once the
\* list was opened, and MFC refuses the number that it gives the text of the rate.
Refreshed(v, value) ==
  IF property.editor = "options" /\ (dropped' \/ property.setter = "baud") THEN v ELSE value

\* OnCbnSelchangeCmbNetType: a new device, its settings from the profile, a new panel.
NewDevice ==
  /\ device /\ ~started
  /\ field' = Loaded(property, saved)
  /\ shown' = field' /\ dropped' = FALSE
  /\ refused' = FALSE /\ unsaved' = FALSE
  /\ UNCHANGED <<class, property, device, started, saved, due>>

\* Variant: the profile is written before the setter is called.
TakenSavedFirst(v) ==
  /\ field' = Stored(property, v)
  /\ shown' = Refreshed(v, field')
  /\ saved' = field
  /\ refused' = FALSE /\ unsaved' = FALSE

\* OnDevicePropertyChanged(wParam, lParam) at a value the setter takes.
Taken(v) ==
  /\ field' = Stored(property, v)
  /\ shown' = Refreshed(v, field')
  /\ saved' = field'
  /\ refused' = FALSE /\ unsaved' = FALSE

\* The setter throws: a pop-up, and neither the panel nor the profile follows.
Refused(v) ==
  /\ \/ Unknown(property, v) /\ UNCHANGED <<field, unsaved>>
     \/ /\ ~Unknown(property, v) /\ started /\ property.setter \in Ports
        /\ field' = Stored(property, v) /\ unsaved' = TRUE
  /\ shown' = v /\ refused' = TRUE
  /\ UNCHANGED saved

\* OnPropertyChanged.  A setting for before the start is disabled after it.
Edit(v) ==
  /\ device
  /\ property.flag = "before" => ~started
  /\ \/ ~Unknown(property, v) /\ Taken(v)
     \/ Refused(v)
  /\ UNCHANGED <<class, property, device, started, due>>

Type(v) == v \in Typed(property) /\ dropped' = dropped /\ Edit(v)

\* OnClickButton, OnSelectCombo.
Select(v) == v \in Options(property) /\ dropped' = TRUE /\ Edit(v)

\* OnClickButton alone.
OpenList ==
  /\ device /\ ~dropped
  /\ property.editor # "text"
  /\ property.flag = "before" => ~started
  /\ dropped' = TRUE
  /\ UNCHANGED <<class, property, field, device, started, shown, saved, due, historyOfSetters>>

\* The device starts or ends; either calls PropertyChanged.
StartOrEnd ==
  /\ device
  /\ started' = ~started /\ due' = TRUE
  /\ UNCHANGED <<class, property, field, device, shown, dropped, saved, historyOfSetters>>

\* UpdateProperties, posted by OnDevicePropertyChanged().
UpdateProperties ==
  /\ device /\ due
  /\ dropped' = dropped
  /\ shown' = Refreshed(shown, field)
  /\ refused' = (refused /\ shown' # field)
  /\ due' = FALSE
  /\ UNCHANGED <<class, property, field, device, started, saved, unsaved>>

\* The program ends, and is started again: InitInstance and OnInitDialog make the device.
Leave ==
  /\ device
  /\ device' = FALSE /\ started' = FALSE /\ due' = FALSE /\ dropped' = FALSE
  /\ refused' = FALSE /\ unsaved' = FALSE
  /\ field' = Constructed(property) /\ shown' = Constructed(property)
  /\ UNCHANGED <<class, property, saved>>

Enter ==
  /\ ~device /\ device' = TRUE
  /\ field' = Loaded(property, saved) /\ shown' = field'
  /\ UNCHANGED <<class, property, started, dropped, saved, due, historyOfSetters>>

PropertyInit ==
  /\ class \in DOMAIN EnumProperties
  /\ property \in {p \in EnumProperties[class] : p.flag # "readonly"}
  /\ field = Constructed(property) /\ shown = Constructed(property)
  /\ device = FALSE /\ started = FALSE /\ dropped = FALSE /\ due = FALSE
  /\ refused = FALSE /\ unsaved = FALSE
  /\ saved = Empty

PropertyNext ==
  \/ NewDevice \/ OpenList \/ StartOrEnd \/ UpdateProperties
  \/ Leave \/ Enter
  \/ \E v \in Texts : Type(v) \/ Select(v)

-----------------------------------------------------------------------------
\* Whatever was typed, chosen or refused in whatever order, before or after a start: the
\* profile gives a new device the value that this one has, and the panel shows that
\* value.  The exceptions are the code's: a value that an open port refused after the
\* device stored it is not saved, a refused value stays on the panel until the next
\* change or refresh, and a baud rate is shown as it was typed.
SettingsAgree ==
  device => /\ unsaved \/ Loaded(property, saved) = field
            /\ refused \/ property.setter = "baud" \/ shown = field
===============================================================================
