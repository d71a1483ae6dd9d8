------------------------------ MODULE MQTTClient ------------------------------
(* class MQTTClient (MQTTClient.cpp): one socket, one ping timer, and a table  *)
(* of transactions, whose handlers wait for an answer of the broker.           *)
(*                                                                             *)
(* ops are the asynchronous operations under way.  When the operating system   *)
(* is done with one its result is queued, and its completion handler runs at   *)
(* some later time: what happens in between no longer changes the result.      *)
(* Connect uses the same socket again, so each operation has the number of the *)
(* connection it was started on.  The io service is run by one thread, the     *)
(* class having no lock for its socket, and what was queued on an older        *)
(* connection runs first.  Operations of one kind that are under way together  *)
(* on a connection are one.  A call is made between two handlers.              *)
EXTENDS Integers, FiniteSets, TLC

Nobody == "nobody"
LongestPacket == 268435455  \* what four bytes of seven bits count

CONSTANTS Handlers,     \* transaction callbacks; each is passed to one call
          PacketLengths,\* the lengths of packets the broker sends
          Unasked,      \* what the broker sends of its own accord
          KeepAlives,   \* whether the options ask for pings: a set of BOOLEAN
          IdSpace,      \* 65536: the packet identifiers, and 0
          MaxConnects   \* bound: connections tried

ASSUME MQTTAssumption == /\ IdSpace \in Nat /\ IdSpace > 3
                         /\ MaxConnects \in Nat /\ KeepAlives \subseteq BOOLEAN
                         /\ PacketLengths \subseteq 0..LongestPacket
                         /\ Nobody \notin Handlers

VARIABLES mConnected, mPacketIdentifier, mTransactions,
          mPingTimer,   \* the connection the timer object was made for; 0 is none
          socket,       \* [gen, at]: the connection it is used for, and its state
          ops,
          owed,         \* answers the broker has still to send on this connection
          asked,        \* the call each handler was passed to
          called,       \* history: how often each handler was called
          told,         \* history: the last of the two connection callbacks
          misread, crossed \* history: a packet not read as it was written; a handler of
                        \* an older connection went on on a newer one
callVars == <<asked, called>>
mqttVars == <<mConnected, mPacketIdentifier, mTransactions, mPingTimer, socket,
              ops, owed, callVars, told, misread, crossed>>

Nothing  == [type |-> "none"]
Answer(type, id) == [type |-> type, id |-> id]

Op(k, g) == [kind |-> k, gen |-> g, who |-> Nobody, at |-> "pending", packet |-> Nothing]
Queued(o, result) == [o EXCEPT !.at = result]
IsQueued(o) == o.at # "pending"

\* An operation started now; on a socket that is not connected it fails at once.
Begun(o)   == IF socket.at = "up" THEN o ELSE Queued(o, "failed")
Start(k)   == Begun(Op(k, socket.gen))
With(os, new) == os \cup {o \in new : \A x \in os :
                             x.kind # o.kind \/ x.gen # o.gen \/ x.who # o.who}
Request(h) == Begun([Op("request", socket.gen) EXCEPT !.who = h])

MQTTInit ==
    /\ mConnected = FALSE /\ mPacketIdentifier = 1 /\ mTransactions = {}
    /\ mPingTimer = 0 /\ socket = [gen |-> 0, at |-> "closed"]
    /\ ops = {} /\ owed = {} /\ told = "none"
    /\ misread = FALSE /\ crossed = FALSE
    /\ asked = [h \in Handlers |-> "nothing"] /\ called = [h \in Handlers |-> 0]
-------------------------------------------------------------------------------
\* The remaining length of a packet: seven bits a byte, and the top bit on all
\* bytes but the last.  Byte i counts Weight[i] times.
Weight == <<1, 128, 16384, 2097152, 268435456>>
RemainingLength(n) ==
    LET last == CHOOSE i \in 0..3 : n < Weight[i + 2] /\ (i = 0 \/ n >= Weight[i + 1])
    IN [i \in 1..last + 1 |-> ((n \div Weight[i]) % 128) + (IF i <= last THEN 128 ELSE 0)]

\* Its reader takes bytes up to one without the top bit, and counts four of them.
onReadMQTTPacketLength(bytes) ==
    CHOOSE i \in DOMAIN bytes : bytes[i] < 128 /\ \A j \in 1..i - 1 : bytes[j] >= 128

\* Variant: the third byte counts as much as the second.
LengthCompletedNarrow(bytes) ==
    LET sum[i \in 0..onReadMQTTPacketLength(bytes)] ==
            IF i = 0 THEN 0
            ELSE sum[i - 1] + (bytes[i] % 128) * Weight[IF i > 2 THEN 2 ELSE i]
    IN sum[onReadMQTTPacketLength(bytes)]

onReadMQTTPacketLengthCompleted(bytes) ==
    LET sum[i \in 0..onReadMQTTPacketLength(bytes)] ==
            IF i = 0 THEN 0 ELSE sum[i - 1] + (bytes[i] % 128) * Weight[i]
    IN sum[onReadMQTTPacketLength(bytes)]

kMAX_MESSAGE_PAYLOAD == 8388608

\* The identifier of a new transaction: the search starts one past the field and
\* skips 0, the mark of failure, except as its first candidate.
BeginTransaction(used) ==
    LET try[i \in 1..IdSpace] ==
            IF i = 1 THEN (mPacketIdentifier + 1) % IdSpace
            ELSE IF try[i - 1] + 1 = IdSpace THEN 1 ELSE try[i - 1] + 1
        free == {i \in 1..IdSpace : try[i] \notin used}
    IN IF free = {} THEN 0 ELSE try[CHOOSE i \in free : \A j \in free : i <= j]

\* The search gives up where it began; it never comes back to 0.
SearchEnds(used) == mPacketIdentifier # 0 \/ ~(1..(IdSpace - 1) \subseteq used)

Call(hs) == called' = [h \in Handlers |-> called[h] + (IF h \in hs THEN 1 ELSE 0)]
Waiting  == {t.handler : t \in mTransactions}

\* Variant: the transaction stays in the table.
EndTransactionKeeps(id) ==
    mTransactions' = mTransactions /\ Call({t.handler : t \in {t \in mTransactions : t.id = id}})

EndTransaction(id) ==
    LET ended == {t \in mTransactions : t.id = id}
    IN mTransactions' = mTransactions \ ended /\ Call({t.handler : t \in ended})
-------------------------------------------------------------------------------
\* The socket closed: what was under way on it fails.
Aborted(os) == {IF o.kind # "timer" /\ o.gen = socket.gen /\ ~IsQueued(o)
                THEN Queued(o, "failed") ELSE o : o \in os}
TimerCancelled(os) == {o \in os : o.kind # "timer" \/ o.gen # mPingTimer \/ IsQueued(o)}

\* Disconnect(true), with the operations os: everyone who waits is called.
Down(os, also) ==
    /\ mConnected' = FALSE
    /\ socket' = [socket EXCEPT !.at = "closed"]
    /\ ops' = TimerCancelled(Aborted(os))
    /\ mTransactions' = {} /\ Call(Waiting \cup also)
    /\ owed' = {}

\* Disconnect(false): a connected client only sends DISCONNECT.
Disconnect(forced) ==
    /\ IF forced \/ ~mConnected
       THEN Down(ops, {})
       ELSE /\ ops' = With(ops, {Start("bye")})
            /\ UNCHANGED <<mConnected, mTransactions, socket, owed, called>>
    /\ UNCHANGED <<mPacketIdentifier, mPingTimer, asked, told, misread, crossed>>

\* Connect: Disconnect(false), and a connection on the socket, which closes what
\* it still had open; or the name is not found.
MQTTConnect ==
    LET g    == socket.gen + 1
        left == IF mConnected THEN With(ops, {Start("bye")}) ELSE TimerCancelled(Aborted(ops))
    IN /\ g <= MaxConnects
       /\ IF mConnected THEN UNCHANGED <<mTransactions, called>>
          ELSE mTransactions' = {} /\ Call(Waiting)
       /\ \/ /\ socket' = [gen |-> g, at |-> "connecting"]
             /\ ops' = Aborted(left) \cup {Op("connect", g)} /\ owed' = {}
             /\ UNCHANGED told
          \/ /\ socket' = IF mConnected THEN socket ELSE [gen |-> g, at |-> "closed"]
             /\ ops' = left /\ told' = "disconnected"
             /\ owed' = IF mConnected THEN owed ELSE {}
       /\ UNCHANGED <<mConnected, mPacketIdentifier, mPingTimer, asked, misread, crossed>>

\* The broker's answer may arrive before the handler of the write has run.
Owes(ps) == owed' = IF socket.at = "up" THEN owed \cup ps ELSE owed

\* Publish with a quality of service, Subscribe and Unsubscribe: a call that gets
\* no identifier is sent with 0, and its handler forgotten.  A call whose search
\* does not end never returns, with the mutex in hand: no step.
Track(h, q) ==
    LET used == {t.id : t \in mTransactions}
        id   == BeginTransaction(used)
    IN /\ SearchEnds(used)
       /\ IF id = 0
          THEN UNCHANGED <<mPacketIdentifier, mTransactions>>
          ELSE /\ mPacketIdentifier' = (id + 1) % IdSpace
               /\ mTransactions' = mTransactions \cup {[id |-> id, handler |-> h]}
       /\ asked' = [asked EXCEPT ![h] = IF id = 0 THEN "unnumbered" ELSE q]
       /\ Owes({Answer(IF q = "qos2" THEN "PUBREC" ELSE "ACK", id)})
Publish(h, q) ==
    /\ asked[h] = "nothing"
    /\ IF q = "qos0"
       THEN /\ asked' = [asked EXCEPT ![h] = q]
            /\ UNCHANGED <<mPacketIdentifier, mTransactions, owed>>
       ELSE Track(h, q)
    /\ ops' = With(ops, {Request(h)})
    /\ UNCHANGED <<mConnected, mPingTimer, socket, called, told, misread, crossed>>
-------------------------------------------------------------------------------
\* The operating system is done with an operation; nothing is queued where the
\* handler has nothing to do.
Results(o, results) ==
    /\ ops' = (ops \ {o}) \cup results
    /\ UNCHANGED <<mConnected, mPacketIdentifier, mTransactions, mPingTimer, callVars,
                   told, misread, crossed>>
IsQuiet(o) == o.kind = "write" \/ (o.who # Nobody /\ asked[o.who] # "qos0")
Succeeds(o) ==
    /\ ~IsQueued(o) /\ o.kind # "read"
    /\ Results(o, IF IsQuiet(o) THEN {} ELSE {Queued(o, "done")})
    /\ socket' = IF o.kind = "connect" THEN [socket EXCEPT !.at = "up"] ELSE socket
    /\ UNCHANGED owed
Fails(o) == ~IsQueued(o) /\ o.kind # "timer" /\ Results(o, {Queued(o, "failed")})
            /\ UNCHANGED <<socket, owed>>

Arrives(o, p) ==
    /\ ~IsQueued(o) /\ o.kind = "read"
    /\ p \in owed \/ (p \in Unasked /\ mConnected)
    /\ Results(o, {[Queued(o, "done") EXCEPT !.packet = p]})
    /\ owed' = owed \ {p}
    /\ UNCHANGED socket

\* A handler runs: operation o leaves ops, and new ones are started.
Turn(o)  == IsQueued(o) /\ \A x \in ops : IsQueued(x) => x.gen >= o.gen
Then(o, new) == ops' = With(ops \ {o}, new)
Crosses(o)   == crossed' = (crossed \/ o.gen # socket.gen)
Ends(o)  == /\ Down(ops \ {o}, {}) /\ told' = "disconnected"
            /\ UNCHANGED <<mPacketIdentifier, mPingTimer, asked, misread, crossed>>

OnConnected(o) ==
    /\ Turn(o) /\ o.kind = "connect"
    /\ IF o.at = "done"
       THEN /\ Then(o, {Start("greet")}) /\ Crosses(o)
            /\ Owes({Answer("CONNACK", 0)}) /\ UNCHANGED told
       ELSE Then(o, {}) /\ told' = "disconnected" /\ UNCHANGED <<owed, crossed>>
    /\ UNCHANGED <<mConnected, mPacketIdentifier, mTransactions, mPingTimer, socket,
                   callVars, misread>>

\* CONNECT is written: a timer, if the options ask for it, and the first read.
\* A new timer object cancels the wait on the old one.
Greeted(o, keepAlive) ==
    /\ Turn(o) /\ o.kind = "greet" /\ o.at = "done"
    /\ ops' = With((IF keepAlive THEN TimerCancelled(ops) ELSE ops) \ {o},
                   (IF keepAlive THEN {Op("timer", o.gen)} ELSE {}) \cup {Start("read")})
    /\ mPingTimer' = IF keepAlive THEN o.gen ELSE mPingTimer
    /\ Crosses(o)
    /\ UNCHANGED <<mConnected, mPacketIdentifier, mTransactions, socket, owed, callVars,
                   told, misread>>

\* The wait is over: a ping, and the next wait, on the timer of today.
onStartPingTimer(o) ==
    /\ Turn(o) /\ o.kind = "timer"
    /\ ops' = With(TimerCancelled(ops \ {o}), {Start("write"), Op("timer", mPingTimer)})
    /\ UNCHANGED <<mConnected, mPacketIdentifier, mTransactions, mPingTimer, socket, owed,
                   callVars, told, misread, crossed>>

\* The end of a write: a failed one disconnects; DISCONNECT does so either way,
\* and says nothing; a message of quality 0 is over with its write.
Written(o) ==
    /\ Turn(o) /\ o.kind \in {"greet", "write", "request", "bye"}
    /\ o.kind = "greet" => o.at = "failed"
    /\ LET alone == IF o.who # Nobody /\ asked[o.who] = "qos0" THEN {o.who} ELSE {}
       IN IF o.at = "failed" \/ o.kind = "bye"
          THEN /\ Down(ops \ {o}, alone)
               /\ told' = IF o.kind = "bye" THEN told ELSE "disconnected"
          ELSE /\ Then(o, {}) /\ Call(alone)
               /\ UNCHANGED <<mConnected, mTransactions, socket, owed, told>>
    /\ UNCHANGED <<mPacketIdentifier, mPingTimer, asked, misread, crossed>>

\* A whole packet.  Each of them is followed by the next read.
Replies(p) == p.type \in {"PUBREC", "PUBREL", "PINGREQ"} \/ (p.type = "PUBLISH" /\ p.id > 0)

Reads(o, new) ==
    /\ Then(o, new \cup {Start("read")})
    /\ misread' = (misread \/ \E x \in ops \ {o} : x.kind = "read" /\ x.gen = socket.gen)
    /\ Crosses(o)
    /\ UNCHANGED <<mPacketIdentifier, mPingTimer, socket, asked>>

\* CONNACK: the first byte, which says whether a session was present, is read as
\* the return code.
Accepted(o, present) ==
    /\ Turn(o) /\ o.at = "done" /\ o.packet.type = "CONNACK"
    /\ IF present THEN Ends(o)
       ELSE /\ Reads(o, {}) /\ mConnected' = TRUE /\ told' = "connected"
            /\ UNCHANGED <<mTransactions, called, owed>>

onReadMQTTPacketCompleted(o) ==
    LET p == o.packet
    IN /\ Turn(o) /\ o.at = "done" /\ p.type \notin {"none", "CONNACK", "OTHER"}
       /\ Reads(o, IF Replies(p) THEN {Start("write")} ELSE {})
       /\ IF p.type \in {"ACK", "PUBCOMP"} THEN EndTransaction(p.id)
          ELSE UNCHANGED <<mTransactions, called>>
       /\ IF p.type = "PUBREC" THEN Owes({Answer("PUBCOMP", p.id)}) ELSE UNCHANGED owed
       /\ UNCHANGED <<mConnected, told>>

\* Variant: the client disconnects and tells nobody.
ReadEndsSilently(o) ==
    /\ Turn(o) /\ o.kind = "read" /\ (o.at = "failed" \/ o.packet.type = "OTHER")
    /\ Down(ops \ {o}, {})
    /\ UNCHANGED <<mPacketIdentifier, mPingTimer, asked, told, misread, crossed>>

\* A read that failed, a packet that is too long, or one of no known type.
ReadEnds(o) ==
    /\ Turn(o) /\ o.kind = "read" /\ (o.at = "failed" \/ o.packet.type = "OTHER")
    /\ Ends(o)

\* The length is known, and the packet read by it.
ReadMQTTPacket(o, n) ==
    LET length == onReadMQTTPacketLengthCompleted(RemainingLength(n))
    IN /\ o.kind = "read" /\ Turn(o)
       /\ CASE o.at = "done" /\ length # n ->
                 /\ misread' = TRUE /\ Then(o, {})
                 /\ UNCHANGED <<mConnected, mPacketIdentifier, mTransactions, mPingTimer,
                                socket, owed, callVars, told, crossed>>
            [] o.at = "done" /\ length = n /\ length > kMAX_MESSAGE_PAYLOAD -> Ends(o)
            [] OTHER -> \/ \E b \in BOOLEAN : Accepted(o, b)
                        \/ onReadMQTTPacketCompleted(o)
                        \/ ReadEnds(o)

\* What a handler of an older connection goes on to do on a newer one is not
\* followed.
MQTTNext ==
    /\ ~crossed
    /\ \/ MQTTConnect
       \/ \E f \in BOOLEAN : Disconnect(f)
       \/ \E h \in Handlers, q \in {"qos0", "qos1", "qos2"} : Publish(h, q)
       \/ \E o \in ops :
            \/ Succeeds(o) \/ Fails(o)
            \/ \E p \in owed \cup Unasked : Arrives(o, p)
            \/ OnConnected(o) \/ onStartPingTimer(o) \/ Written(o)
            \/ \E n \in PacketLengths : ReadMQTTPacket(o, n)
            \/ \E k \in KeepAlives : Greeted(o, k)
-------------------------------------------------------------------------------
\* Every handler that got a packet identifier waits in the table or has been
\* called, and not twice: through acknowledgements, errors, disconnecting while
\* an answer is queued, and connecting again.
AnsweredOnce ==
    \A h \in Handlers :
        IF asked[h] \in {"qos1", "qos2"}
        THEN called[h] = IF h \in Waiting THEN 0 ELSE 1
        ELSE called[h] <= 1

\* A user who was told of the connection will be told of its end: something is
\* still to come that tells him.
EndIsReported == told = "connected" => \E o \in ops : o.kind = "read"

\* Packets are read as the broker wrote them, one reader at a time, unless a
\* handler of an older connection went on on a newer one.
StreamInStep == misread => crossed
===============================================================================
