--------------------------- MODULE WebSocketSession ---------------------------
(* One WebSocket connection between a NetDebugger client and a NetDebugger     *)
(* server (Websocket.cpp): the address parsed, the HTTP upgrade, and the       *)
(* frames written by ToBuffer and read by ReadPacket, ReadPacketLength and     *)
(* ReadPacketData.  wire[e] is what is on its way to end e: a request, a       *)
(* response, the bytes of a frame's header one by one, and its masking key and *)
(* payload as one item.  async_write hands a packet over whole and in order; a *)
(* frame written while another write is under way is not followed.             *)
EXTENDS Integers, Sequences, SequencesExt

LongestLength == 2147483647   \* bound: the largest integer of TLC

CONSTANTS Lengths,     \* payload lengths of an instance; 0 is sent by other programs only
          Opcodes,     \* of the frames: TEXT_FRAME is 1, BINARY_FRAME 2
          MaxMessages, \* bound: messages of a connection, both ways together
          Tails,       \* what may follow host and port in the client's URL
          ServerURLs   \* the server's URL property; both as sequences of words

ASSUME SessionAssumption ==
    /\ Lengths \subseteq 0..LongestLength /\ Opcodes \subseteq {1, 2} /\ MaxMessages \in Nat
    /\ \A t \in Tails \cup ServerURLs : t \in Seq({t[i] : i \in DOMAIN t})

VARIABLES url,       \* the client's m_ServerURL: [port, tail]; port 0 is none given
          serverURL, \* WebSocketServer::m_URL
          upgrade,   \* how far each end is with the handshake
          answer,    \* the client's m_ResponseHeaders
          wire, frame,
          broken,    \* the TCP connection is gone
          sent, got, \* history: messages sent to each end, and read by it
          mixed      \* history: the client read past the end of the response
sessionVars == <<url, serverURL, upgrade, answer, wire, frame, broken, sent, got, mixed>>

Sides   == {"client", "server"}
Peer(e) == IF e = "client" THEN "server" ELSE "client"
Key     == <<"key">>
Digest(key) == <<"digest">> \o key     \* SHA-1 and base64

\* Without a port URLParse keeps the path in the host and yields port -1, which
\* no resolver knows.
NoPort == 0
URLParse(u) ==
    IF u.port = NoPort
    THEN [host |-> <<"host">> \o u.tail, port |-> -1,
          query |-> IF u.tail = <<>> THEN <<"/">> ELSE u.tail]
    ELSE [host |-> <<"host">>, port |-> u.port, query |-> u.tail]

\* A header line, and the field its reader makes of it: the value starts two
\* characters behind the name, so a line without a colon loses one of them.
HeaderLine(name, sep, value) == [name |-> name, sep |-> sep, value |-> value]
ParseHttpHeaders(lines) ==
    [n \in {l.name : l \in lines} |->
        LET l == CHOOSE x \in lines : x.name = n
        IN IF l.sep = ": " THEN l.value ELSE Tail(l.value)]

HttpConnectString(query) ==
    [kind |-> "request", target |-> IF query = <<>> THEN <<"/">> ELSE query,
     headers |-> {HeaderLine("Sec-WebSocket-Key", ": ", Key)}]

HttpConnectResponseString(code, headers) ==
    [kind |-> "response", code |-> code,
     headers |-> {HeaderLine("Sec-WebSocket-Accept", ": ", Digest(headers["Sec-WebSocket-Key"]))}]

GetHttpQueryStringPath(query) ==
    LET stops == {i \in DOMAIN query : query[i] \in {"?", "#"}}
        first == CHOOSE i \in stops : \A j \in stops : i <= j
    IN IF stops = {} THEN query
       ELSE IF first = 1 THEN <<"/">> ELSE SubSeq(query, 1, first - 1)

Unrooted(p) == IF p # <<>> /\ Head(p) = "/" THEN Tail(p) ELSE p
GetHttpPathCompare(p, q) == Unrooted(p) = Unrooted(q)

\* Variant: the path of the request is not compared.
StatusUnchecked(target) == 101

\* A URL path of the server that is empty takes every request.
Status(target) ==
    LET mine == GetHttpQueryStringPath(serverURL)
    IN IF mine = <<>> \/ GetHttpPathCompare(mine, GetHttpQueryStringPath(target)) THEN 101 ELSE 404
-------------------------------------------------------------------------------
Byte8(n)     == [kind |-> "byte", value |-> n]
Place        == <<1, 256, 65536, 16777216>>     \* powers of 256

\* Variant: the bytes above the second are taken for zero.
ByteOfShort(n, i) == IF i > 1 THEN 0 ELSE (n \div Place[i + 1]) % 256

\* Byte i of a length, counted from the lowest; no length has more than four.
ByteOf(n, i) == IF i > 3 THEN 0 ELSE (n \div Place[i + 1]) % 256
BigEndian(n, k) == [i \in 1..k |-> Byte8(ByteOf(n, k - i))]

Width(n) == CASE n < 126 -> 0 [] 126 <= n /\ n < 65536 -> 2 [] OTHER -> 8
ShortLength(n) == CASE Width(n) = 0 -> n [] Width(n) = 2 -> 126 [] OTHER -> 127

\* The bytes behind the header: nothing at all for an empty message in clear.
Payload(m) ==
    IF m.len = 0 /\ ~m.mask THEN <<>>
    ELSE <<[kind |-> "payload", id |-> m.id, len |-> m.len, mask |-> m.mask]>>

ToBuffer(m) ==
    <<Byte8(128 + m.opcode), Byte8(ShortLength(m.len) + (IF m.mask THEN 128 ELSE 0))>>
    \o BigEndian(m.len, Width(m.len)) \o Payload(m)

MaskSize(mask) == IF mask THEN 4 ELSE 0
Reading(at)    == [at |-> at, len |-> 0, mask |-> FALSE]
Message(id, len) == <<id, len>>
Garbage        == 0

ValueOf(bytes) ==
    LET value[i \in 0..Len(bytes)] ==
          IF i = 0 THEN 0 ELSE value[i - 1] * 256 + bytes[i].value
    IN value[Len(bytes)]

HeaderAt(e) == Len(wire[e]) >= 2 /\ \A i \in 1..2 : wire[e][i].kind = "byte"
-------------------------------------------------------------------------------
URLs == [port : {NoPort, 80}, tail : Tails]

SessionInit ==
    /\ url \in URLs /\ serverURL \in ServerURLs
    /\ upgrade = [client |-> "idle", server |-> "reading"]
    /\ answer = [n \in {} |-> <<>>]
    /\ wire = [e \in Sides |-> <<>>] /\ frame = [e \in Sides |-> Reading("closed")]
    /\ sent = [e \in Sides |-> <<>>] /\ got = [e \in Sides |-> <<>>]
    /\ broken = FALSE /\ mixed = FALSE

Upgrade(e, s) == upgrade' = [upgrade EXCEPT ![e] = s]
Put(e, items) == wire' = [wire EXCEPT ![e] = @ \o items]
Opens(e)      == frame' = [frame EXCEPT ![e] = Reading("header")]
Closes(e)     == frame' = [frame EXCEPT ![e] = Reading("closed")] /\ broken' = TRUE

\* WebSocketClientChannel::Connect and OnSocketConnected.
Connect ==
    /\ upgrade["client"] = "idle" /\ ~broken
    /\ LET u == URLParse(url)
       IN \/ /\ u.port > 0
             /\ Upgrade("client", "asking")
             /\ Put("server", <<HttpConnectString(u.query)>>)
          \/ Upgrade("client", "failed") /\ UNCHANGED wire
    /\ UNCHANGED <<url, serverURL, answer, frame, broken, sent, got, mixed>>

\* WebSocketServerChannel::Start and ResponseWebsocketRequest.
ResponseWebsocketRequest ==
    /\ upgrade["server"] = "reading" /\ wire["server"] # <<>>
    /\ LET ask  == Head(wire["server"])
           code == Status(ask.target)
           said == HttpConnectResponseString(code, ParseHttpHeaders(ask.headers))
       IN /\ wire' = [wire EXCEPT !["server"] = Tail(@), !["client"] = Append(@, said)]
          /\ Upgrade("server", IF code = 101 THEN "answering" ELSE "refused")
    /\ UNCHANGED <<url, serverURL, answer, frame, broken, sent, got, mixed>>

\* The answer is written: the channel is listed and read.  If it could not be,
\* the channel is dropped without a word.
AnswerWritten ==
    /\ upgrade["server"] = "answering"
    /\ \/ Upgrade("server", "up") /\ Opens("server")
       \/ broken /\ Upgrade("server", "dropped") /\ UNCHANGED frame
    /\ UNCHANGED <<url, serverURL, answer, wire, broken, sent, got, mixed>>

\* The client reads up to the empty line, and with it any bytes that are there
\* already: those stay in the buffer it drops.
ResponseRead(extra) ==
    /\ upgrade["client"] = "asking" /\ wire["client"] # <<>>
    /\ extra < Len(wire["client"])
    /\ LET said == Head(wire["client"])
       IN IF said.code = 101
          THEN /\ Upgrade("client", "up") /\ Opens("client")
               /\ answer' = ParseHttpHeaders(said.headers)
          ELSE Upgrade("client", "failed") /\ UNCHANGED <<answer, frame>>
    /\ wire' = [wire EXCEPT !["client"] = SubSeq(@, 2 + extra, Len(@))]
    /\ mixed' = (extra > 0)
    /\ UNCHANGED <<url, serverURL, broken, sent, got>>

HandshakeFails ==
    /\ broken /\ upgrade["client"] \in {"idle", "asking"}
    /\ Upgrade("client", "failed")
    /\ UNCHANGED <<url, serverURL, answer, wire, frame, broken, sent, got, mixed>>

\* WebSocketChannel::Write at the other end of e.
Write(e, len, mask, opcode) ==
    LET id == Len(sent["client"]) + Len(sent["server"]) + 1
        m  == [id |-> id, len |-> len, mask |-> mask, opcode |-> opcode]
    IN /\ frame[Peer(e)].at # "closed" /\ ~broken /\ id <= MaxMessages
       /\ Put(e, ToBuffer(m))
       /\ sent' = [sent EXCEPT ![e] = Append(@, Message(id, len))]
       /\ UNCHANGED <<url, serverURL, upgrade, answer, frame, broken, got, mixed>>

\* What a stream cut within a frame yields is not followed.
Follows(e) == frame[e].at # "closed" /\ ~(mixed /\ e = "client")

ReadPacket(e) ==
    /\ Follows(e) /\ frame[e].at = "header" /\ HeaderAt(e)
    /\ LET second == wire[e][2].value
           short  == second % 128
       IN frame' = [frame EXCEPT ![e] =
              [at |-> IF short < 126 THEN "data" ELSE "length",
               len |-> short, mask |-> second >= 128]]
    /\ wire' = [wire EXCEPT ![e] = SubSeq(@, 3, Len(@))]
    /\ UNCHANGED <<url, serverURL, upgrade, answer, broken, sent, got, mixed>>

ReadPacketLength(e) ==
    LET k == IF frame[e].len = 126 THEN 2 ELSE 8
    IN /\ Follows(e) /\ frame[e].at = "length" /\ Len(wire[e]) >= k
       /\ frame' = [frame EXCEPT ![e] =
              [at |-> "data", len |-> ValueOf(SubSeq(wire[e], 1, k)), mask |-> @.mask]]
       /\ wire' = [wire EXCEPT ![e] = SubSeq(@, k + 1, Len(@))]
       /\ UNCHANGED <<url, serverURL, upgrade, answer, broken, sent, got, mixed>>

ReadPacketData(e) ==
    LET p     == Head(wire[e])
        f     == frame[e]
        whole == /\ p.kind = "payload" /\ p.mask = f.mask
                 /\ p.len + MaskSize(p.mask) = f.len + MaskSize(f.mask)
    IN /\ Follows(e) /\ f.at = "data" /\ wire[e] # <<>>
       /\ f.len + MaskSize(f.mask) > 0
       /\ got' = [got EXCEPT ![e] = Append(@, Message(IF whole THEN p.id ELSE Garbage, f.len))]
       /\ Opens(e)          \* the caller reads on
       /\ wire' = [wire EXCEPT ![e] = Tail(@)]
       /\ UNCHANGED <<url, serverURL, upgrade, answer, broken, sent, mixed>>

\* A read of no bytes at all is taken for a reset.
EmptyIsReset(e) ==
    /\ Follows(e) /\ frame[e].at = "data" /\ frame[e].len = 0 /\ ~frame[e].mask
    /\ Closes(e)
    /\ UNCHANGED <<url, serverURL, upgrade, answer, wire, sent, got, mixed>>

\* A read or write that fails, or Close called by the user.
IoEnds(e) ==
    /\ frame[e].at # "closed"
    /\ Closes(e)
    /\ UNCHANGED <<url, serverURL, upgrade, answer, wire, sent, got, mixed>>

ConnectionBreaks ==
    /\ ~broken /\ broken' = TRUE
    /\ UNCHANGED <<url, serverURL, upgrade, answer, wire, frame, sent, got, mixed>>

SessionNext ==
    \/ Connect \/ ResponseWebsocketRequest \/ AnswerWritten \/ HandshakeFails \/ ConnectionBreaks
    \/ \E n \in 0..Len(wire["client"]) : ResponseRead(n)
    \/ \E e \in Sides :
         \/ \E l \in Lengths, m \in BOOLEAN, o \in Opcodes : Write(e, l, m, o)
         \/ ReadPacket(e) \/ ReadPacketLength(e) \/ ReadPacketData(e)
         \/ EmptyIsReset(e) \/ IoEnds(e)
-------------------------------------------------------------------------------
\* Each end reads the messages sent to it, whole and in their order, for as long
\* as it reads: through the three forms of the length, with a masking key and
\* without, whatever parts of a frame have arrived (Websocket.cpp:77).  A client
\* that dropped the first bytes with the answer is not followed.
MessagesArriveWhole == \A e \in Sides : IsPrefix(got[e], sent[e])

\* A client that takes itself for connected was answered by a server that lists it
\* too once the answer is written, under the path of the URL, and to its own key.
UpgradesAgree ==
    upgrade["client"] = "up" =>
        /\ upgrade["server"] \in {"answering", "up", "dropped"}
        /\ serverURL # <<>> =>
             GetHttpPathCompare(GetHttpQueryStringPath(serverURL), GetHttpQueryStringPath(url.tail))
        /\ answer["Sec-WebSocket-Accept"] = Digest(Key)
===============================================================================
