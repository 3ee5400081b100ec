---------------------------- MODULE HttpConnection ----------------------------
(***************************************************************************)
(* One connection of HttpServer, symbol by symbol: recv gives any part of  *)
(* what the client has sent, until ReadHttpRequest has enough or the       *)
(* client ends; what was read is parsed, routed and answered.              *)
(*                                                                         *)
(* Devices and the bytes of digests are external.  The symbol "sha" is the *)
(* digest of the text that the sending device hashed, "sig" its signature  *)
(* of that.  A client may end the connection after any part of its one     *)
(* request; HttpServer says what it may do in between.                     *)
(***************************************************************************)
EXTENDS HttpMessages

CONSTANTS
    Packets,        \* the packets that devices send
    Orders,         \* the sequences of members that they write them in
    Lengths,        \* by how much their Content-Length is wrong, None without one
    Asked,          \* the other requests: method, target, what they are for
    BufferSize,     \* 4096 in the code
    MaxRequestBytes,
    EventSizes      \* bytes of an event's text: bounds a run

\* A request that is read, and an answer, are smaller than the largest size_t.
ASSUME SizesAssumption ==
    /\ BufferSize \in Nat \ {0} /\ MaxRequestBytes \in Nat \ {0}
    /\ MaxRequestBytes + BufferSize <= Word /\ 100 <= Word

\* What Ingest returns.
Result ==
    [accepted : BOOLEAN, message : Seq(STRING), recordId : Nat,
     receipt : {None} \cup [txHash : Seq(STRING), blockHeight : Nat]]

ASSUME NoneAssumption == None \notin Packet \cup Request \cup Result

\* The symbols of the code are strings: no prover knows that of a literal.
ASSUME SymbolsAssumption ==
    Names \cup ToSet(Numerals) \cup
    {"{", "}", ",", ":", "\\", " ", "\r", "\n", Quote, "POST", "HTTP/1.1", "/api/v1/ingest",
     "Host: gateway", "Content-Length:", "Connection: close", "202", "400", "404",
     "sha", "sig", "key-1", "default-pubkey", "wifi", "now", "tx", "near ", "key", "null",
     "true", "false", "accepted", "telemetry.ingested", "ingest.rejected", "missing ",
     "route not found", "invalid HTTP request"} \subseteq STRING

\* A string of a packet is any text that the device writes between its quotes,
\* escaped quotes included, in which no quotes stand around a member's name.
\* The device hashes its id as it writes it: one that has escaped something
\* there, and hashes what it was before, is rejected where this one is accepted.
\* The telemetry is one object.
ASSUME PacketsAssumption ==
    \A p \in Packets :
        /\ {p.deviceId, p.transport, p.batchCode} \subseteq Seq(STRING \ Names)
        /\ p.timestamp \in Nat
        /\ p.telemetryJson \in Seq(STRING) \ {<<>>} /\ IsObject(p.telemetryJson)

\* The size of an event is a size_t.
ASSUME EventsAssumption == \A size \in EventSizes : size \in Nat /\ Shifted(size, 8) = 0

ASSUME OrdersAssumption == Orders \subseteq Seq(ToSet(Required) \cup Optional)

\* What a path is for that holds no parameter.
Endpoint(method, path) ==
    CASE path \in {"/ws/telemetry", "/ws/alerts"} -> [op |-> "upgrade", param |-> <<path>>]
      [] <<method, path>> = <<"GET", "/health">> -> [op |-> "health", param |-> <<>>]
      [] <<method, path>> = <<"POST", "/api/v1/ingest">> -> [op |-> "ingest", param |-> <<>>]
      [] <<method, path>> = <<"GET", "/api/v1/metrics/overview">> ->
             [op |-> "metrics", param |-> <<>>]
      [] OTHER -> [op |-> "404", param |-> <<>>]

\* The first line of a request is one line, in which nobody writes what a
\* length is looked for by.  Its target is a query with the parameter as it is,
\* or a path that may have a query string behind.
ASSUME AskedAssumption ==
    \A a \in Asked :
        /\ a.method \in STRING \ {" "} /\ a.target \in Seq(STRING)
        /\ {"\r", "\n", "Content-Length:"} \cap ({a.method} \cup ToSet(a.target)) = {}
        /\ IF a.wants.op \in Queries
           THEN /\ a.method = "GET" /\ a.wants.param \in Seq(STRING)
                /\ a.wants = [op |-> a.wants.op, param |-> a.wants.param]
                /\ a.target = Prefix(a.wants.op) \o a.wants.param \o Suffix(a.wants.op)
           ELSE /\ a.target # <<>> /\ a.target[1] # "?" /\ " " \notin ToSet(a.target)
                /\ Len(a.target) > 1 => a.target[2] = "?"
                /\ a.wants = Endpoint(a.method, a.target[1])

VARIABLES
    sent,           \* the request: its text, and what it is for
    got,            \* raw.size()
    expected,       \* expectedTotalSize, None before the header is complete
    pc,             \* "recv", "handle" or "closed"
    answer,         \* the answer's text, None if none is sent or it is left out
    routed,         \* what RouteOf said, None if nothing was parsed
    result,         \* of Ingest, None if it was not called
    parsed,         \* the packet that it was called with
    eventSize,      \* bytes of the event, None if none was broadcast
    frame,          \* the head of its frame
    hungUp          \* history: recv found the end of the connection

vars == <<sent, got, expected, pc, answer, routed, result, parsed, eventSize, frame, hungUp>>

-----------------------------------------------------------------------------
(* What clients send *)

Value(p, name) ==
    CASE name = "deviceId"  -> Quoted(p.deviceId)
      [] name = "timestamp" -> Decimal[p.timestamp]
      [] name = "telemetry" -> p.telemetryJson
      [] name = "hash"      -> Quoted(<<"sha">>)
      [] name = "signature" -> Quoted(<<"sig">>)
      [] name = "pubKeyId"  -> Quoted(<<"key-1">>)
      [] name = "transport" -> Quoted(p.transport)
      [] name = "batchCode" -> Quoted(p.batchCode)

Body(p, order) == JsonObject([i \in DOMAIN order |-> Member(order[i], Value(p, order[i]))])

\* No device sends a negative length.
ASSUME LengthsAssumption ==
    \A p \in Packets, order \in Orders, length \in Lengths \ {None} :
        Len(Body(p, order)) + length \in Nat

RequestText(method, target, length, body) ==
    <<method, " ">> \o target \o <<" ", "HTTP/1.1">> \o Crlf
    \o (IF length = None THEN <<"Host: gateway">>
        ELSE <<"Content-Length:", " ">> \o Decimal[Len(body) + length])
    \o Crlf \o Crlf \o body

Posts ==
    {[text |-> RequestText("POST", <<"/api/v1/ingest">>, length, Body(p, order)),
      whole |-> length = 0, wants |-> [op |-> "ingest", param |-> <<>>],
      packet |-> p, order |-> order] :
        p \in Packets, order \in Orders, length \in Lengths}

Others ==
    {[text |-> RequestText(a.method, a.target, None, <<>>),
      whole |-> TRUE, wants |-> a.wants, packet |-> None, order |-> <<>>] : a \in Asked}

Init ==
    /\ sent \in Posts \cup Others
    /\ got = 0 /\ expected = None /\ pc = "recv"
    /\ answer = None /\ routed = None /\ result = None /\ parsed = None
    /\ eventSize = None /\ frame = None
    /\ hungUp = FALSE

Raw == SubSeq(sent.text, 1, got)

-----------------------------------------------------------------------------
(* ReadHttpRequest *)

\* Mistakes in the steps below; each breaks one of the properties.
TotalWithoutBlankLine(raw) ==           \* the blank line is not counted
    (HeaderEnd(raw) - 1 + ParseContentLength(SubSeq(raw, 1, HeaderEnd(raw) - 1))) % Word

\* headerEnd + 4 + contentLength, in the width of size_t.
ExpectedTotalSize(raw) ==
    (HeaderEnd(raw) + 3 + ParseContentLength(SubSeq(raw, 1, HeaderEnd(raw) - 1))) % Word

\* Without a length the header is all; the size is computed once.
Enough(raw) ==
    \/ Len(raw) >= MaxRequestBytes
    \/ /\ HeaderEnd(raw) # 0
       /\ \/ expected = None /\ ParseContentLength(SubSeq(raw, 1, HeaderEnd(raw) - 1)) = 0
          \/ Len(raw) >= expected'

Recv(n) ==
    /\ pc = "recv"
    /\ got' = got + n /\ got' <= Len(sent.text)
    /\ LET raw == SubSeq(sent.text, 1, got')
       IN  /\ expected' = IF expected = None /\ HeaderEnd(raw) # 0
                          THEN ExpectedTotalSize(raw) ELSE expected
           /\ pc' = IF Enough(raw) THEN "handle" ELSE "recv"
    /\ UNCHANGED <<sent, answer, routed, result, parsed, eventSize, frame, hungUp>>

RecvEnds ==
    /\ pc = "recv" /\ pc' = "handle"
    /\ hungUp' = TRUE
    /\ UNCHANGED <<sent, got, expected, answer, routed, result, parsed, eventSize, frame>>

-----------------------------------------------------------------------------
(* HandleClient *)

NoRequest ==
    /\ Raw = <<>>
    /\ UNCHANGED <<answer, routed, result, parsed, eventSize, frame>>

InvalidRequest(request) ==
    /\ Raw # <<>> /\ request = None
    /\ answer' = BuildRawResponse("400", ErrorToJson(<<"invalid HTTP request">>))
    /\ UNCHANGED <<routed, result, parsed, eventSize, frame>>

\* The guards of Ingest on a packet of this body: the digest is of the text
\* that the device hashed, the signature is the device's.
ValidUnhashed(p) ==
    /\ p.deviceId # <<>> /\ p.timestamp # 0
    /\ p.hashHex = <<"sha">> /\ p.signature = <<"sig">> /\ p.pubKeyId = <<"key-1">>

Valid(p) ==
    /\ p.deviceId # <<>> /\ p.timestamp # 0
    /\ p.hashHex = <<"sha">> /\ HashedText(p) = HashedText(sent.packet)
    /\ p.signature = <<"sig">> /\ p.pubKeyId = <<"key-1">>

\* Saved with its receipt, or rejected with a text of a library in the message.
IngestResult(p) ==
    IF Valid(p)
    THEN [accepted |-> TRUE, message |-> <<"accepted">>, recordId |-> 1,
          receipt |-> [txHash |-> <<"tx">>, blockHeight |-> 7]]
    ELSE [accepted |-> FALSE, message |-> <<"near ", Quote, "key", Quote>>, recordId |-> 0,
          receipt |-> None]

Ingest(request) ==
    /\ request # None /\ routed' = RouteOf(request) /\ routed'.op = "ingest"
    /\ \E json \in {ParseTelemetryPacketJson(request.body)} :
          IF json.ok
          THEN /\ parsed' = json.packet
               /\ result' = IngestResult(parsed')
               /\ eventSize' \in EventSizes
               /\ frame' = FrameHeader(eventSize')
               /\ answer' = BuildRawResponse(IF result'.accepted THEN "202" ELSE "400",
                                             ResultToJson(result'))
          ELSE /\ answer' = BuildRawResponse("400", ErrorToJson(<<"missing ", json.error>>))
               /\ UNCHANGED <<parsed, result, eventSize, frame>>

\* Everything else; the answers of queries, of which SqliteQueries tells, of
\* metrics and of upgrades are left out.
RouteOther(request) ==
    /\ request # None /\ routed' = RouteOf(request) /\ routed'.op # "ingest"
    /\ answer' = IF routed'.op = "404"
                 THEN BuildRawResponse("404", ErrorToJson(<<"route not found">>))
                 ELSE None
    /\ UNCHANGED <<result, parsed, eventSize, frame>>

HandleClient ==
    /\ pc = "handle" /\ pc' = "closed"
    /\ \E request \in {ParseHttpRequest(Raw)} :
          NoRequest \/ InvalidRequest(request) \/ Ingest(request) \/ RouteOther(request)
    /\ UNCHANGED <<sent, got, expected, hungUp>>

Next == (\E n \in 1..BufferSize : Recv(n)) \/ RecvEnds \/ HandleClient

Spec == Init /\ [][Next]_vars

-----------------------------------------------------------------------------
(* Properties *)

SignedFields == {"deviceId", "timestamp", "telemetryJson"}

TypeOK ==
    /\ got \in 0..Len(sent.text) /\ got < MaxRequestBytes + BufferSize
    /\ expected \in 0 .. (Word - 1) \cup {None}
    /\ pc \in {"recv", "handle", "closed"}
    /\ parsed # None => parsed.timestamp \in 0 .. (Word - 1)

\* A request that declares its own length is read to its end and no further:
\* wherever the stream is cut into pieces, the reading neither stops early nor
\* waits for bytes that will not come (ReadHttpRequest, http_server.cpp:87-113).
WholeIsRouted ==
    sent.whole /\ Len(sent.text) <= MaxRequestBytes /\ ~hungUp =>
        (pc # "recv" <=> got = Len(sent.text))

\* A member is looked for in the whole body: one that the telemetry object
\* names, too, is found there if that object is first.
Position(name) == SelectInSeq(sent.order, LAMBDA x : x = name)
Shadowed(name) ==
    /\ Find(sent.packet.telemetryJson, 1, name) # 0
    /\ Position(name) = 0 \/ Position("telemetry") < Position(name)

\* "[^"]*": a string ends at its first quote, also at one that is escaped.
BeforeQuote(value) ==
    LET quote == ClosingQuote(value, 1)
    IN  IF quote = 0 THEN value ELSE SubSeq(value, 1, quote - 1)

\* What of a packet the parser can read.
AsRead(p) ==
    [deviceId |-> BeforeQuote(p.deviceId), timestamp |-> p.timestamp,
     telemetryJson |-> p.telemetryJson, transport |-> BeforeQuote(p.transport),
     batchCode |-> BeforeQuote(p.batchCode)]

\* Of a request that was read whole each member comes out as the device wrote
\* it, in every order, the telemetry with braces and quotes within its strings
\* and every other string up to the first quote in it, where it is cut.  It
\* fails only for want of a required member or a number too large; only a
\* name that stands in the telemetry object before is mistaken, and the number
\* there may be too large, too
\* (ExtractStringValue and ExtractObjectValue, json_parser.cpp:13-85).
ParsedAsSent ==
    pc = "closed" /\ sent.packet # None /\ got = Len(sent.text) =>
        LET given(name) == Position(name) # 0 /\ (name = "timestamp" => sent.packet.timestamp < Word)
            read(name) == IF name = "timestamp" THEN Decimal[parsed.timestamp]
                          ELSE IF name = "telemetry" THEN parsed.telemetryJson
                          ELSE Quoted(parsed[IF name = "hash" THEN "hashHex" ELSE name])
        IN  IF result = None
            THEN Shadowed("timestamp") \/ \E name \in ToSet(Required) : ~given(name)
            ELSE \A name \in ToSet(Required) \cup ToSet(sent.order) :
                    Shadowed(name) \/ (given(name) /\ read(name) = Value(AsRead(sent.packet), name))

\* What is accepted is what the device signed, also when the connection ended
\* within the request, a number or an id was cut, its length was wrong or a
\* member was mistaken (http_server.cpp:110, ingest_service.cpp:54-62).
AcceptedIsSigned ==
    result # None /\ result.accepted => \A f \in SignedFields : parsed[f] = sent.packet[f]

\* No digest guards the fields that are not signed: of what is accepted they
\* may get lost with their default in their place, be mistaken, or lose what
\* stands behind the first quote in them, but wherever the connection ends or
\* the length cuts the body, they are not cut anywhere else
\* (json_parser.cpp:14, :127-129; ingest_service.cpp:54-62).
UnsignedAsSent ==
    /\ result = None <=> parsed = None
    /\ result # None /\ result.accepted =>
        /\ \/ Shadowed("batchCode")
           \/ parsed.batchCode \in {BeforeQuote(sent.packet.batchCode), <<>>}
        /\ \/ Shadowed("transport")
           \/ parsed.transport \in {BeforeQuote(sent.packet.transport), <<"wifi">>}

\* What the schema and the outline of the interface say: a request with every
\* required member, the digest and the signature of its device is accepted,
\* whatever string its id is (telemetry.schema.json:13-16,
\* openapi-outline.md:14-19).  Of the code this is false: json_parser.cpp:14
\* cuts an id at the first quote in it, and the digest no longer fits.
AnyIdIsAccepted ==
    pc = "closed" /\ sent.packet # None /\ got = Len(sent.text) /\ sent.whole
        /\ sent.packet.deviceId # <<>> /\ sent.packet.timestamp \in 1 .. (Word - 1)
        /\ (\A name \in ToSet(Required) \cup {"pubKeyId"} : Position(name) # 0 /\ ~Shadowed(name)) =>
            result # None /\ result.accepted

\* The text that is hashed tells the three fields apart, also of devices whose
\* id holds the separator: no packet gets past the digest of another
\* (ingest_service.cpp:54-55, given what the parser lets through).
HashedTextIsUnique ==
    parsed # None =>
        \A p \in Packets :
            HashedText(p) = HashedText(parsed) => \A f \in SignedFields : p[f] = parsed[f]

\* The record that Ingest saved.
Record == [recordId |-> result.recordId, packet |-> parsed, receipt |-> result.receipt]

\* Every text that the gateway writes is one object, with the telemetry object
\* as it came and other fields escaped in it, and answers declare their length
\* (http_server.cpp:170-203, :460-485, :521-530, :583-592).
AnswersAreObjects ==
    /\ \A raw \in {answer} \ {None} : \E end \in {HeaderEnd(raw)} :
          /\ IsObject(SubSeq(raw, end + 4, Len(raw)))
          /\ ParseContentLength(SubSeq(raw, 1, end - 1)) = Len(raw) - end - 3
    /\ result # None => \A text \in {EventToJson(parsed, result)} : IsObject(text)
    /\ result # None /\ result.accepted =>
          \A text \in {RecordToJson(Record)} :
             IsObject(text) /\ ExtractObjectValue(text, "telemetry") = parsed.telemetryJson

\* A client that writes the parameter of a query into its path as it is gets
\* the query that it asked for, unless the parameter is empty or holds what
\* ends a path (Route, ExtractPathParam, StripQuery: http_server.cpp:505-580).
RoutedAsAsked ==
    routed # None /\ (sent.wants.op \in Queries => sent.wants.param # <<>>)
        /\ Find(sent.wants.param, 1, " ") = 0 /\ Find(sent.wants.param, 1, "?") = 0 =>
        routed = sent.wants

\* The size that a WebSocket client reads from the head of a frame.
SizeRead(head) ==
    CASE head[2] < 126 -> head[2]
      [] head[2] = 126 -> head[3] * 256 + head[4]
      [] head[2] = 127 ->
            LET read[i \in 2 .. Len(head)] == IF i = 2 THEN 0 ELSE read[i - 1] * 256 + head[i]
            IN  read[Len(head)]

\* The head of every frame is as long as its form says and tells the size of
\* the event (BuildWebSocketFrame, http_server.cpp:605-617).
FrameIsRead ==
    frame # None =>
        /\ Len(frame) = CASE frame[2] < 126 -> 2 [] frame[2] = 126 -> 4 [] frame[2] = 127 -> 10
        /\ SizeRead(frame) = eventSize
==============================================================================
