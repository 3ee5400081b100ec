----------------------------- MODULE HttpMessages -----------------------------
(***************************************************************************)
(* What http_server.cpp does with the texts of requests, answers and       *)
(* frames: no step here has a state.  Symbols are those of TelemetryJson,  *)
(* with one for each method, version, literal part of a path and header    *)
(* name, and two for the end of a line.                                    *)
(***************************************************************************)
EXTENDS TelemetryJson

Crlf == <<"\r", "\n">>

\* find("\r\n") and find("\r\n\r\n"): a position, 0 for none.
FindSeq(text, part) ==
    LET found == {i \in 1 .. Len(text) - Len(part) + 1 :
                      SubSeq(text, i, i + Len(part) - 1) = part}
    IN  IF found = {} THEN 0 ELSE Min(found)

HeaderEnd(raw) == FindSeq(raw, Crlf \o Crlf)

-----------------------------------------------------------------------------
(* Requests *)

\* A number that does not fit is caught and means 0, as does no header.
ParseContentLength(headers) ==
    LET value(i) == SkipSpaces(headers, i + 1)
        found == {i \in DOMAIN headers : /\ headers[i] = "Content-Length:"
                                         /\ IsDigit(At(headers, value(i)))}
    IN  IF found = {} THEN 0
        ELSE ValueOr(ParseUnsigned(DigitsAt(headers, value(Min(found)))), 0)

\* A request that was parsed.
Request == [method : Seq(STRING), path : Seq(STRING), body : Seq(STRING)]

\* operator>> to a string, from a position in the first line: the next word,
\* empty at the end, and the position behind it.
WordEnd(line, from) == PastAll(line, SkipSpaces(line, from), LAMBDA x : x \notin Spaces)
NextWord(line, from) == SubSeq(line, SkipSpaces(line, from), WordEnd(line, from) - 1)

\* Without a header line behind the first there is no request, either.
ParseHttpRequest(raw) ==
    LET end     == HeaderEnd(raw)
        headers == SubSeq(raw, 1, end - 1)
        crlf    == FindSeq(headers, Crlf)
        line    == SubSeq(headers, 1, crlf - 1)
        path    == WordEnd(line, 1)
        version == WordEnd(line, path)
    IN  IF end = 0 \/ crlf = 0 \/ NextWord(line, version) = <<>> THEN None
        ELSE [method |-> NextWord(line, 1), path |-> NextWord(line, path),
              body |-> SubSeq(raw, end + 4, Len(raw))]

StripQuery(path) ==
    LET query == Find(path, 1, "?") IN IF query = 0 THEN path ELSE SubSeq(path, 1, query - 1)

\* A mistake in ExtractPathParam: what is behind the suffix is not looked at.
ExtractPathParamAnywhere(path, prefix, suffix) ==
    LET n == (IF suffix = <<>> THEN Len(path) + 1 ELSE FindSeq(path, suffix)) - Len(prefix) - 1
    IN  IF IsPrefix(prefix, path) /\ n > 0 THEN SubSeq(path, Len(prefix) + 1, Len(prefix) + n)
        ELSE None

ExtractPathParam(path, prefix, suffix) ==
    LET n == Len(path) - Len(prefix) - Len(suffix)
    IN  IF IsPrefix(prefix, path) /\ IsSuffix(suffix, path) /\ n > 0
        THEN SubSeq(path, Len(prefix) + 1, Len(prefix) + n)
        ELSE None

\* Queries by a parameter in the path, in the order of Route: no path fits two.
Queries == {"device", "batch", "transaction"}
Prefix(op) == IF op = "device" THEN <<"/api/v1/devices/">>
              ELSE IF op = "batch" THEN <<"/api/v1/batches/">>
              ELSE <<"/api/v1/transactions/">>
Suffix(op) == IF op = "device" THEN <<"/latest">>
              ELSE IF op = "batch" THEN <<"/trace">> ELSE <<>>

\* What a request is dispatched to, and the parameter of a query.
RouteOf(request) ==
    LET path == StripQuery(request.path)
        is(method, target) == request.method = <<method>> /\ path = <<target>>
        query == {op \in Queries : /\ request.method = <<"GET">>
                                   /\ ExtractPathParam(path, Prefix(op), Suffix(op)) # None}
        op == CHOOSE q \in query : TRUE
    IN  CASE path \in {<<"/ws/telemetry">>, <<"/ws/alerts">>} -> [op |-> "upgrade", param |-> path]
          [] is("GET", "/health") -> [op |-> "health", param |-> <<>>]
          [] is("POST", "/api/v1/ingest") -> [op |-> "ingest", param |-> <<>>]
          [] is("GET", "/api/v1/metrics/overview") -> [op |-> "metrics", param |-> <<>>]
          [] query # {} ->
                 [op |-> op, param |-> ExtractPathParam(path, Prefix(op), Suffix(op))]
          [] OTHER -> [op |-> "404", param |-> <<>>]

-----------------------------------------------------------------------------
(* Answers *)

Quoted(value)  == <<Quote>> \o value \o <<Quote>>
Member(name, value) == <<name, ":">> \o value
JsonText(name, value)   == Member(name, Quoted(JsonEscape(value)))
JsonNumber(name, value) == Member(name, Decimal[value])

\* Members between braces, with commas.
JsonObject(members) ==
    <<"{">> \o FlattenSeq([i \in DOMAIN members |->
                              IF i = 1 THEN members[i] ELSE <<",">> \o members[i]]) \o <<"}">>

ReceiptToJson(receipt) ==
    IF receipt = None THEN <<"null">>
    ELSE JsonObject(<<JsonText("txHash", receipt.txHash),
                      JsonNumber("blockHeight", receipt.blockHeight),
                      JsonText("submittedAt", <<"now">>)>>)

\* The telemetry object is written as it came.
RecordToJson(record) ==
    JsonObject(
        <<JsonNumber("recordId", record.recordId),
          JsonText("deviceId", record.packet.deviceId),
          JsonNumber("timestamp", record.packet.timestamp),
          Member("telemetry", record.packet.telemetryJson),
          JsonText("hash", record.packet.hashHex),
          JsonText("signature", record.packet.signature),
          JsonText("pubKeyId", record.packet.pubKeyId),
          JsonText("transport", record.packet.transport)>>
        \o (IF record.packet.batchCode = <<>> THEN <<>>
            ELSE <<JsonText("batchCode", record.packet.batchCode)>>)
        \o <<Member("receipt", ReceiptToJson(record.receipt))>>)

ErrorToJson(error) == JsonObject(<<JsonText("error", error)>>)

ResultToJson(result) ==
    JsonObject(<<Member("accepted", IF result.accepted THEN <<"true">> ELSE <<"false">>),
                 JsonText("message", result.message),
                 JsonNumber("recordId", result.recordId),
                 JsonNumber("processingMs", 0),
                 Member("receipt", ReceiptToJson(result.receipt))>>)

EventToJson(packet, result) ==
    IF result.accepted
    THEN JsonObject(<<JsonText("type", <<"telemetry.ingested">>),
                      JsonText("deviceId", packet.deviceId),
                      JsonNumber("recordId", result.recordId),
                      JsonNumber("timestamp", packet.timestamp),
                      JsonText("transport", packet.transport),
                      JsonText("txHash", result.receipt.txHash)>>)
    ELSE JsonObject(<<JsonText("type", <<"ingest.rejected">>),
                      JsonText("deviceId", packet.deviceId),
                      JsonText("message", result.message)>>)

BuildRawResponse(status, body) ==
    <<"HTTP/1.1", " ", status>> \o Crlf \o <<"Content-Length:", " ">> \o Decimal[Len(body)]
    \o Crlf \o <<"Connection: close">> \o Crlf \o Crlf \o body

-----------------------------------------------------------------------------
(* Frames *)

\* A size without this many of its low bytes.
Shifted(size, bytes) ==
    LET shifted[n \in 0..8] == IF n = 0 THEN size ELSE shifted[n - 1] \div 256
    IN  shifted[bytes]

\* A mistake in FrameHeader: 126 does not mark a longer size.
FrameHeaderShort(size) ==
    IF size <= 126 THEN <<129, size>>
    ELSE IF size <= 65535 THEN <<129, 126, size \div 256, size % 256>>
    ELSE <<129, 127>> \o [i \in 1..8 |-> Shifted(size, 8 - i) % 256]

\* BuildWebSocketFrame before the payload.
FrameHeader(size) ==
    IF size <= 125 THEN <<129, size>>
    ELSE IF size <= 65535 THEN <<129, 126, size \div 256, size % 256>>
    ELSE <<129, 127>> \o [i \in 1..8 |-> Shifted(size, 8 - i) % 256]
==============================================================================
