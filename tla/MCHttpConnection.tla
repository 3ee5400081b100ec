--------------------------- MODULE MCHttpConnection ---------------------------
(* HttpConnection with packets whose texts try the scanner, members in some  *)
(* orders, lengths that are wrong, and the queries with odd parameters.      *)
EXTENDS HttpConnection

Devices == {<<"a">>, <<"a", "1">>, <<"a", "|", "1">>, <<"a", "\\">>}

\* An empty object, a brace and an escaped quote in a string, separators with
\* a nested object, names of other members, and a number that is too large.
Objects ==
    {<<"{", "}">>,
     <<"{", Quote, "}", "\\", Quote, "{", Quote, "}">>,
     <<"{", "|", "1", "|", "{", "}", "}">>,
     <<"{", "deviceId", ":", "1", ",", "batchCode", ":", Quote, "x", Quote, "}">>,
     <<"{", "timestamp", ":", "2", ",", "hash", ":", Quote, "x", Quote, "}">>,
     <<"{", "timestamp", ":", "1", "0", "0", "}">>}

\* Strings with an escaped quote in them: the batch code and the transport,
\* and the id, also when it begins like an id with a timestamp and an object.
QuotedPackets ==
    {[deviceId |-> device, timestamp |-> 1, telemetryJson |-> <<"{", "}">>,
      transport |-> <<"\\", Quote, "l">>, batchCode |-> <<"b", "\\", Quote, "c">>] :
        device \in {<<"a">>, <<"a", "\\", Quote>>, <<"a", "|", "1", "|", "{", "\\", Quote>>}}

MCPackets ==
    {[deviceId |-> device, timestamp |-> time, telemetryJson |-> object,
      transport |-> <<"lora">>, batchCode |-> <<"b", "c">>] :
        device \in Devices, time \in {1, 12}, object \in Objects}
    \cup
    {[deviceId |-> device, timestamp |-> time, telemetryJson |-> <<"{", "}">>,
      transport |-> <<"lora">>, batchCode |-> <<"b", "c">>] :
        device \in {<<>>, <<"a">>}, time \in {0, 2, 100}}
    \cup QuotedPackets

\* The order of the tests; the telemetry first; the signed fields last, with a
\* number as the very last; and one without a required and an optional member.
MCOrders ==
    {<<"deviceId", "timestamp", "telemetry", "hash", "signature", "pubKeyId", "transport",
       "batchCode">>,
     <<"telemetry", "deviceId", "timestamp", "hash", "signature", "pubKeyId", "batchCode">>,
     <<"pubKeyId", "batchCode", "signature", "hash", "telemetry", "deviceId", "timestamp">>,
     <<"telemetry", "timestamp", "hash", "signature", "pubKeyId">>}

\* None, too short, exact, too long, and wrapped around or no number at all.
MCLengths == {None, -5, 0, 5, 40, 100}

Params == {<<"a">>, <<"a", "/latest">>, <<"a", "?">>, <<"a", " ", "b">>, <<>>}

Plain(method, path, op) ==
    [method |-> method, target |-> <<path, "?", "x">>, wants |-> [op |-> op, param |-> <<>>]]

MCAsked ==
    {[method |-> "GET", target |-> Prefix(op) \o param \o Suffix(op),
      wants |-> [op |-> op, param |-> param]] : op \in Queries, param \in Params}
    \cup {Plain("GET", "/health", "health"), Plain("POST", "/health", "404"),
          Plain("GET", "/api/v1/metrics/overview", "metrics"),
          Plain("GET", "/api/v1/ingest", "404")}
==============================================================================
