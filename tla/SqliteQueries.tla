---------------------------- MODULE SqliteQueries ----------------------------
(***************************************************************************)
(* The SELECTs of SQLiteTelemetryRepository, each one statement over the   *)
(* table as it is, in the order that its ORDER BY gives.                   *)
(***************************************************************************)
EXTENDS SqliteRepository, SequencesExt

CONSTANTS NoRecord,     \* std::nullopt
          Int64Max      \* 2^63 - 1 in the code

\* static_cast<std::int64_t> of the unsigned packet timestamp, the value of
\* the timestamp column and the key of every ORDER BY.
ToInt64(u) == IF u <= Int64Max THEN u ELSE u - 2 * (Int64Max + 1)

Before(a, b) ==
    LET ta == ToInt64(rows[a].packet.timestamp)
        tb == ToInt64(rows[b].packet.timestamp)
    IN ta < tb \/ (ta = tb /\ a < b)

RowToRecord(id) ==
    [recordId |-> id, packet |-> rows[id].packet, receipt |-> rows[id].receipt]

LatestByDevice(deviceId) ==
    LET matches == {id \in DOMAIN rows : rows[id].packet.deviceId = deviceId}
        latest(id) == \A other \in matches \ {id} : Before(other, id)
    IN IF matches = {} THEN NoRecord
       ELSE RowToRecord(CHOOSE id \in matches : latest(id))

FindByTransaction(txHash) ==
    LET matches == {id \in DOMAIN rows : /\ rows[id].receipt # NoReceipt
                                         /\ rows[id].receipt.txHash = txHash}
    IN IF matches = {} THEN NoRecord
       ELSE RowToRecord(CHOOSE id \in matches : TRUE)

\* batch_code is NULL in rows saved without one, and NULL matches nothing.
FindByBatch(batchCode) ==
    LET matches == {id \in DOMAIN rows : /\ rows[id].packet.batchCode # ""
                                         /\ rows[id].packet.batchCode = batchCode}
        sorted  == CHOOSE s \in SetToSeqs(matches) :
                       \A i, j \in DOMAIN s : i < j => Before(s[i], s[j])
    IN [i \in 1..Len(sorted) |-> RowToRecord(sorted[i])]

------------------------------------------------------------------------------
\* "latest" is the record of the device with the greatest timestamp: a
\* timestamp is an unsigned integer (docs/api/openapi-outline.md).
LatestIsNewest ==
    \A id \in DOMAIN rows :
        LatestByDevice(rows[id].packet.deviceId).packet.timestamp
            >= rows[id].packet.timestamp

==============================================================================
