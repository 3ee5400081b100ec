-------------------------- MODULE InMemoryRepository --------------------------
(***************************************************************************)
(* InMemoryTelemetryRepository, which stands in for the SQLite one in the  *)
(* tests of IngestService: a vector of records and four hand-kept indexes, *)
(* each operation under the repository's mutex.  Positions count from 1.   *)
(* The operations are modelled as they are, for every argument; Attach     *)
(* states which receipts their only caller, Ingest, ever attaches.         *)
(***************************************************************************)
EXTENDS Integers, SequencesExt

CONSTANTS Packets, Receipts, NoReceipt, NoRecord, Int64Max,
          MaxRows       \* bound: rows ever saved

ASSUME ReceiptsAssumption == NoReceipt \notin Receipts    \* std::nullopt
ASSUME MaxRowsAssumption  == MaxRows \in Nat
ASSUME RecordsAssumption  ==
    NoRecord \notin [recordId : Nat, packet : Packets,
                     receipt : Receipts \cup {NoReceipt}]

VARIABLES
    records,            \* records_: a sequence of [recordId, packet, receipt]
    nextRecordId,
    positionById,       \* record id -> its place in records
    recordIdsByDevice,  \* device -> ids of its records, oldest first
    recordIdsByBatch,   \* the same for batches
    recordIdByTxHash    \* transaction -> record id

vars == <<records, nextRecordId, positionById, recordIdsByDevice,
          recordIdsByBatch, recordIdByTxHash>>

Ids(r) == {r[i].recordId : i \in DOMAIN r}

\* The table that a caller would see.
AsRows ==
    [id \in Ids(records) |->
        LET r == records[CHOOSE i \in DOMAIN records : records[i].recordId = id]
        IN [packet |-> r.packet, receipt |-> r.receipt]]

Db == INSTANCE SqliteQueries
        WITH rows <- AsRows, seq <- nextRecordId - 1, SqlCanFail <- FALSE

Put(f, key, value)   == [k \in DOMAIN f \cup {key} |-> IF k = key THEN value ELSE f[k]]
Without(f, key)      == [k \in DOMAIN f \ {key} |-> f[k]]
Append1(f, key, id)  == Put(f, key, IF key \in DOMAIN f THEN Append(f[key], id) ELSE <<id>>)

\* The elements of s at these positions, in their order (std::remove, push_back
\* in a loop).
Keep(s, positions) ==
    LET nth(k) == CHOOSE i \in positions :
                      Cardinality({j \in positions : j <= i}) = k
    IN [k \in 1..Cardinality(positions) |-> s[nth(k)]]

\* eraseRecordId, and the key when nothing is left under it.
Erase(f, key, id) ==
    IF key \notin DOMAIN f THEN f
    ELSE LET left == Keep(f[key], {i \in DOMAIN f[key] : f[key][i] # id})
         IN IF left = <<>> THEN Without(f, key) ELSE Put(f, key, left)

Init ==
    /\ records = <<>> /\ nextRecordId = 1
    /\ positionById = <<>>
    /\ recordIdsByDevice = <<>> /\ recordIdsByBatch = <<>> /\ recordIdByTxHash = <<>>

\* A mistake in Save: the id is the size of the vector.
SaveNumbersBySize(packet) ==
    LET id == Len(records) + 1
    IN /\ nextRecordId' = id + 1
       /\ records' = Append(records,
              [recordId |-> id, packet |-> packet, receipt |-> NoReceipt])
       /\ positionById' = Put(positionById, id, Len(records'))
       /\ recordIdsByDevice' = Append1(recordIdsByDevice, packet.deviceId, id)
       /\ UNCHANGED <<recordIdsByBatch, recordIdByTxHash>>

Save(packet) ==
    /\ nextRecordId' = nextRecordId + 1
    /\ records' = Append(records,
           [recordId |-> nextRecordId, packet |-> packet, receipt |-> NoReceipt])
    /\ positionById' = Put(positionById, nextRecordId, Len(records'))
    /\ recordIdsByDevice' = Append1(recordIdsByDevice, packet.deviceId, nextRecordId)
    /\ recordIdsByBatch' =
           IF packet.batchCode = "" THEN recordIdsByBatch
           ELSE Append1(recordIdsByBatch, packet.batchCode, nextRecordId)
    /\ UNCHANGED recordIdByTxHash

\* A mistake in AttachReceipt: the transaction is indexed by position.
AttachReceiptByPosition(id, receipt) ==
    /\ id \in DOMAIN positionById
    /\ records' = [records EXCEPT ![positionById[id]].receipt = receipt]
    /\ recordIdByTxHash' = Put(recordIdByTxHash, receipt.txHash, positionById[id])
    /\ UNCHANGED <<nextRecordId, positionById, recordIdsByDevice, recordIdsByBatch>>

AttachReceipt(id, receipt) ==
    /\ id \in DOMAIN positionById
    /\ records' = [records EXCEPT ![positionById[id]].receipt = receipt]
    /\ recordIdByTxHash' = Put(recordIdByTxHash, receipt.txHash, id)
    /\ UNCHANGED <<nextRecordId, positionById, recordIdsByDevice, recordIdsByBatch>>

\* records_ and the three id indexes without the record at this position.
Forget(position) ==
    LET record == records[position]
        id     == record.recordId
        batch  == record.packet.batchCode
    IN /\ records' = RemoveAt(records, position)
       /\ recordIdsByDevice' = Erase(recordIdsByDevice, record.packet.deviceId, id)
       /\ recordIdsByBatch' =
              IF batch = "" THEN recordIdsByBatch ELSE Erase(recordIdsByBatch, batch, id)
       /\ recordIdByTxHash' =
              IF record.receipt = NoReceipt THEN recordIdByTxHash
              ELSE Without(recordIdByTxHash, record.receipt.txHash)

\* A mistake in Delete: the transaction stays in its index.
DeleteKeepsTx(id) ==
    /\ id \in DOMAIN positionById
    /\ LET position == positionById[id]
           record   == records[position]
       IN /\ records' = RemoveAt(records, position)
          /\ recordIdsByDevice' = Erase(recordIdsByDevice, record.packet.deviceId, id)
          /\ recordIdsByBatch' = Erase(recordIdsByBatch, record.packet.batchCode, id)
          /\ positionById' =
                 [other \in DOMAIN positionById \ {id} |->
                     CHOOSE i \in DOMAIN records' : records'[i].recordId = other]
    /\ UNCHANGED <<nextRecordId, recordIdByTxHash>>

\* positionById_ is written again from the erased position to the end.
Delete(id) ==
    /\ id \in DOMAIN positionById
    /\ LET position == positionById[id]
       IN /\ Forget(position)
          /\ positionById' =
                 [other \in DOMAIN positionById \ {id} |->
                     IF \E i \in position..Len(records') : records'[i].recordId = other
                     THEN CHOOSE i \in position..Len(records') :
                              records'[i].recordId = other
                     ELSE positionById[other]]
    /\ UNCHANGED nextRecordId

\* AttachReceipt and Delete return false for an id they do not know.
Unknown(id) == id \notin DOMAIN positionById /\ UNCHANGED vars

\* What the caller does, not this class: Ingest attaches one receipt to the
\* record that it saved, and its transaction is new, because this store lives no
\* longer than the mock's counter.
Attach(id, receipt) ==
    /\ records[positionById[id]].receipt = NoReceipt
    /\ receipt.txHash \notin DOMAIN recordIdByTxHash
    /\ AttachReceipt(id, receipt)

Next ==
    \/ nextRecordId <= MaxRows /\ \E packet \in Packets : Save(packet)
    \/ \E id \in DOMAIN positionById, receipt \in Receipts : Attach(id, receipt)
    \/ \E id \in 1..MaxRows : Delete(id) \/ Unknown(id)

Spec == Init /\ [][Next]_vars

------------------------------------------------------------------------------
(* Queries *)

FindByIdLocked(id) ==
    IF id \in DOMAIN positionById THEN records[positionById[id]] ELSE NoRecord

LatestByDevice(deviceId) ==
    IF deviceId \in DOMAIN recordIdsByDevice
    THEN FindByIdLocked(Last(recordIdsByDevice[deviceId]))
    ELSE NoRecord

FindByTransaction(txHash) ==
    IF txHash \in DOMAIN recordIdByTxHash
    THEN FindByIdLocked(recordIdByTxHash[txHash])
    ELSE NoRecord

FindByBatch(batchCode) ==
    IF batchCode \notin DOMAIN recordIdsByBatch THEN <<>>
    ELSE LET ids   == recordIdsByBatch[batchCode]
             found == [i \in DOMAIN ids |-> FindByIdLocked(ids[i])]
         IN Keep(found, {i \in DOMAIN ids : found[i] # NoRecord})

------------------------------------------------------------------------------
Devices == {packet.deviceId : packet \in Packets}
Batches == {packet.batchCode : packet \in Packets}
Txs     == {receipt.txHash : receipt \in Receipts}

\* Every index says what a scan of the records would, and nothing more: a
\* position is its record's, and no id or transaction outlives its record
\* (Delete's erasing and renumbering).
IndexConsistent ==
    LET ids         == [i \in DOMAIN records |-> records[i].recordId]
        device(i)   == records[i].packet.deviceId
        batch(i)    == records[i].packet.batchCode
        Holds(i, t) == /\ records[i].receipt # NoReceipt
                       /\ records[i].receipt.txHash = t
    IN /\ DOMAIN positionById = Ids(records)
       /\ \A i \in DOMAIN records : positionById[records[i].recordId] = i
       /\ DOMAIN recordIdsByDevice = {device(i) : i \in DOMAIN records}
       /\ \A d \in DOMAIN recordIdsByDevice :
             recordIdsByDevice[d] = Keep(ids, {i \in DOMAIN records : device(i) = d})
       /\ DOMAIN recordIdsByBatch = {batch(i) : i \in DOMAIN records} \ {""}
       /\ \A b \in DOMAIN recordIdsByBatch :
             recordIdsByBatch[b] = Keep(ids, {i \in DOMAIN records : batch(i) = b})
       /\ \A t \in Txs :
             IF t \in DOMAIN recordIdByTxHash
             THEN <<recordIdByTxHash[t]>> = Keep(ids, {i \in DOMAIN records : Holds(i, t)})
             ELSE \A i \in DOMAIN records : ~Holds(i, t)

\* While packets are saved in the order of their timestamps, a test that runs
\* on this repository reads what agri_gateway would read from SQLite.
QueriesAgree ==
    /\ \A t \in Txs : FindByTransaction(t) = Db!FindByTransaction(t)
    /\ (\A i, j \in DOMAIN records :
           i < j => records[i].packet.timestamp <= records[j].packet.timestamp)
       => /\ \A d \in Devices : LatestByDevice(d) = Db!LatestByDevice(d)
          /\ \A b \in Batches : FindByBatch(b) = Db!FindByBatch(b)

\* Seen as a table, it does what SQLiteTelemetryRepository does.
DbSpec == Db!Spec

==============================================================================
