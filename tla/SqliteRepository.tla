-------------------------- MODULE SqliteRepository --------------------------
(***************************************************************************)
(* SQLiteTelemetryRepository: one table, every operation a single SQL      *)
(* statement in its own transaction under the repository's mutex, hence    *)
(* one step here.  A statement that fails throws and changes nothing.      *)
(* The table and the AUTOINCREMENT counter are in the database file and    *)
(* survive the process.                                                    *)
(***************************************************************************)
EXTENDS Integers, FiniteSets

CONSTANTS Packets,      \* what Save may be given
          Receipts,     \* what AttachReceipt may be given
          NoReceipt,    \* tx_hash IS NULL
          SqlCanFail,   \* may a statement fail (busy, disk full, I/O error)?
          MaxRows       \* bound: rows ever inserted in a run of this module

VARIABLES rows,         \* record_id -> [packet, receipt]
          seq           \* sqlite_sequence: the last record_id given out

repository == <<rows, seq>>

SqlFault == SqlCanFail /\ UNCHANGED repository

Init == rows = [id \in {} |-> NoReceipt] /\ seq = 0    \* EnsureSchema, new file

\* Mistakes in the statements below; each breaks one of the properties.
SaveReusesIds(packet) ==                \* record_id without AUTOINCREMENT
    LET free == {id \in 1..(seq + 1) : id \notin DOMAIN rows}
        id   == CHOOSE i \in free : \A j \in free : i <= j
    IN /\ seq' = IF id > seq THEN id ELSE seq
       /\ rows' = [i \in DOMAIN rows \cup {id} |->
                      IF i = id
                      THEN [packet |-> packet, receipt |-> NoReceipt]
                      ELSE rows[i]]

SaveKeepsCounter(packet) ==             \* the counter is not written back
    /\ UNCHANGED seq
    /\ rows' = [i \in DOMAIN rows \cup {seq + 1} |->
                   IF i = seq + 1
                   THEN [packet |-> packet, receipt |-> NoReceipt]
                   ELSE rows[i]]

DeleteLastInserted(id) ==               \* WHERE record_id = last_insert_rowid()
    /\ seq \in DOMAIN rows
    /\ rows' = [i \in DOMAIN rows \ {seq} |-> rows[i]]
    /\ UNCHANGED seq

TxNeverTaken(id, txHash) == FALSE       \* an index that is not UNIQUE

\* INSERT, then sqlite3_last_insert_rowid: the new id is seq'.
Save(packet) ==
    /\ seq' = seq + 1
    /\ rows' = [id \in DOMAIN rows \cup {seq'} |->
                   IF id = seq'
                   THEN [packet |-> packet, receipt |-> NoReceipt]
                   ELSE rows[id]]

\* The UNIQUE index on tx_hash: some other row holds this hash.
TxTaken(id, txHash) ==
    \E other \in DOMAIN rows \ {id} :
        /\ rows[other].receipt # NoReceipt
        /\ rows[other].receipt.txHash = txHash

AttachReceipt(id, receipt) ==                            \* returns true
    /\ id \in DOMAIN rows
    /\ ~TxTaken(id, receipt.txHash)
    /\ rows' = [rows EXCEPT ![id].receipt = receipt]
    /\ UNCHANGED seq

AttachReceiptFails(id, receipt) ==                       \* returns false or throws
    \/ id \notin DOMAIN rows /\ UNCHANGED repository
    \/ id \in DOMAIN rows /\ TxTaken(id, receipt.txHash) /\ UNCHANGED repository
    \/ SqlFault

Delete(id) ==                                            \* returns true
    /\ id \in DOMAIN rows
    /\ rows' = [i \in DOMAIN rows \ {id} |-> rows[i]]
    /\ UNCHANGED seq

DeleteFails(id) ==                                       \* returns false or throws
    \/ id \notin DOMAIN rows /\ UNCHANGED repository
    \/ SqlFault

Next ==
    \/ seq < MaxRows /\ \E packet \in Packets : Save(packet)
    \/ \E id \in 1..MaxRows, receipt \in Receipts :
          AttachReceipt(id, receipt) \/ AttachReceiptFails(id, receipt)
    \/ \E id \in 1..MaxRows : Delete(id) \/ DeleteFails(id)

Spec == Init /\ [][Next]_repository

Size == Cardinality(DOMAIN rows)                         \* SELECT COUNT(1)

------------------------------------------------------------------------------
TypeOK ==
    /\ seq \in Nat
    /\ DOMAIN rows \subseteq 1..seq
    /\ \A id \in DOMAIN rows :
          rows[id] \in [packet : Packets, receipt : Receipts \cup {NoReceipt}]
==============================================================================
