---------------------------- MODULE IngestService ----------------------------
(***************************************************************************)
(* IngestService: a packet is checked, saved, its hash submitted to the    *)
(* chain and the receipt attached to the saved row; a failure after Save   *)
(* deletes the row again.  Ingest has no lock of its own: the repository   *)
(* and the metrics each have a mutex, so every step below is one critical  *)
(* section and the calls of different threads interleave between them.     *)
(* The process may stop between any two steps and start again on the same  *)
(* database and chain.                                                     *)
(***************************************************************************)
EXTENDS Integers, Sequences, FiniteSets

CONSTANTS
    Packets,        \* what Ingest is called with
    LoadedKeys,     \* key ids of the verifier
    Callers,        \* threads inside Ingest: one in agri_gateway
    Heights,        \* block numbers
    Nonces,         \* transaction numbers
    Mock,           \* the chain client: the mock, or a JSON-RPC node's
    SqlCanFail,     \* may SQL statements fail?
    MaxRequests,    \* bound: calls of Ingest in a run
    MaxRestarts,    \* bound: times the process stops
    None            \* no packet, no transaction, no receipt

VARIABLES
    rows, seq,              \* the repository
    chain, nonce, tx,       \* the chain and the client's calls
    pc,                     \* pc[c]: what c's call does next
    packet,                 \* packet[c]: its argument
    recordId, receipt,      \* of its IngestResult; 0 and None when unset
    rollbackFailed,         \* its message tells of a failed rollback
    metrics,                \* totalRequests, acceptedRequests, rejectedRequests
    \* history, read by no step of the code
    answers,                \* the results returned to callers
    abandoned,              \* unproved rows whose call was cut short by a stop
    provedAtStart,          \* rows with a receipt when the process started
    uncounted,              \* calls of earlier processes, or ended by Save's exception
    requests, restarts      \* calls of Ingest and stops so far

store   == <<rows, seq>>
client  == <<chain, nonce, tx>>
locals  == <<packet, recordId, receipt, rollbackFailed>>
history == <<abandoned, provedAtStart, uncounted, restarts>>
vars    == <<store, client, pc, locals, metrics, answers, history, requests>>

Hashes   == {p.hashHex : p \in Packets}
Receipts == [txHash : Hashes \X Nonces, blockHeight : Heights \cup {0}]

ASSUME NoncesAssumption == Nonces \subseteq Nat
ASSUME NoneAssumption ==
    /\ None \notin Packets
    /\ None \notin (Hashes \X Nonces) \cup {<<>>}
    /\ None \notin Receipts

Repo     == INSTANCE SqliteRepository WITH MaxRows <- MaxRequests, NoReceipt <- None
Chain    == INSTANCE BlockchainClient WITH NoTx <- None
Verifier == INSTANCE SignatureVerifier
Ledger   == INSTANCE TelemetryLedger
                WITH records <- rows, lastId <- seq, NoReceipt <- None

Proved    == {id \in DOMAIN rows : rows[id].receipt # None}
Labels    == {"idle", "save", "submit", "attach", "rollback", "accept", "reject"}
NoMetrics == [total |-> 0, accepted |-> 0, rejected |-> 0]

Init ==
    /\ Repo!Init /\ Chain!Init
    /\ pc = [c \in Callers |-> "idle"]
    /\ packet = [c \in Callers |-> None]
    /\ recordId = [c \in Callers |-> 0]
    /\ receipt = [c \in Callers |-> None]
    /\ rollbackFailed = [c \in Callers |-> FALSE]
    /\ metrics = NoMetrics
    /\ answers = {} /\ abandoned = {}
    /\ provedAtStart = 0 /\ uncounted = 0 /\ requests = 0 /\ restarts = 0

From(c, label, next) == pc[c] = label /\ pc' = [pc EXCEPT ![c] = next]

\* The locals of Ingest are gone when it ends.
Leave(c) ==
    /\ packet' = [packet EXCEPT ![c] = None]
    /\ recordId' = [recordId EXCEPT ![c] = 0]
    /\ receipt' = [receipt EXCEPT ![c] = None]
    /\ rollbackFailed' = [rollbackFailed EXCEPT ![c] = FALSE]

\* Mistakes in the steps below; each breaks one of the properties.
ValidUnsigned(p) ==                     \* the verifier is not asked
    /\ p.deviceId # "" /\ p.timestamp # 0 /\ p.telemetryJson # ""
    /\ p.hashHex = Verifier!Sha256Hex(p.deviceId, p.timestamp, p.telemetryJson)

SubmitHashShared(c) ==                  \* the receipt is a member, not a local
    /\ From(c, "submit", "attach")
    /\ \E r \in Receipts :
          /\ Chain!Return(c, packet[c].hashHex, r)
          /\ receipt' = [d \in Callers |-> r]
    /\ UNCHANGED <<store, packet, recordId, rollbackFailed, metrics, answers,
                   history, requests>>

SubmitHashRetries(c) ==                 \* try again when SubmitHash throws
    /\ From(c, "submit", "submit")
    /\ tx' = [tx EXCEPT ![c] = Chain!Called]
    /\ UNCHANGED <<store, chain, nonce, locals, metrics, answers, history, requests>>

SubmitHashThrowsKeeps(c) ==             \* no rollback in that catch
    /\ From(c, "submit", "reject")
    /\ Chain!Throw(c)
    /\ UNCHANGED <<store, locals, metrics, answers, history, requests>>

AttachReceiptFailsKeeps(c) ==           \* nor in this one
    /\ From(c, "attach", "reject")
    /\ Repo!AttachReceiptFails(recordId[c], receipt[c])
    /\ receipt' = [receipt EXCEPT ![c] = None]
    /\ UNCHANGED <<client, packet, recordId, rollbackFailed, metrics, answers,
                   history, requests>>

SubmitHashEscapes(c) ==                 \* only std::exception is caught
    /\ From(c, "submit", "idle")
    /\ Chain!Throw(c)
    /\ Leave(c)
    /\ UNCHANGED <<store, metrics, answers, history, requests>>

SubmitHashReuses(c) ==                  \* the proof of an earlier copy is as good
    /\ From(c, "submit", "attach")
    /\ \E r \in Receipts :
          /\ \/ Chain!Return(c, packet[c].hashHex, r)
             \/ /\ \E id \in Proved : rows[id].receipt = r /\ r.txHash[1] = packet[c].hashHex
                /\ Chain!Throw(c)
          /\ receipt' = [receipt EXCEPT ![c] = r]
    /\ UNCHANGED <<store, packet, recordId, rollbackFailed, metrics, answers,
                   history, requests>>

IngestResultUnnumbered(c) ==            \* result.recordId is never set
    [accepted |-> pc[c] = "accept", packet |-> packet[c], recordId |-> 0,
     receipt |-> receipt[c], rollbackFailed |-> rollbackFailed[c]]

\* The guards of Ingest, in its order; each one that fails rejects the packet.
Valid(p) ==
    /\ p.deviceId # ""
    /\ p.timestamp # 0
    /\ p.telemetryJson # ""
    /\ Verifier!IsHex64(p.hashHex)
    /\ p.hashHex = Verifier!Sha256Hex(p.deviceId, p.timestamp, p.telemetryJson)
    /\ Verifier!Verify(p)

Ingest(c, p) ==
    /\ requests < MaxRequests
    /\ requests' = requests + 1
    /\ From(c, "idle", IF Valid(p) THEN "save" ELSE "reject")
    /\ packet' = [packet EXCEPT ![c] = p]
    /\ UNCHANGED <<store, client, recordId, receipt, rollbackFailed, metrics,
                   answers, history>>

Save(c) ==
    /\ From(c, "save", "submit")
    /\ Repo!Save(packet[c])
    /\ recordId' = [recordId EXCEPT ![c] = seq']
    /\ Chain!Call(c)
    /\ UNCHANGED <<packet, receipt, rollbackFailed, metrics, answers,
                   history, requests>>

\* Save is outside every try: its exception leaves Ingest, uncounted.
SaveThrows(c) ==
    /\ From(c, "save", "idle")
    /\ Repo!SqlFault
    /\ Leave(c)
    /\ uncounted' = uncounted + 1
    /\ UNCHANGED <<client, metrics, answers, abandoned, provedAtStart, restarts, requests>>

NodeTakesTx(c) ==
    /\ pc[c] = "submit"
    /\ Chain!Post(c, packet[c].hashHex)
    /\ UNCHANGED <<store, pc, locals, metrics, answers, history, requests>>

SubmitHash(c) ==
    /\ From(c, "submit", "attach")
    /\ \E r \in Receipts :
          /\ Chain!Return(c, packet[c].hashHex, r)
          /\ receipt' = [receipt EXCEPT ![c] = r]
    /\ UNCHANGED <<store, packet, recordId, rollbackFailed, metrics, answers,
                   history, requests>>

SubmitHashThrows(c) ==
    /\ From(c, "submit", "rollback")
    /\ Chain!Throw(c)
    /\ UNCHANGED <<store, locals, metrics, answers, history, requests>>

AttachReceipt(c) ==
    /\ From(c, "attach", "accept")
    /\ Repo!AttachReceipt(recordId[c], receipt[c])
    /\ UNCHANGED <<client, locals, metrics, answers, history, requests>>

\* result.receipt is set only after this, so it stays unset.
AttachReceiptFails(c) ==
    /\ From(c, "attach", "rollback")
    /\ Repo!AttachReceiptFails(recordId[c], receipt[c])
    /\ receipt' = [receipt EXCEPT ![c] = None]
    /\ UNCHANGED <<client, packet, recordId, rollbackFailed, metrics, answers,
                   history, requests>>

\* rollbackBestEffort: a failure only lengthens the message.
Rollback(c) ==
    /\ From(c, "rollback", "reject")
    /\ \/ Repo!Delete(recordId[c]) /\ UNCHANGED rollbackFailed
       \/ /\ Repo!DeleteFails(recordId[c])
          /\ rollbackFailed' = [rollbackFailed EXCEPT ![c] = TRUE]
    /\ UNCHANGED <<client, packet, recordId, receipt, metrics, answers,
                   history, requests>>

IngestResult(c) ==
    [accepted |-> pc[c] = "accept", packet |-> packet[c], recordId |-> recordId[c],
     receipt |-> receipt[c], rollbackFailed |-> rollbackFailed[c]]

RecordAccepted ==
    metrics' = [metrics EXCEPT !.total = @ + 1, !.accepted = @ + 1]

RecordRejected ==
    metrics' = [metrics EXCEPT !.total = @ + 1, !.rejected = @ + 1]

FinishWith(c) ==
    /\ \/ From(c, "accept", "idle") /\ RecordAccepted
       \/ From(c, "reject", "idle") /\ RecordRejected
    /\ answers' = answers \cup {IngestResult(c)}
    /\ Leave(c)
    /\ UNCHANGED <<store, client, history, requests>>

GetMetricsSnapshot ==
    [totalRequests    |-> metrics.total,
     acceptedRequests |-> metrics.accepted,
     rejectedRequests |-> metrics.rejected,
     repositorySize   |-> Repo!Size]

Mine ==
    /\ \E t \in DOMAIN chain, height \in Heights : Chain!Mine(t, height)
    /\ UNCHANGED <<store, pc, locals, metrics, answers, history, requests>>

\* The process stops, with whatever calls are under way, and starts again.
Restart ==
    /\ restarts < MaxRestarts
    /\ restarts' = restarts + 1
    /\ Chain!Restart
    /\ pc' = [c \in Callers |-> "idle"]
    /\ packet' = [c \in Callers |-> None]
    /\ recordId' = [c \in Callers |-> 0]
    /\ receipt' = [c \in Callers |-> None]
    /\ rollbackFailed' = [c \in Callers |-> FALSE]
    /\ metrics' = NoMetrics
    /\ abandoned' = abandoned \cup
                    ({recordId[c] : c \in Callers} \cap (DOMAIN rows \ Proved))
    /\ provedAtStart' = Cardinality(Proved)
    /\ uncounted' = requests
    /\ UNCHANGED <<store, answers, requests>>

Step(c) ==
    \/ Save(c) \/ SaveThrows(c)
    \/ NodeTakesTx(c) \/ SubmitHash(c) \/ SubmitHashThrows(c)
    \/ AttachReceipt(c) \/ AttachReceiptFails(c)
    \/ Rollback(c)
    \/ FinishWith(c)

Next ==
    \/ \E c \in Callers, p \in Packets : Ingest(c, p)
    \/ \E c \in Callers : Step(c)
    \/ Mine
    \/ Restart

Spec == Init /\ [][Next]_vars

\* Mutexes are let go of after one statement, threads are scheduled, and the
\* node answers a request or its connection ends.
FairSpec == Spec /\ \A c \in Callers : WF_vars(Step(c))

------------------------------------------------------------------------------
TypeOK ==
    /\ Repo!TypeOK
    /\ nonce \in Nat
    /\ DOMAIN chain \subseteq Hashes \X Nonces
    /\ ~Mock => Chain!NumbersAreNew
    /\ \A t \in DOMAIN chain : chain[t] \in Heights \cup {0}
    /\ tx \in [Callers -> (Hashes \X Nonces) \cup {None, Chain!Called}]
    /\ pc \in [Callers -> Labels]
    /\ packet \in [Callers -> Packets \cup {None}]
    /\ recordId \in [Callers -> Nat]
    /\ receipt \in [Callers -> Receipts \cup {None}]
    /\ rollbackFailed \in [Callers -> BOOLEAN]
    /\ metrics \in [total : Nat, accepted : Nat, rejected : Nat]
    /\ \A a \in answers :
          a \in [accepted : BOOLEAN, packet : Packets, recordId : Nat,
                 receipt : Receipts \cup {None}, rollbackFailed : BOOLEAN]
    /\ abandoned \subseteq Nat
    /\ provedAtStart \in Nat /\ uncounted \in Nat
    /\ requests \in Nat /\ restarts \in Nat

\* An accepted answer is for good: the row it names holds that packet and that
\* receipt ever after, whatever other threads, failing statements, rollbacks
\* and restarts follow (ingest_service.cpp, the only path to finishWith(true)).
AcceptedIsStored ==
    \A a \in answers :
        a.accepted =>
            /\ a.recordId \in DOMAIN rows
            /\ rows[a.recordId] = [packet |-> a.packet, receipt |-> a.receipt]

\* A rejected answer never names a record with a proof, and its row is still
\* there exactly when its message says that the rollback failed: the recordId
\* of a rejected response never becomes some other packet's record
\* (ingest_service.cpp, rollbackBestEffort).
RejectedIsWithdrawn ==
    \A a \in answers :
        ~a.accepted =>
            /\ a.recordId \notin Proved
            /\ (a.recordId \in DOMAIN rows) <=> a.rollbackFailed

\* Why a row without a receipt may stay: an answer told of the failed rollback,
\* or the process stopped in the middle of the call.
KnownLeftover(id) ==
    \/ \E a \in answers : a.rollbackFailed /\ a.recordId = id
    \/ id \in abandoned

\* Any other row without a receipt belongs to a call under way.  Nothing in
\* the code looks for such rows later (Ingest's catch blocks, all of which
\* end in rollbackBestEffort).
PendingIsExplained ==
    \A id \in DOMAIN rows \ Proved :
        \/ KnownLeftover(id)
        \/ \E c \in Callers : pc[c] # "idle" /\ recordId[c] = id

\* r is a receipt for this hash: of a transaction that carries it and that the
\* node has, with the block that it is in or none.
ReceiptFor(r, hash) ==
    /\ r.txHash[1] = hash
    /\ ~Mock => r.txHash \in DOMAIN chain /\ Chain!BlockKnown(r.txHash, r.blockHeight)

\* The proof of a record is a transaction that carries this record's own hash
\* and that the node took, with the block that it is in or none: calls under
\* way at the same time never get each other's receipts.
ProofIsOwn == \A id \in Proved : ReceiptFor(rows[id].receipt, rows[id].packet.hashHex)

\* Only packets whose hash and signature were verified are ever in the
\* database (every guard of Ingest comes before Save).
VerifiedBeforeStored ==
    \A id \in DOMAIN rows :
        LET p == rows[id].packet
        IN /\ p.hashHex = Verifier!Sha256Hex(p.deviceId, p.timestamp, p.telemetryJson)
           /\ Verifier!Verify(p)

\* No saved record pays for two transactions: a failure is never answered by
\* submitting again (SubmitHash is called once, after Save).
OneTxPerRecord == ~Mock => Cardinality(DOMAIN chain) <= seq

\* Through JSON-RPC the UNIQUE index on tx_hash never turns a receipt down: the
\* transaction that a call is about to attach proves no other record, whatever
\* was ingested, withdrawn and started again before, the same packet included
\* (AttachReceipt after SubmitHash; only the mock's hashes come again).
IndexNeverRefuses ==
    ~Mock => \A c \in Callers :
                 pc[c] = "attach" => ~Repo!TxTaken(recordId[c], receipt[c].txHash)

\* GET /api/v1/metrics/overview at any moment: each call of Ingest since the
\* process started is in the total and in one of the two other counters, once,
\* but for those still under way and those that Save ended by an exception,
\* which no counter ever has; and the repository holds one proved record for
\* each accepted request, those of earlier processes, those about to be
\* counted, and the unproved rows.
MetricsMatchStorage ==
    LET m == GetMetricsSnapshot
        Calls(labels) == Cardinality({c \in Callers : pc[c] \in labels})
    IN /\ m.totalRequests = m.acceptedRequests + m.rejectedRequests
       /\ requests = m.totalRequests + uncounted + Calls(Labels \ {"idle"})
       /\ m.repositorySize =
             provedAtStart + m.acceptedRequests + Calls({"accept"})
             + Cardinality(DOMAIN rows \ Proved)

\* The records seen through the repository behave as TelemetryLedger says.
LedgerSpec == Ledger!Spec

\* A saved row does not stay in between: in the end it has its proof, or is
\* gone, or is a known leftover (Ingest after Save, all its paths).
SavedIsSettled ==
    \A id \in 1..MaxRequests :
        id \in DOMAIN rows ~> id \notin DOMAIN rows \ Proved \/ KnownLeftover(id)

\* docs/demo/runbook.md: a successful packet, correctly hashed and signed, is
\* answered with accepted=true when neither chain nor storage fails.
ValidIsAccepted == \A a \in answers : Valid(a.packet) => a.accepted

==============================================================================
