------------------------- MODULE IngestService_proofs -------------------------
(***************************************************************************)
(* Theorems about IngestService for any number of threads, packets, calls  *)
(* and restarts, both chain clients, and with or without failing SQL.      *)
(***************************************************************************)
EXTENDS IngestService, FiniteSetTheorems, TLAPS

(***************************************************************************)
(* The inductive invariant.  None of the properties is inductive by        *)
(* itself: that an accepted row stays as it is needs that no other call    *)
(* has its id, and that the receipt attached is the record's own needs     *)
(* what each call holds between its steps.                                 *)
(***************************************************************************)
\* The row that c's call saved is there, with its packet and this receipt.
Holds(c, r) ==
    /\ recordId[c] \in DOMAIN rows
    /\ rows[recordId[c]].packet = packet[c]
    /\ rows[recordId[c]].receipt = r

\* What c's call has done so far.
CallInv(c) ==
    /\ recordId[c] \in 0..seq
    /\ pc[c] = "idle" => recordId[c] = 0
    /\ pc[c] # "idle" => packet[c] \in Packets
    /\ pc[c] # "reject" => ~rollbackFailed[c]
    /\ pc[c] = "save" => recordId[c] = 0 /\ Valid(packet[c])
    /\ pc[c] \in {"submit", "attach", "rollback"} => Holds(c, None)
    /\ pc[c] = "attach" => receipt[c] \in Receipts /\ ReceiptFor(receipt[c], packet[c].hashHex)
    /\ pc[c] = "accept" => receipt[c] \in Receipts /\ Holds(c, receipt[c])
    /\ pc[c] = "reject" => /\ recordId[c] \notin Proved
                           /\ (recordId[c] \in DOMAIN rows) <=> rollbackFailed[c]

\* A record id is one call's, or in answers, never both.
IdsApart ==
    /\ \A c, d \in Callers : recordId[c] = recordId[d] /\ recordId[c] # 0 => c = d
    /\ \A a \in answers :
          /\ a.recordId \in 0..seq
          /\ \A c \in Callers : a.recordId = recordId[c] => a.recordId = 0

\* SubmitHash is under way in that step only, for the hash of its call.
TxInv ==
    \A c \in Callers :
        /\ tx[c] # None => pc[c] = "submit"
        /\ tx[c] \notin {None, Chain!Called} =>
              tx[c] \in DOMAIN chain /\ tx[c][1] = packet[c].hashHex

IInv ==
    /\ TypeOK
    /\ \A c \in Callers : CallInv(c)
    /\ IdsApart
    /\ TxInv
    /\ ProofIsOwn /\ VerifiedBeforeStored
    /\ AcceptedIsStored /\ RejectedIsWithdrawn

\* Counting a request keeps the counters numbers.
LEMMA MetricsTypes ==
  ASSUME metrics \in [total : Nat, accepted : Nat, rejected : Nat],
         RecordAccepted \/ RecordRejected
  PROVE  metrics' \in [total : Nat, accepted : Nat, rejected : Nat]
<1>1. metrics.total + 1 \in Nat /\ metrics.accepted + 1 \in Nat /\ metrics.rejected + 1 \in Nat
      OBVIOUS
<1>2. CASE RecordAccepted
      BY <1>1, <1>2 DEF RecordAccepted
<1>3. CASE RecordRejected
      BY <1>1, <1>3 DEF RecordRejected
<1> QED BY <1>2, <1>3

\* A call that ends leaves its locals empty.
LEMMA LeaveTypes ==
  ASSUME TypeOK, NEW c \in Callers, Leave(c)
  PROVE  /\ packet' \in [Callers -> Packets \cup {None}]
         /\ recordId' \in [Callers -> Nat]
         /\ receipt' \in [Callers -> Receipts \cup {None}]
         /\ rollbackFailed' \in [Callers -> BOOLEAN]
  BY DEF TypeOK, Leave

\* An empty table and an empty chain have their types.
LEMMA TypeInitial == Init => TypeOK
  BY DEF Init, TypeOK, Labels, Repo!Init, Repo!TypeOK, Chain!Init, Chain!NumbersAreNew, NoMetrics

ChainTypeOK ==
    /\ nonce \in Nat
    /\ DOMAIN chain \subseteq Hashes \X Nonces
    /\ ~Mock => Chain!NumbersAreNew
    /\ \A t \in DOMAIN chain : chain[t] \in Heights \cup {0}
    /\ tx \in [Callers -> (Hashes \X Nonces) \cup {None, Chain!Called}]

\* A transaction that the node takes is of the chain's type,
LEMMA PostTypes ==
  ASSUME ChainTypeOK, NEW c \in Callers, NEW hash \in Hashes, Chain!Post(c, hash)
  PROVE  ChainTypeOK'
<1> DEFINE t == <<hash, nonce>>
<1>1. /\ ~Mock /\ nonce \in Nonces
      /\ tx' = [tx EXCEPT ![c] = t]
      /\ nonce' = nonce + 1
      /\ chain' = [u \in DOMAIN chain \cup {t} |-> IF u = t THEN 0 ELSE chain[u]]
      BY DEF Chain!Post, Chain!TxHash
<1>2. t \in Hashes \X Nonces /\ t[2] = nonce
      BY <1>1
<1>3. \A u \in DOMAIN chain : u[2] \in Nat
      BY NoncesAssumption DEF ChainTypeOK
<1> HIDE DEF t
<1>4. Chain!NumbersAreNew'
      BY <1>1, <1>2, <1>3 DEF ChainTypeOK, Chain!NumbersAreNew
<1> QED BY <1>1, <1>2, <1>4 DEF ChainTypeOK

\* the return of SubmitHash leaves the chain as it is,
LEMMA ReturnTypes ==
  ASSUME ChainTypeOK, NEW c \in Callers, NEW hash, NEW r, Chain!Return(c, hash, r)
  PROVE  ChainTypeOK'
  BY DEF ChainTypeOK, Chain!Return, Chain!NumbersAreNew

\* and no other step of the chain adds a transaction.
LEMMA OtherChainTypes ==
  ASSUME ChainTypeOK,
         \/ \E c \in Callers : Chain!Call(c) \/ Chain!Throw(c)
         \/ \E t \in DOMAIN chain, height \in Heights : Chain!Mine(t, height)
         \/ Chain!Restart
  PROVE  ChainTypeOK'
  BY DEF ChainTypeOK, Chain!Call, Chain!Throw, Chain!Mine, Chain!Restart,
         Chain!NumbersAreNew

\* A row that is saved is a packet without a receipt,
LEMMA SaveTypes ==
  ASSUME Repo!TypeOK, NEW p \in Packets, Repo!Save(p)
  PROVE  Repo!TypeOK' /\ seq' \in Nat
  BY DEF Repo!TypeOK, Repo!Save

\* a row gets a receipt of the chain,
LEMMA AttachTypes ==
  ASSUME Repo!TypeOK, NEW id, NEW r \in Receipts, Repo!AttachReceipt(id, r)
  PROVE  Repo!TypeOK'
  BY DEF Repo!TypeOK, Repo!AttachReceipt

\* and what Delete leaves are rows.
LEMMA DeleteTypes ==
  ASSUME Repo!TypeOK, NEW id, Repo!Delete(id)
  PROVE  Repo!TypeOK'
  BY DEF Repo!TypeOK, Repo!Delete

\* IInv holds before the first call.
LEMMA InitInv == Init => IInv
<1> SUFFICES ASSUME Init PROVE IInv
    OBVIOUS
<1>1. TypeOK
      BY TypeInitial
<1>2. DOMAIN rows = {} /\ Proved = {}
      BY DEF Init, Repo!Init, Proved
<1>3. (\A c \in Callers : CallInv(c)) /\ IdsApart /\ TxInv
      BY DEF Init, Repo!Init, Chain!Init, CallInv, IdsApart, TxInv
<1>4. ProofIsOwn /\ VerifiedBeforeStored
      BY <1>2 DEF ProofIsOwn, VerifiedBeforeStored
<1>5. AcceptedIsStored /\ RejectedIsWithdrawn
      BY DEF Init, AcceptedIsStored, RejectedIsWithdrawn
<1> QED BY <1>1, <1>3, <1>4, <1>5 DEF IInv

\* The store, and what is said of it alone, when a step does not touch it.
LEMMA StoreUnchanged ==
  ASSUME UNCHANGED <<rows, seq>>
  PROVE  /\ Proved' = Proved
         /\ VerifiedBeforeStored' <=> VerifiedBeforeStored
  BY DEF Proved, VerifiedBeforeStored

\* A step that leaves store, answers and chain alone keeps what relates them.
LEMMA RecordsUnchanged ==
  ASSUME UNCHANGED <<rows, seq, chain, answers>>,
         ProofIsOwn, VerifiedBeforeStored,
         AcceptedIsStored, RejectedIsWithdrawn
  PROVE  /\ (ProofIsOwn /\ VerifiedBeforeStored)'
         /\ (AcceptedIsStored /\ RejectedIsWithdrawn)'
<1>1. Proved' = Proved /\ VerifiedBeforeStored'
      BY StoreUnchanged
<1>2. ProofIsOwn'
      BY <1>1 DEF ProofIsOwn, ReceiptFor, Chain!BlockKnown
<1>3. AcceptedIsStored' /\ RejectedIsWithdrawn'
      BY <1>1 DEF AcceptedIsStored, RejectedIsWithdrawn
<1> QED BY <1>1, <1>2, <1>3

\* The guards let only verified packets on, and reject without a row.
LEMMA IngestStep ==
  ASSUME IInv, NEW c \in Callers, NEW p \in Packets, Ingest(c, p)
  PROVE  IInv'
<1> USE DEF IInv
<1>1. /\ pc[c] = "idle" /\ UNCHANGED <<store, client, recordId, receipt, rollbackFailed, answers>>
      /\ pc' = [pc EXCEPT ![c] = IF Valid(p) THEN "save" ELSE "reject"]
      /\ packet' = [packet EXCEPT ![c] = p]
      BY DEF Ingest, From
<1>2. TypeOK'
      BY DEF Ingest, From, TypeOK, Labels, store, client, history, Repo!TypeOK, Chain!NumbersAreNew
<1>3. ASSUME NEW d \in Callers PROVE CallInv(d)'
  <2>1. CallInv(d) /\ Proved' = Proved /\ UNCHANGED <<rows, seq, recordId, receipt, rollbackFailed>>
        BY <1>1, StoreUnchanged DEF store
  <2>2. CASE d # c
        BY <1>1, <2>1, <2>2 DEF CallInv, Holds, ReceiptFor, Chain!BlockKnown, TypeOK, client
  <2>3. CASE d = c
    <3>1. recordId[c] = 0 /\ 0 \notin DOMAIN rows /\ ~rollbackFailed[c]
          BY <1>1 DEF CallInv, TypeOK, Repo!TypeOK
    <3>2. pc'[c] \in {"save", "reject"} /\ packet'[c] = p /\ (pc'[c] = "save" => Valid(p))
          BY <1>1 DEF TypeOK
    <3> QED BY <2>1, <2>3, <3>1, <3>2 DEF CallInv, Proved
  <2> QED BY <2>2, <2>3
<1>4. IdsApart'
      BY <1>1 DEF IdsApart, store
<1>5. TxInv'
      BY <1>1 DEF TxInv, client, TypeOK
<1>6. (ProofIsOwn /\ VerifiedBeforeStored)' /\ (AcceptedIsStored /\ RejectedIsWithdrawn)'
      BY <1>1, RecordsUnchanged DEF store, client
<1> QED BY <1>2, <1>3, <1>4, <1>5, <1>6

\* What is known of a call survives the steps of others, which leave its
\* locals and the row of its id alone.
LEMMA OtherCall ==
  ASSUME NEW d, CallInv(d), seq \in Nat, seq' \in Nat, seq <= seq',
         pc'[d] = pc[d], packet'[d] = packet[d], recordId'[d] = recordId[d],
         receipt'[d] = receipt[d], rollbackFailed'[d] = rollbackFailed[d],
         recordId[d] \in DOMAIN rows <=> recordId[d] \in DOMAIN rows',
         recordId[d] \in DOMAIN rows => rows'[recordId[d]] = rows[recordId[d]],
         \A r, hash : ReceiptFor(r, hash) => ReceiptFor(r, hash)'
  PROVE  CallInv(d)'
<1>1. recordId'[d] \in 0..seq'
      BY DEF CallInv
<1>2. recordId[d] \in Proved <=> recordId[d] \in Proved'
      BY DEF Proved
<1>3. \A r : Holds(d, r) => Holds(d, r)'
      BY DEF Holds
<1>4. ReceiptFor(receipt[d], packet[d].hashHex) => ReceiptFor(receipt[d], packet[d].hashHex)'
      BY DEF ReceiptFor, Chain!BlockKnown
<1> QED BY <1>1, <1>2, <1>3, <1>4 DEF CallInv

\* The chain only grows, so a receipt stays a receipt.
LEMMA ReceiptForever ==
  ASSUME TypeOK,
         \/ \E c \in Callers, h \in Hashes : Chain!Post(c, h)
         \/ \E t \in DOMAIN chain, height \in Heights : Chain!Mine(t, height)
         \/ UNCHANGED chain
  PROVE  \A r, hash : ReceiptFor(r, hash) => ReceiptFor(r, hash)'
<1> SUFFICES ASSUME NEW r, NEW hash, ReceiptFor(r, hash)
             PROVE  ReceiptFor(r, hash)'
    OBVIOUS
<1>1. CASE UNCHANGED chain
      BY <1>1 DEF ReceiptFor, Chain!BlockKnown
<1>2. ASSUME NEW c \in Callers, NEW h \in Hashes, Chain!Post(c, h)
      PROVE  ReceiptFor(r, hash)'
  <2>1. ~Mock /\ <<h, nonce>>[2] = nonce /\ nonce \in Nat
        BY <1>2 DEF TypeOK, Chain!Post
  <2>2. <<h, nonce>> \notin DOMAIN chain
        BY <2>1, NoncesAssumption DEF TypeOK, Chain!NumbersAreNew
  <2> QED BY <1>2, <2>1, <2>2 DEF ReceiptFor, Chain!BlockKnown, Chain!Post, Chain!TxHash
<1>3. ASSUME NEW t \in DOMAIN chain, NEW height \in Heights, Chain!Mine(t, height)
      PROVE  ReceiptFor(r, hash)'
      BY <1>3 DEF ReceiptFor, Chain!BlockKnown, Chain!Mine, TypeOK
<1> QED BY <1>1, <1>2, <1>3

\* The same, for all that the invariant says of receipts already attached.
LEMMA ProofsForever ==
  ASSUME TypeOK, ProofIsOwn, UNCHANGED rows,
         \/ \E c \in Callers, h \in Hashes : Chain!Post(c, h)
         \/ \E t \in DOMAIN chain, height \in Heights : Chain!Mine(t, height)
         \/ UNCHANGED chain
  PROVE  ProofIsOwn'
<1> SUFFICES ASSUME NEW id \in Proved'
             PROVE  ReceiptFor(rows[id].receipt, rows[id].packet.hashHex)'
    BY DEF ProofIsOwn
<1>1. id \in Proved /\ ReceiptFor(rows[id].receipt, rows[id].packet.hashHex)
      BY DEF ProofIsOwn, Proved
<1> QED BY <1>1, ReceiptForever DEF ReceiptFor, Chain!BlockKnown

\* Steps of the node leave everything but the chain and the calls alone.
LEMMA NodeStep ==
  ASSUME IInv, UNCHANGED <<store, pc, locals, metrics, answers, history, requests>>,
         \/ \E c \in Callers :
               /\ pc[c] = "submit" /\ Chain!Post(c, packet[c].hashHex)
               /\ packet[c].hashHex \in Hashes
         \/ \E t \in DOMAIN chain, height \in Heights : Chain!Mine(t, height)
  PROVE  IInv'
<1> USE DEF IInv
<1>1. UNCHANGED <<rows, seq, pc, packet, recordId, receipt, rollbackFailed, answers>>
      BY DEF store, locals
<1>2. TypeOK'
  <2>1. ChainTypeOK'
        BY PostTypes, OtherChainTypes DEF TypeOK, ChainTypeOK
  <2> QED BY <1>1, <2>1 DEF TypeOK, ChainTypeOK, Repo!TypeOK, history
<1>3. ASSUME NEW d \in Callers PROVE CallInv(d)'
      BY <1>1, OtherCall, ReceiptForever DEF TypeOK, Repo!TypeOK
<1>4. IdsApart'
      BY <1>1 DEF IdsApart
<1>5. TxInv'
  <2>1. ASSUME NEW c \in Callers, pc[c] = "submit", Chain!Post(c, packet[c].hashHex)
        PROVE  TxInv'
        BY <1>1, <2>1 DEF TxInv, Chain!Post, Chain!TxHash, TypeOK
  <2>2. ASSUME NEW t \in DOMAIN chain, NEW height \in Heights, Chain!Mine(t, height)
        PROVE  TxInv'
        BY <1>1, <2>2 DEF TxInv, Chain!Mine, Chain!Called
  <2> QED BY <2>1, <2>2
<1>6. ProofIsOwn'
      BY <1>1, ProofsForever
<1>7. (VerifiedBeforeStored /\ AcceptedIsStored /\ RejectedIsWithdrawn)'
      BY <1>1, StoreUnchanged DEF AcceptedIsStored, RejectedIsWithdrawn
<1> QED BY <1>2, <1>3, <1>4, <1>5, <1>6, <1>7

\* Save hands out an id that no call and no answer has.
LEMMA SaveStep ==
  ASSUME IInv, NEW c \in Callers, Save(c)
  PROVE  IInv'
<1> USE DEF IInv
<1>1. /\ pc[c] = "save" /\ pc' = [pc EXCEPT ![c] = "submit"]
      /\ seq' = seq + 1 /\ DOMAIN rows' = DOMAIN rows \cup {seq'}
      /\ rows'[seq'] = [packet |-> packet[c], receipt |-> None]
      /\ \A id \in DOMAIN rows : id # seq' /\ rows'[id] = rows[id]
      /\ recordId' = [recordId EXCEPT ![c] = seq']
      /\ tx' = [tx EXCEPT ![c] = Chain!Called]
      /\ UNCHANGED <<chain, packet, receipt, rollbackFailed, answers>>
      BY DEF Save, From, Repo!Save, Chain!Call, TypeOK, Repo!TypeOK
<1>2. packet[c] \in Packets /\ Valid(packet[c]) /\ seq \in Nat
      BY <1>1 DEF CallInv, TypeOK, Repo!TypeOK
<1>3. TypeOK'
  <2>1. ChainTypeOK'
        BY OtherChainTypes DEF Save, TypeOK, ChainTypeOK
  <2>2. Repo!TypeOK' /\ seq' \in Nat
        BY <1>2, SaveTypes DEF Save, TypeOK
  <2> QED BY <1>1, <2>1, <2>2 DEF Save, TypeOK, Labels, ChainTypeOK, history
<1>4. Proved' = Proved
      BY <1>1 DEF Proved
<1>5. ASSUME NEW d \in Callers PROVE CallInv(d)'
  <2>1. CASE d = c
    <3>1. Holds(c, None)' /\ recordId'[c] \in 0..seq' /\ pc'[c] = "submit" /\ ~rollbackFailed'[c]
          BY <1>1, <1>2 DEF Holds, CallInv, TypeOK
    <3> QED BY <1>1, <1>2, <2>1, <3>1 DEF CallInv
  <2>2. CASE d # c
    <3>1. recordId[d] # seq' /\ recordId'[d] = recordId[d] /\ pc'[d] = pc[d] /\ CallInv(d)
          BY <1>1, <1>2, <2>2 DEF CallInv, TypeOK
    <3>2. \A r, hash : ReceiptFor(r, hash) => ReceiptFor(r, hash)'
          BY <1>1, ReceiptForever
    <3> QED BY <1>1, <1>2, <3>1, <3>2, OtherCall
  <2> QED BY <2>1, <2>2
<1>6. IdsApart'
      BY <1>1, <1>2 DEF IdsApart, CallInv, TypeOK
<1>7. TxInv'
      BY <1>1 DEF TxInv, TypeOK
<1>8. ProofIsOwn'
      BY <1>1, <1>4 DEF ProofIsOwn, ReceiptFor, Chain!BlockKnown, Proved
<1>9. VerifiedBeforeStored'
  <2> SUFFICES ASSUME NEW id \in DOMAIN rows'
               PROVE  LET p == rows'[id].packet
                      IN /\ p.hashHex = Verifier!Sha256Hex(p.deviceId, p.timestamp, p.telemetryJson)
                         /\ Verifier!Verify(p)
      BY DEF VerifiedBeforeStored, Verifier!Verify
  <2>1. CASE id = seq'
    <3>1. rows'[id].packet = packet[c]
          BY <1>1, <2>1
    <3>2. /\ packet[c].hashHex = Verifier!Sha256Hex(packet[c].deviceId, packet[c].timestamp,
                                                    packet[c].telemetryJson)
          /\ Verifier!Verify(packet[c])
          BY <1>2 DEF Valid
    <3> QED BY <3>1, <3>2
  <2>2. CASE id # seq'
        BY <1>1, <2>2 DEF VerifiedBeforeStored
  <2> QED BY <2>1, <2>2
<1>10. AcceptedIsStored' /\ RejectedIsWithdrawn'
      BY <1>1, <1>2, <1>4 DEF AcceptedIsStored, RejectedIsWithdrawn, IdsApart
<1> QED BY <1>3, <1>5, <1>6, <1>7, <1>8, <1>9, <1>10

\* A failed INSERT leaves the table as it was, and the call goes uncounted.
LEMMA SaveThrowsStep ==
  ASSUME IInv, NEW c \in Callers, SaveThrows(c)
  PROVE  IInv'
<1> USE DEF IInv
<1>1. /\ pc[c] = "save" /\ pc' = [pc EXCEPT ![c] = "idle"]
      /\ Leave(c)
      /\ UNCHANGED <<rows, seq, client, answers>>
      BY DEF SaveThrows, From, Repo!SqlFault, Repo!repository
<1>2. TypeOK'
      BY <1>1, LeaveTypes DEF SaveThrows, From, TypeOK, Labels, client, history, Repo!TypeOK,
         Chain!NumbersAreNew
<1>3. ASSUME NEW d \in Callers PROVE CallInv(d)'
  <2>1. CASE d = c
        BY <1>1, <2>1 DEF CallInv, Leave, TypeOK, Repo!TypeOK
  <2>2. CASE d # c
    <3>1. UNCHANGED <<pc[d], packet[d], recordId[d], receipt[d], rollbackFailed[d]>> /\ CallInv(d)
          BY <1>1, <2>2 DEF TypeOK, Leave
    <3> QED BY <1>1, <3>1, OtherCall, ReceiptForever DEF TypeOK, Repo!TypeOK, client
  <2> QED BY <2>1, <2>2
<1>4. IdsApart'
      BY <1>1 DEF IdsApart, Leave, TypeOK
<1>5. TxInv'
      BY <1>1 DEF TxInv, TypeOK, client, Leave
<1>6. (ProofIsOwn /\ VerifiedBeforeStored)' /\ (AcceptedIsStored /\ RejectedIsWithdrawn)'
      BY <1>1, RecordsUnchanged DEF client
<1> QED BY <1>2, <1>3, <1>4, <1>5, <1>6

\* A call that goes on after a step which leaves store, chain and answers
\* alone: enough to look at the call itself.
LEMMA CallStep ==
  ASSUME IInv, NEW c \in Callers,
         UNCHANGED <<rows, seq, chain, answers, recordId, packet>>,
         TypeOK', CallInv(c)',
         \A d \in Callers \ {c} :
            UNCHANGED <<pc[d], receipt[d], rollbackFailed[d], tx[d]>>,
         tx'[c] = tx[c] \/ tx'[c] = None, pc[c] # "submit" \/ tx'[c] = None
  PROVE  IInv'
<1> USE DEF IInv
<1>1. ASSUME NEW d \in Callers, d # c PROVE CallInv(d)'
      BY <1>1, OtherCall, ReceiptForever DEF TypeOK, Repo!TypeOK
<1>2. IdsApart'
      BY DEF IdsApart
<1>3. TxInv'
      BY DEF TxInv
<1>4. (ProofIsOwn /\ VerifiedBeforeStored)' /\ (AcceptedIsStored /\ RejectedIsWithdrawn)'
      BY RecordsUnchanged
<1> QED BY <1>1, <1>2, <1>3, <1>4

\* SubmitHash returns a receipt of the call's own transaction.
LEMMA SubmitHashStep ==
  ASSUME IInv, NEW c \in Callers, SubmitHash(c)
  PROVE  IInv'
<1> USE DEF IInv
<1>1. PICK r \in Receipts : /\ Chain!Return(c, packet[c].hashHex, r)
                            /\ receipt' = [receipt EXCEPT ![c] = r]
      BY DEF SubmitHash
<1>2. /\ pc[c] = "submit" /\ pc' = [pc EXCEPT ![c] = "attach"]
      /\ UNCHANGED <<rows, seq, chain, answers, recordId, packet, rollbackFailed>>
      /\ tx' = [tx EXCEPT ![c] = None]
      BY <1>1 DEF SubmitHash, From, store, Chain!Return
<1>3. TypeOK'
  <2>1. ChainTypeOK'
        BY <1>1, ReturnTypes DEF TypeOK, ChainTypeOK
  <2> QED BY <1>1, <1>2, <2>1 DEF SubmitHash, TypeOK, Labels, ChainTypeOK, Repo!TypeOK, history
<1>4. ReceiptFor(r, packet[c].hashHex)
  <2>1. CASE Mock
        BY <1>1, <2>1 DEF Chain!Return, Chain!TxHash, ReceiptFor
  <2>2. CASE ~Mock
        BY <1>1, <2>2 DEF Chain!Return, ReceiptFor, TxInv
  <2> QED BY <2>1, <2>2
<1>5. CallInv(c)'
  <2>1. receipt'[c] = r /\ pc'[c] = "attach"
        BY <1>1, <1>2 DEF TypeOK
  <2>2. ReceiptFor(receipt[c], packet[c].hashHex)'
        BY <1>2, <1>4, <2>1 DEF ReceiptFor, Chain!BlockKnown
  <2>3. Holds(c, None)'
        BY <1>2 DEF CallInv, Holds
  <2> QED BY <1>2, <2>1, <2>2, <2>3 DEF CallInv
<1> QED BY <1>1, <1>2, <1>3, <1>5, CallStep DEF TypeOK

\* After a failed submission the row is still there to be withdrawn.
LEMMA SubmitHashThrowsStep ==
  ASSUME IInv, NEW c \in Callers, SubmitHashThrows(c)
  PROVE  IInv'
<1> USE DEF IInv
<1>1. /\ pc[c] = "submit" /\ pc' = [pc EXCEPT ![c] = "rollback"]
      /\ UNCHANGED <<rows, seq, chain, answers, recordId, packet, receipt, rollbackFailed>>
      /\ tx' = [tx EXCEPT ![c] = None]
      BY DEF SubmitHashThrows, From, store, locals, Chain!Throw
<1>2. TypeOK'
  <2>1. ChainTypeOK'
        BY OtherChainTypes DEF SubmitHashThrows, TypeOK, ChainTypeOK
  <2> QED BY <1>1, <2>1 DEF SubmitHashThrows, TypeOK, Labels, ChainTypeOK, Repo!TypeOK, history
<1>3. CallInv(c)'
      BY <1>1 DEF CallInv, Holds, TypeOK
<1> QED BY <1>1, <1>2, <1>3, CallStep DEF TypeOK

\* After a failed UPDATE the row has no receipt and is withdrawn next.
LEMMA AttachReceiptFailsStep ==
  ASSUME IInv, NEW c \in Callers, AttachReceiptFails(c)
  PROVE  IInv'
<1> USE DEF IInv
<1>1. /\ pc[c] = "attach" /\ pc' = [pc EXCEPT ![c] = "rollback"]
      /\ UNCHANGED <<rows, seq, chain, nonce, tx, answers, recordId, packet, rollbackFailed>>
      /\ receipt' = [receipt EXCEPT ![c] = None]
      BY DEF AttachReceiptFails, From, client, Repo!AttachReceiptFails, Repo!SqlFault, Repo!repository
<1>2. TypeOK'
      BY <1>1 DEF AttachReceiptFails, TypeOK, Labels, Repo!TypeOK, Chain!NumbersAreNew, history
<1>3. CallInv(c)'
      BY <1>1 DEF CallInv, Holds, TypeOK
<1> QED BY <1>1, <1>2, <1>3, CallStep DEF TypeOK

\* AttachReceipt proves the record of this call and no other.
LEMMA AttachReceiptStep ==
  ASSUME IInv, NEW c \in Callers, AttachReceipt(c)
  PROVE  IInv'
<1> USE DEF IInv
<1> DEFINE id == recordId[c]
<1>1. /\ pc[c] = "attach" /\ pc' = [pc EXCEPT ![c] = "accept"]
      /\ UNCHANGED <<seq, client, locals, answers>>
      /\ rows' = [rows EXCEPT ![id].receipt = receipt[c]]
      BY DEF AttachReceipt, From, Repo!AttachReceipt
<1>2. /\ Holds(c, None) /\ receipt[c] \in Receipts
      /\ ReceiptFor(receipt[c], packet[c].hashHex) /\ id # 0
      BY <1>1 DEF CallInv, Holds, TypeOK, Repo!TypeOK
<1>3. /\ DOMAIN rows' = DOMAIN rows
      /\ rows'[id].packet = packet[c] /\ rows'[id].receipt = receipt[c]
      /\ \A i \in DOMAIN rows : rows'[i].packet = rows[i].packet
      /\ \A i \in DOMAIN rows \ {id} : rows'[i] = rows[i]
      BY <1>1, <1>2 DEF Holds, TypeOK, Repo!TypeOK
<1>4. Proved' = Proved \cup {id}
      BY <1>2, <1>3, NoneAssumption DEF Proved, Holds
<1>5. TypeOK'
  <2>1. Repo!TypeOK'
        BY <1>1, <1>2, AttachTypes DEF AttachReceipt, TypeOK
  <2> QED BY <1>1, <2>1 DEF AttachReceipt, TypeOK, Labels, client, locals, Chain!NumbersAreNew, history
<1>6. ASSUME NEW d \in Callers PROVE CallInv(d)'
  <2>1. CASE d = c
        BY <1>1, <1>2, <1>3, <2>1 DEF CallInv, Holds, TypeOK, locals
  <2>2. CASE d # c
    <3>1. recordId[d] # id
          BY <1>2, <2>2 DEF IdsApart
    <3>2. \A r, hash : ReceiptFor(r, hash) => ReceiptFor(r, hash)'
          BY <1>1, ReceiptForever DEF client
    <3>3. UNCHANGED <<seq, pc[d], packet[d], recordId[d], receipt[d], rollbackFailed[d]>> /\ CallInv(d)
          BY <1>1, <2>2 DEF locals, TypeOK
    <3> QED BY <1>3, <3>1, <3>2, <3>3, OtherCall DEF TypeOK, Repo!TypeOK
  <2> QED BY <2>1, <2>2
<1>7. IdsApart' /\ TxInv'
      BY <1>1 DEF IdsApart, TxInv, locals, client, TypeOK
<1>8. ProofIsOwn'
  <2> SUFFICES ASSUME NEW i \in Proved' PROVE ReceiptFor(rows[i].receipt, rows[i].packet.hashHex)'
      BY DEF ProofIsOwn
  <2>1. CASE i = id
        BY <1>1, <1>2, <1>3, <2>1 DEF ReceiptFor, Chain!BlockKnown, client
  <2>2. CASE i # id
        BY <1>1, <1>3, <1>4, <2>2 DEF ProofIsOwn, Proved, ReceiptFor, Chain!BlockKnown, client
  <2> QED BY <2>1, <2>2
<1>9. VerifiedBeforeStored'
      BY <1>3 DEF VerifiedBeforeStored, Verifier!Verify
<1>10. AcceptedIsStored' /\ RejectedIsWithdrawn'
  <2>1. \A a \in answers : a.recordId # id
        BY <1>2 DEF IdsApart
  <2> QED BY <1>1, <1>3, <1>4, <2>1 DEF AcceptedIsStored, RejectedIsWithdrawn
<1> QED BY <1>5, <1>6, <1>7, <1>8, <1>9, <1>10

\* Rollback removes the row of this call, or tells that it could not.
LEMMA RollbackStep ==
  ASSUME IInv, NEW c \in Callers, Rollback(c)
  PROVE  IInv'
<1> USE DEF IInv
<1> DEFINE id == recordId[c]
<1>1. /\ pc[c] = "rollback" /\ pc' = [pc EXCEPT ![c] = "reject"]
      /\ UNCHANGED <<client, packet, recordId, receipt, answers>>
      /\ Holds(c, None) /\ ~rollbackFailed[c] /\ id \in DOMAIN rows
      BY DEF Rollback, From, CallInv, Holds
<1>2. CASE Repo!Delete(id) /\ UNCHANGED rollbackFailed
  <2>1. /\ DOMAIN rows' = DOMAIN rows \ {id}
        /\ \A i \in DOMAIN rows' : rows'[i] = rows[i]
        /\ seq' = seq /\ id # 0
        BY <1>1, <1>2 DEF Repo!Delete, TypeOK, Repo!TypeOK
  <2>2. Proved' = Proved
        BY <1>1, <2>1 DEF Proved, Holds
  <2>3. TypeOK'
    <3>1. Repo!TypeOK'
          BY <1>2, DeleteTypes DEF TypeOK
    <3> QED BY <1>1, <1>2, <3>1 DEF Rollback, TypeOK, Labels, client, Chain!NumbersAreNew, history
  <2>4. ASSUME NEW d \in Callers PROVE CallInv(d)'
    <3>1. CASE d = c
          BY <1>1, <1>2, <2>1, <2>2, <3>1 DEF CallInv, TypeOK, Holds, Proved
    <3>2. CASE d # c
      <4>1. recordId[d] # id
            BY <2>1, <3>2 DEF IdsApart
      <4>2. \A r, hash : ReceiptFor(r, hash) => ReceiptFor(r, hash)'
            BY <1>1, ReceiptForever DEF client
      <4>3. UNCHANGED <<seq, pc[d], packet[d], recordId[d], receipt[d], rollbackFailed[d]>> /\ CallInv(d)
            BY <1>1, <1>2, <2>1, <3>2 DEF TypeOK
      <4> QED BY <2>1, <4>1, <4>2, <4>3, OtherCall DEF TypeOK, Repo!TypeOK
    <3> QED BY <3>1, <3>2
  <2>5. IdsApart' /\ TxInv'
        BY <1>1, <2>1 DEF IdsApart, TxInv, client, TypeOK
  <2>6. ProofIsOwn' /\ VerifiedBeforeStored'
    <3>1. ProofIsOwn'
          BY <1>1, <2>1, <2>2 DEF ProofIsOwn, ReceiptFor, Chain!BlockKnown, client, Proved
    <3>2. VerifiedBeforeStored'
          BY <2>1 DEF VerifiedBeforeStored, Verifier!Verify
    <3> QED BY <3>1, <3>2
  <2>7. AcceptedIsStored' /\ RejectedIsWithdrawn'
    <3>1. \A a \in answers : a.recordId # id
          BY <2>1 DEF IdsApart
    <3> QED BY <1>1, <2>1, <2>2, <3>1 DEF AcceptedIsStored, RejectedIsWithdrawn
  <2> QED BY <2>3, <2>4, <2>5, <2>6, <2>7
<1>3. CASE Repo!DeleteFails(id) /\ rollbackFailed' = [rollbackFailed EXCEPT ![c] = TRUE]
  <2>1. UNCHANGED <<rows, seq, chain, nonce, tx>>
        BY <1>1, <1>3 DEF Repo!DeleteFails, Repo!SqlFault, Repo!repository, client
  <2>2. TypeOK'
        BY <1>1, <1>3, <2>1 DEF Rollback, TypeOK, Labels, Repo!TypeOK, Chain!NumbersAreNew, history
  <2>3. CallInv(c)'
        BY <1>1, <1>3, <2>1 DEF CallInv, Holds, Proved, TypeOK
  <2> QED BY <1>1, <1>3, <2>1, <2>2, <2>3, CallStep DEF TypeOK
<1> QED BY <1>2, <1>3 DEF Rollback

\* The answer agrees with the row that the call leaves.
LEMMA FinishWithStep ==
  ASSUME IInv, NEW c \in Callers, FinishWith(c)
  PROVE  IInv'
<1> USE DEF IInv
<1>1. /\ pc[c] \in {"accept", "reject"} /\ pc' = [pc EXCEPT ![c] = "idle"]
      /\ answers' = answers \cup {IngestResult(c)} /\ Leave(c)
      /\ UNCHANGED <<rows, seq, chain, nonce, tx>>
      BY DEF FinishWith, From, store, client
<1>2. packet[c] \in Packets
      BY <1>1 DEF CallInv
<1>3. TypeOK'
  <2>1. metrics' \in [total : Nat, accepted : Nat, rejected : Nat]
        BY MetricsTypes DEF FinishWith, TypeOK
  <2>2. IngestResult(c) \in [accepted : BOOLEAN, packet : Packets, recordId : Nat,
                             receipt : Receipts \cup {None}, rollbackFailed : BOOLEAN]
        BY <1>2 DEF IngestResult, TypeOK
  <2> QED BY <1>1, <2>1, <2>2, LeaveTypes
          DEF FinishWith, TypeOK, Labels, Repo!TypeOK, Chain!NumbersAreNew, history
<1>4. ASSUME NEW d \in Callers PROVE CallInv(d)'
  <2>1. CASE d = c
        BY <1>1, <2>1 DEF CallInv, Leave, TypeOK, Repo!TypeOK
  <2>2. CASE d # c
    <3>1. UNCHANGED <<pc[d], packet[d], recordId[d], receipt[d], rollbackFailed[d]>> /\ CallInv(d)
          BY <1>1, <2>2 DEF TypeOK, Leave
    <3> QED BY <1>1, <3>1, OtherCall, ReceiptForever DEF TypeOK, Repo!TypeOK
  <2> QED BY <2>1, <2>2
<1>5. IdsApart'
  <2>1. IngestResult(c).recordId = recordId[c] /\ recordId[c] \in 0..seq
        BY DEF IngestResult, CallInv
  <2>2. recordId'[c] = 0 /\ \A d \in Callers \ {c} : recordId'[d] = recordId[d]
        BY <1>1 DEF Leave, TypeOK
  <2> QED BY <1>1, <2>1, <2>2 DEF IdsApart
<1>6. TxInv'
      BY <1>1 DEF TxInv, Leave, TypeOK
<1>7. Proved' = Proved /\ (ProofIsOwn /\ VerifiedBeforeStored)'
      BY <1>1, StoreUnchanged DEF ProofIsOwn, ReceiptFor, Chain!BlockKnown
<1> DEFINE a == IngestResult(c)
<1>8. AcceptedIsStored'
  <2>1. ASSUME a.accepted
        PROVE  /\ a.recordId \in DOMAIN rows
               /\ rows[a.recordId] = [packet |-> a.packet, receipt |-> a.receipt]
    <3>1. /\ pc[c] = "accept" /\ a.recordId = recordId[c]
          /\ a.packet = packet[c] /\ a.receipt = receipt[c]
          BY <2>1 DEF IngestResult
    <3>2. Holds(c, receipt[c])
          BY <3>1 DEF CallInv
    <3>3. rows[recordId[c]] \in [packet : Packets, receipt : Receipts \cup {None}]
          BY <3>2 DEF Holds, TypeOK, Repo!TypeOK
    <3> QED BY <3>1, <3>2, <3>3 DEF Holds
  <2> HIDE DEF a
  <2> QED BY <1>1, <2>1 DEF AcceptedIsStored, a
<1>9. RejectedIsWithdrawn'
  <2>1. ASSUME ~a.accepted
        PROVE  /\ a.recordId \notin Proved
               /\ (a.recordId \in DOMAIN rows) <=> a.rollbackFailed
    <3>1. /\ pc[c] = "reject" /\ a.recordId = recordId[c]
          /\ a.rollbackFailed = rollbackFailed[c]
          BY <1>1, <2>1 DEF IngestResult
    <3> QED BY <3>1 DEF CallInv
  <2> HIDE DEF a
  <2> QED BY <1>1, <1>7, <2>1 DEF RejectedIsWithdrawn, a
<1> QED BY <1>3, <1>4, <1>5, <1>6, <1>7, <1>8, <1>9

\* A restart abandons the rows of calls under way, and the answers stay.
LEMMA RestartStep ==
  ASSUME IInv, Restart
  PROVE  IInv'
<1> USE DEF IInv
<1>1. /\ UNCHANGED <<rows, seq, chain, answers>>
      /\ \A c \in Callers : /\ pc'[c] = "idle" /\ recordId'[c] = 0
                            /\ rollbackFailed'[c] = FALSE /\ tx'[c] = None
      BY DEF Restart, store, Chain!Restart
<1>2. TypeOK'
  <2>1. ChainTypeOK'
        BY OtherChainTypes DEF Restart, TypeOK, ChainTypeOK
  <2>2. Cardinality(Proved) \in Nat
    <3>1. Proved \subseteq 1..seq /\ seq \in Nat
          BY DEF Proved, TypeOK, Repo!TypeOK
    <3>2. IsFiniteSet(1..seq)
          BY <3>1, FS_Interval
    <3>3. IsFiniteSet(Proved)
          BY <3>1, <3>2, FS_Subset
    <3> QED BY <3>3, FS_CardinalityType
  <2>3. abandoned' \subseteq Nat
    <3>1. DOMAIN rows \subseteq Nat /\ abandoned \subseteq Nat
          BY DEF TypeOK, Repo!TypeOK
    <3> QED BY <3>1 DEF Restart
  <2>4. /\ Repo!TypeOK' /\ provedAtStart' \in Nat /\ uncounted' \in Nat
        /\ requests' \in Nat /\ restarts' \in Nat
        BY <1>1, <2>2 DEF Restart, TypeOK, Repo!TypeOK
  <2>5. metrics' \in [total : Nat, accepted : Nat, rejected : Nat]
        BY DEF Restart, NoMetrics
  <2>6. /\ pc' \in [Callers -> Labels]
        /\ packet' \in [Callers -> Packets \cup {None}]
        /\ recordId' \in [Callers -> Nat]
        /\ receipt' \in [Callers -> Receipts \cup {None}]
        /\ rollbackFailed' \in [Callers -> BOOLEAN]
        BY DEF Restart, Labels
  <2> QED BY <1>1, <2>1, <2>3, <2>4, <2>5, <2>6 DEF TypeOK, ChainTypeOK
<1>3. ASSUME NEW c \in Callers PROVE CallInv(c)'
      BY <1>1, <1>3 DEF CallInv, TypeOK, Repo!TypeOK
<1>4. IdsApart' /\ TxInv'
      BY <1>1 DEF IdsApart, TxInv
<1>5. (ProofIsOwn /\ VerifiedBeforeStored)' /\ (AcceptedIsStored /\ RejectedIsWithdrawn)'
      BY <1>1, RecordsUnchanged
<1> QED BY <1>2, <1>3, <1>4, <1>5

\* Every step keeps IInv.
LEMMA NextInv == IInv /\ [Next]_vars => IInv'
<1> SUFFICES ASSUME IInv, [Next]_vars PROVE IInv'
    OBVIOUS
<1>1. ASSUME NEW c \in Callers, NEW p \in Packets, Ingest(c, p) PROVE IInv'
      BY <1>1, IngestStep
<1>2. ASSUME NEW c \in Callers, Save(c) PROVE IInv'
      BY <1>2, SaveStep
<1>3. ASSUME NEW c \in Callers, SaveThrows(c) PROVE IInv'
      BY <1>3, SaveThrowsStep
<1>4. ASSUME NEW c \in Callers, NodeTakesTx(c) PROVE IInv'
  <2>1. packet[c].hashHex \in Hashes
        BY <1>4 DEF NodeTakesTx, IInv, CallInv, Hashes
  <2> QED BY <1>4, <2>1, NodeStep DEF NodeTakesTx
<1>5. ASSUME NEW c \in Callers, SubmitHash(c) PROVE IInv'
      BY <1>5, SubmitHashStep
<1>6. ASSUME NEW c \in Callers, SubmitHashThrows(c) PROVE IInv'
      BY <1>6, SubmitHashThrowsStep
<1>7. ASSUME NEW c \in Callers, AttachReceipt(c) PROVE IInv'
      BY <1>7, AttachReceiptStep
<1>8. ASSUME NEW c \in Callers, AttachReceiptFails(c) PROVE IInv'
      BY <1>8, AttachReceiptFailsStep
<1>9. ASSUME NEW c \in Callers, Rollback(c) PROVE IInv'
      BY <1>9, RollbackStep
<1>10. ASSUME NEW c \in Callers, FinishWith(c) PROVE IInv'
      BY <1>10, FinishWithStep
<1>11. CASE Mine
      BY <1>11, NodeStep DEF Mine
<1>12. CASE Restart
      BY <1>12, RestartStep
<1>13. CASE UNCHANGED vars
  <2>1. UNCHANGED <<rows, seq, chain, nonce, tx, pc, packet, recordId, receipt,
                    rollbackFailed, metrics, answers, abandoned, provedAtStart,
                    uncounted, requests, restarts>>
        BY <1>13 DEF vars, store, client, locals, history
  <2>2. TypeOK' /\ IdsApart' /\ TxInv'
        BY <2>1 DEF IInv, TypeOK, Repo!TypeOK, Chain!NumbersAreNew, IdsApart, TxInv
  <2>3. ASSUME NEW c \in Callers PROVE CallInv(c)'
        BY <2>1, OtherCall, ReceiptForever DEF IInv, TypeOK, Repo!TypeOK
  <2>4. (ProofIsOwn /\ VerifiedBeforeStored)'
        /\ (AcceptedIsStored /\ RejectedIsWithdrawn)'
        BY <2>1, RecordsUnchanged DEF IInv
  <2> QED BY <2>2, <2>3, <2>4 DEF IInv
<1> QED BY <1>1, <1>2, <1>3, <1>4, <1>5, <1>6, <1>7, <1>8, <1>9, <1>10, <1>11,
           <1>12, <1>13 DEF Next, Step

\* IInv holds always.
LEMMA AlwaysIInv == Spec => []IInv
  BY InitInv, NextInv, PTL DEF Spec

(***************************************************************************)
(* The theorems.                                                           *)
(***************************************************************************)
\* Every variable of Ingest, the repository and the chain client keeps its
\* type, and a node's transactions are numbered below its next one.
THEOREM TypeCorrect == Spec => []TypeOK
  BY AlwaysIInv, PTL DEF IInv

\* An accepted answer stays true: its row keeps packet and receipt, whatever
\* other threads, failing statements, rollbacks and restarts follow.
THEOREM AcceptedStaysStored == Spec => []AcceptedIsStored
  BY AlwaysIInv, PTL DEF IInv

\* A rejected answer never names a record that has a proof or becomes some
\* other packet's, and it tells of a row left behind by a failed rollback.
THEOREM RejectedStaysWithdrawn == Spec => []RejectedIsWithdrawn
  BY AlwaysIInv, PTL DEF IInv

\* Concurrent calls never attach each other's receipts (Ingest, SubmitHash and
\* AttachReceipt interleaved in any way, and blocks mined in between).
THEOREM ProofsAreOwn == Spec => []ProofIsOwn
  BY AlwaysIInv, PTL DEF IInv

\* Nothing unverified is ever in the database (the guards before Save).
THEOREM StoredIsVerified == Spec => []VerifiedBeforeStored
  BY AlwaysIInv, PTL DEF IInv

(***************************************************************************)
(* Rows without a receipt.  Given IInv, PendingIsExplained is inductive:   *)
(* it is lost only if a call lets go of its row without saying so.         *)
(***************************************************************************)
LEMMA PendingStep ==
  ASSUME IInv, PendingIsExplained, [Next]_vars
  PROVE  PendingIsExplained'
<1> DEFINE UnderWay(id) == \E c \in Callers : pc[c] # "idle" /\ recordId[c] = id
<1> SUFFICES ASSUME NEW id \in (DOMAIN rows \ Proved)'
             PROVE  KnownLeftover(id)' \/ UnderWay(id)'
    BY DEF PendingIsExplained
<1>1. ASSUME NEW c \in Callers, Save(c), id \notin DOMAIN rows
      PROVE  UnderWay(id)'
  <2>1. id = seq' /\ recordId'[c] = seq' /\ pc'[c] = "submit"
        BY <1>1 DEF Save, From, Repo!Save, IInv, TypeOK
  <2> QED BY <2>1
<1>2. ASSUME ~ \E c \in Callers : Save(c) /\ id \notin DOMAIN rows
      PROVE  id \in DOMAIN rows \ Proved
  <2>1. CASE UNCHANGED rows
        BY <2>1 DEF Proved
  <2>2. ASSUME NEW c \in Callers, Save(c) PROVE id \in DOMAIN rows \ Proved
    <3>1. id \in DOMAIN rows
          BY <1>2, <2>2
    <3>2. rows'[id] = rows[id]
          BY <2>2, <3>1 DEF Save, Repo!Save, IInv, TypeOK, Repo!TypeOK
    <3> QED BY <3>1, <3>2 DEF Proved
  <2>3. ASSUME NEW c \in Callers, AttachReceipt(c) PROVE id \in DOMAIN rows \ Proved
    <3>1. recordId[c] \in DOMAIN rows /\ receipt[c] # None /\ rows[recordId[c]].receipt = None
          BY <2>3, NoneAssumption DEF AttachReceipt, From, IInv, CallInv, Holds
    <3>2. rows' = [rows EXCEPT ![recordId[c]].receipt = receipt[c]]
          BY <2>3 DEF AttachReceipt, Repo!AttachReceipt
    <3> QED BY <3>1, <3>2 DEF Proved, IInv, TypeOK, Repo!TypeOK
  <2>4. ASSUME NEW c \in Callers, Rollback(c) PROVE id \in DOMAIN rows \ Proved
        BY <2>4 DEF Rollback, Repo!Delete, Repo!DeleteFails, Repo!SqlFault, Repo!repository, Proved
  <2> QED BY <2>1, <2>2, <2>3, <2>4 DEF Next, Step, Ingest, SaveThrows, NodeTakesTx, SubmitHash,
             SubmitHashThrows, AttachReceiptFails, FinishWith, Mine, Restart, store,
             Repo!SqlFault, Repo!AttachReceiptFails, Repo!repository, vars
<1>3. ASSUME id \in DOMAIN rows \ Proved, KnownLeftover(id)
      PROVE  KnownLeftover(id)'
  <2>1. answers \subseteq answers' /\ abandoned \subseteq abandoned'
        BY DEF Next, Step, Ingest, Save, SaveThrows, NodeTakesTx, SubmitHash, SubmitHashThrows,
           AttachReceipt, AttachReceiptFails, Rollback, FinishWith, Mine, Restart, history, vars
  <2> QED BY <1>3, <2>1 DEF KnownLeftover
<1>4. ASSUME id \in DOMAIN rows \ Proved, NEW c \in Callers, pc[c] # "idle", recordId[c] = id
      PROVE  KnownLeftover(id)' \/ UnderWay(id)'
  <2>1. CASE FinishWith(c)
    <3>1. pc[c] = "reject" /\ rollbackFailed[c]
          BY <1>4, <2>1, NoneAssumption DEF FinishWith, From, IInv, CallInv, Holds, Proved
    <3>2. /\ IngestResult(c).rollbackFailed /\ IngestResult(c).recordId = id
          /\ IngestResult(c) \in answers'
          BY <1>4, <2>1, <3>1 DEF IngestResult, FinishWith
    <3> QED BY <3>2 DEF KnownLeftover
  <2>2. CASE Restart
        BY <1>4, <2>2 DEF Restart, KnownLeftover
  <2>3. CASE SaveThrows(c)
    <3>1. recordId[c] = 0 /\ 0 \notin DOMAIN rows
          BY <2>3 DEF SaveThrows, From, IInv, CallInv, TypeOK, Repo!TypeOK
    <3> QED BY <1>4, <3>1
  <2>4. CASE Save(c)
    <3>1. recordId[c] = 0 /\ 0 \notin DOMAIN rows
          BY <2>4 DEF Save, From, IInv, CallInv, TypeOK, Repo!TypeOK
    <3> QED BY <1>4, <3>1
  <2>5. ASSUME ~Restart, ~FinishWith(c), ~Save(c), ~SaveThrows(c)
        PROVE  pc'[c] # "idle" /\ recordId'[c] = recordId[c]
    <3>1. CASE UNCHANGED vars \/ Mine
          BY <1>4, <3>1 DEF vars, Mine, locals
    <3>2. ASSUME NEW d \in Callers, NEW p \in Packets, Ingest(d, p)
          PROVE  pc'[c] # "idle" /\ recordId'[c] = recordId[c]
          BY <1>4, <3>2 DEF Ingest, From, IInv, TypeOK
    <3>3. ASSUME NEW d \in Callers, Step(d), d # c
          PROVE  pc'[c] # "idle" /\ recordId'[c] = recordId[c]
          BY <1>4, <3>3 DEF Step, Save, SaveThrows, NodeTakesTx, SubmitHash, SubmitHashThrows,
             AttachReceipt, AttachReceiptFails, Rollback, FinishWith, From, Leave, locals,
             IInv, TypeOK
    <3>4. CASE Step(c)
          BY <1>4, <2>5, <3>4 DEF Step, NodeTakesTx, SubmitHash, SubmitHashThrows,
             AttachReceipt, AttachReceiptFails, Rollback, From, locals, IInv, TypeOK
    <3> QED BY <2>5, <3>1, <3>2, <3>3, <3>4 DEF Next
  <2> QED BY <1>4, <2>1, <2>2, <2>3, <2>4, <2>5
<1> QED BY <1>1, <1>2, <1>3, <1>4 DEF PendingIsExplained

\* No row without a receipt is left behind in silence: a call under way owns
\* it, an answer told of it, or a stop of the process cut its call short.
THEOREM PendingStaysExplained == Spec => []PendingIsExplained
<1>1. Init => PendingIsExplained
      BY DEF Init, Repo!Init, PendingIsExplained
<1>2. IInv /\ PendingIsExplained /\ [Next]_vars => PendingIsExplained'
      BY PendingStep
<1> QED BY <1>1, <1>2, AlwaysIInv, PTL DEF Spec

(***************************************************************************)
(* The ledger: every step that touches the rows is one of its operations.  *)
(***************************************************************************)
LEMMA LedgerStep ==
  ASSUME IInv, [Next]_vars
  PROVE  [Ledger!Next]_Ledger!ledger
<1>1. ASSUME NEW c \in Callers, Save(c) PROVE Ledger!Next
  <2>1. packet[c] \in Packets
        BY <1>1 DEF Save, From, IInv, CallInv
  <2>2. Ledger!Admit(packet[c])
        BY <1>1 DEF Save, Repo!Save, Ledger!Admit
  <2> QED BY <2>1, <2>2 DEF Ledger!Next
<1>2. ASSUME NEW c \in Callers, AttachReceipt(c) PROVE Ledger!Next
  <2>1. Holds(c, None) /\ receipt[c] \in Receipts
        BY <1>2 DEF AttachReceipt, From, IInv, CallInv
  <2>2. Ledger!Prove(recordId[c], receipt[c])
        BY <1>2, <2>1 DEF AttachReceipt, Repo!AttachReceipt, Repo!TxTaken, Holds,
           Ledger!Prove, Ledger!Unproved
  <2> QED BY <2>1, <2>2 DEF Ledger!Next, Holds
<1>3. ASSUME NEW c \in Callers, Rollback(c) PROVE [Ledger!Next]_Ledger!ledger
  <2>1. Holds(c, None)
        BY <1>3 DEF Rollback, From, IInv, CallInv
  <2>2. CASE Repo!Delete(recordId[c])
    <3>1. Ledger!Withdraw(recordId[c])
          BY <2>1, <2>2 DEF Repo!Delete, Holds, Ledger!Withdraw, Ledger!Unproved
    <3> QED BY <2>1, <3>1 DEF Ledger!Next, Holds
  <2>3. CASE Repo!DeleteFails(recordId[c])
        BY <2>3 DEF Repo!DeleteFails, Repo!SqlFault, Repo!repository, Ledger!ledger
  <2> QED BY <1>3, <2>2, <2>3 DEF Rollback
<1>4. CASE UNCHANGED store
      BY <1>4 DEF store, Ledger!ledger
<1> QED BY <1>1, <1>2, <1>3, <1>4 DEF Next, Step, Ingest, SaveThrows, NodeTakesTx, SubmitHash,
           SubmitHashThrows, AttachReceiptFails, FinishWith, Mine, Restart, store,
           Repo!SqlFault, Repo!AttachReceiptFails, Repo!repository, vars

\* The gateway's records behave as TelemetryLedger promises: ids handed out
\* once, packets never altered, a proof attached once and for good.
THEOREM ImplementsLedger == Spec => LedgerSpec
<1>1. Init => Ledger!Init
      BY DEF Init, Repo!Init, Ledger!Init
<1>2. IInv /\ [Next]_vars => [Ledger!Next]_Ledger!ledger
      BY LedgerStep
<1> QED BY <1>1, <1>2, AlwaysIInv, PTL DEF Spec, LedgerSpec, Ledger!Spec

(***************************************************************************)
(* One transaction for each record                                         *)
(***************************************************************************)

\* Calls for which the node may still make a transaction.
Unpaid == {c \in Callers : tx[c] = Chain!Called}

\* Each record is paid for by a transaction, or may be by the call that saved
\* it, or never will be.
PaidOnce ==
    /\ IsFiniteSet(Unpaid)
    /\ ~Mock => /\ IsFiniteSet(DOMAIN chain)
                /\ Cardinality(DOMAIN chain) + Cardinality(Unpaid) <= seq

\* The invariant survives a step that makes no transaction and begins no call.
LEMMA NoMorePaid ==
  ASSUME PaidOnce, TypeOK, Unpaid' \subseteq Unpaid,
         DOMAIN chain' = DOMAIN chain, seq' = seq
  PROVE  PaidOnce'
<1>1. IsFiniteSet(Unpaid') /\ Cardinality(Unpaid') <= Cardinality(Unpaid)
      BY FS_Subset DEF PaidOnce
<1>2. Cardinality(Unpaid) \in Nat /\ Cardinality(Unpaid') \in Nat
      BY <1>1, FS_CardinalityType DEF PaidOnce
<1>3. ~Mock => Cardinality(DOMAIN chain) \in Nat
      BY FS_CardinalityType DEF PaidOnce
<1> QED BY <1>1, <1>2, <1>3 DEF PaidOnce, TypeOK, Repo!TypeOK

\* The node takes a transaction only for an id that was handed out for it.
LEMMA PaidStep ==
  ASSUME IInv, PaidOnce, [Next]_vars
  PROVE  PaidOnce'
<1> TypeOK
    BY DEF IInv
<1>1. ASSUME NEW c \in Callers, Save(c) PROVE PaidOnce'
  <2>1. /\ Unpaid' = Unpaid \cup {c} /\ c \notin Unpaid
        /\ seq' = seq + 1 /\ chain' = chain
        BY <1>1, NoneAssumption DEF Save, Repo!Save, Chain!Call, Chain!Called, Unpaid, TypeOK
  <2>2. /\ IsFiniteSet(Unpaid') /\ Cardinality(Unpaid') = Cardinality(Unpaid) + 1
        /\ Cardinality(Unpaid) \in Nat
        BY <2>1, FS_AddElement, FS_CardinalityType DEF PaidOnce
  <2>3. ~Mock => Cardinality(DOMAIN chain) \in Nat
        BY FS_CardinalityType DEF PaidOnce
  <2> QED BY <2>1, <2>2, <2>3 DEF PaidOnce, TypeOK, Repo!TypeOK
<1>2. ASSUME NEW c \in Callers, NodeTakesTx(c) PROVE PaidOnce'
  <2> DEFINE t == Chain!TxHash(packet[c].hashHex)
  <2>1. /\ DOMAIN chain' = DOMAIN chain \cup {t} /\ seq' = seq
        /\ tx' = [tx EXCEPT ![c] = t] /\ tx[c] = Chain!Called /\ ~Mock
        BY <1>2 DEF NodeTakesTx, Chain!Post, store
  <2>2. t # Chain!Called
    <3>1. DOMAIN t = 1..2 /\ DOMAIN Chain!Called = 1..0
          BY DEF Chain!TxHash, Chain!Called
    <3>2. 1 \in 1..2 /\ 1 \notin 1..0
          OBVIOUS
    <3> QED BY <3>1, <3>2
  <2> HIDE DEF t
  <2>3. c \in Unpaid /\ Unpaid' = Unpaid \ {c}
        BY <2>1, <2>2 DEF Unpaid, TypeOK
  <2>4. /\ IsFiniteSet(Unpaid') /\ Cardinality(Unpaid') = Cardinality(Unpaid) - 1
        /\ Cardinality(Unpaid) \in Nat
        BY <2>3, FS_RemoveElement, FS_CardinalityType DEF PaidOnce
  <2>5. IsFiniteSet(DOMAIN chain) /\ Cardinality(DOMAIN chain) \in Nat
        BY <2>1, FS_CardinalityType DEF PaidOnce
  <2>6. /\ IsFiniteSet(DOMAIN chain')
        /\ Cardinality(DOMAIN chain') \in {Cardinality(DOMAIN chain), Cardinality(DOMAIN chain) + 1}
    <3> DEFINE old == DOMAIN chain
    <3> HIDE DEF old
    <3>1. /\ IsFiniteSet(old \cup {t})
          /\ Cardinality(old \cup {t}) \in {Cardinality(old), Cardinality(old) + 1}
          BY <2>5, FS_AddElement DEF old
    <3> QED BY <2>1, <3>1 DEF old
  <2> QED BY <2>1, <2>4, <2>5, <2>6 DEF PaidOnce, TypeOK, Repo!TypeOK
<1>3. ASSUME NEW c \in Callers, SubmitHash(c) \/ SubmitHashThrows(c)
      PROVE PaidOnce'
  <2>1. Unpaid' \subseteq Unpaid
        BY <1>3, NoneAssumption DEF SubmitHash, SubmitHashThrows, Chain!Return, Chain!Throw,
           Unpaid, Chain!Called, TypeOK
  <2> QED BY <1>3, <2>1, NoMorePaid
          DEF SubmitHash, SubmitHashThrows, Chain!Return, Chain!Throw, store
<1>4. CASE Mine
  <2>1. DOMAIN chain' = DOMAIN chain /\ tx' = tx /\ seq' = seq
        BY <1>4 DEF Mine, Chain!Mine, store
  <2> QED BY <2>1, NoMorePaid DEF Unpaid
<1>5. CASE Restart
  <2>1. chain' = chain /\ seq' = seq /\ Unpaid' = {}
        BY <1>5, NoneAssumption DEF Restart, Chain!Restart, store, Unpaid, Chain!Called
  <2> QED BY <2>1, NoMorePaid
<1>6. CASE UNCHANGED <<tx, chain, seq>>
      BY <1>6, NoMorePaid DEF Unpaid
<1> QED BY <1>1, <1>2, <1>3, <1>4, <1>5, <1>6
        DEF Next, Step, Ingest, SaveThrows, AttachReceipt, AttachReceiptFails, Rollback,
            FinishWith, client, store, vars, Repo!SqlFault, Repo!repository, Repo!Delete,
            Repo!AttachReceipt, Repo!AttachReceiptFails, Repo!DeleteFails

\* PaidOnce holds always.
LEMMA AlwaysPaidOnce == Spec => []PaidOnce
<1>1. Init => PaidOnce
  <2> SUFFICES ASSUME Init PROVE PaidOnce
      OBVIOUS
  <2>1. Unpaid = {} /\ DOMAIN chain = {} /\ seq = 0
        BY NoneAssumption DEF Init, Repo!Init, Chain!Init, Unpaid, Chain!Called
  <2> QED BY <2>1, FS_EmptySet DEF PaidOnce
<1> QED BY <1>1, PaidStep, AlwaysIInv, PTL DEF Spec

\* No saved record pays for two transactions, whatever is lost, fails or stops
\* between a submission and its receipt (SubmitHash is called once, after Save).
THEOREM RecordsPayOnce == Spec => []OneTxPerRecord
<1>1. TypeOK /\ PaidOnce => OneTxPerRecord
  <2> SUFFICES ASSUME TypeOK, PaidOnce, ~Mock PROVE Cardinality(DOMAIN chain) <= seq
      BY DEF OneTxPerRecord
  <2>1. Cardinality(Unpaid) \in Nat /\ Cardinality(DOMAIN chain) \in Nat
        BY FS_CardinalityType DEF PaidOnce
  <2> QED BY <2>1 DEF PaidOnce, TypeOK, Repo!TypeOK
<1> QED BY <1>1, AlwaysPaidOnce, TypeCorrect, PTL

(***************************************************************************)
(* A node's transactions.  Those that calls hold are nobody else's yet.    *)
(***************************************************************************)

\* c's call waits for the answer to t, or has it and is about to attach it.
Holding(c, t) ==
    \/ tx[c] = t /\ t # Chain!Called
    \/ pc[c] = "attach" /\ receipt[c].txHash = t

Attaching(t) == \E id \in Proved : rows[id].receipt.txHash = t

HeldIsFresh ==
    ~Mock => \A c \in Callers, t \in DOMAIN chain :
                 Holding(c, t) => ~Attaching(t) /\ \A d \in Callers : Holding(d, t) => d = c

\* Steps that make no transaction, prove nothing and hand none to a call.
LEMMA NoMoreHeld ==
  ASSUME HeldIsFresh, DOMAIN chain' = DOMAIN chain,
         \A c \in Callers, t \in DOMAIN chain : Holding(c, t)' => Holding(c, t),
         \A t \in DOMAIN chain : Attaching(t)' => Attaching(t)
  PROVE  HeldIsFresh'
  BY DEF HeldIsFresh

\* A transaction is new when the node makes it, goes from the call that asked
\* for it to its receipt, and from there to its record.
LEMMA HeldStep ==
  ASSUME IInv, HeldIsFresh, [Next]_vars
  PROVE  HeldIsFresh'
<1> TypeOK
    BY DEF IInv
<1> SUFFICES ASSUME ~Mock PROVE HeldIsFresh'
    BY DEF HeldIsFresh
<1>1. \A t \in DOMAIN chain : t # None
      BY NoneAssumption DEF TypeOK
<1>2. \A c \in Callers : \A t : Holding(c, t) /\ t # None => t \in DOMAIN chain
      BY DEF Holding, IInv, TxInv, CallInv, ReceiptFor
<1>3. \A t : Attaching(t) => t \in DOMAIN chain
      BY DEF Attaching, IInv, ProofIsOwn, ReceiptFor
<1>4. ASSUME NEW c \in Callers, NodeTakesTx(c) PROVE HeldIsFresh'
  <2>0. PICK new : new = Chain!TxHash(packet[c].hashHex)
        OBVIOUS
  <2>1. /\ DOMAIN chain' = DOMAIN chain \cup {new} /\ tx' = [tx EXCEPT ![c] = new]
        /\ pc[c] = "submit" /\ nonce \in Nonces
        /\ UNCHANGED <<rows, pc, receipt>>
        BY <1>4, <2>0 DEF NodeTakesTx, Chain!Post, store, locals
  <2>2. new \notin DOMAIN chain
        BY <2>0, <2>1, NoncesAssumption DEF TypeOK, Chain!NumbersAreNew, Chain!TxHash
  <2>3. new # None
    <3>1. packet[c].hashHex \in Hashes
          BY <2>1 DEF IInv, CallInv, Hashes
    <3> QED BY <2>0, <2>1, <3>1, NoneAssumption DEF Chain!TxHash
  <2>4. \A d \in Callers : ~Holding(d, new) /\ (Holding(d, new)' => d = c)
    <3>1. \A d \in Callers : ~Holding(d, new)
          BY <1>2, <2>2, <2>3
    <3>2. ASSUME NEW d \in Callers, d # c PROVE Holding(d, new)' <=> Holding(d, new)
          BY <2>1, <3>2 DEF Holding, TypeOK
    <3> QED BY <3>1, <3>2
  <2>5. \A d \in Callers, t \in DOMAIN chain : Holding(d, t)' => Holding(d, t)
        BY <2>1, <2>2 DEF Holding, TypeOK
  <2>6. \A t : Attaching(t)' <=> Attaching(t)
        BY <2>1 DEF Attaching, Proved
  <2>7. ~Attaching(new)'
        BY <1>3, <2>2, <2>6
  <2> SUFFICES ASSUME NEW d \in Callers, NEW t \in DOMAIN chain', Holding(d, t)'
               PROVE  ~Attaching(t)' /\ \A e \in Callers : Holding(e, t)' => e = d
      BY DEF HeldIsFresh
  <2>8. CASE t = new
        BY <2>4, <2>7, <2>8
  <2>9. CASE t # new
    <3>1. t \in DOMAIN chain /\ Holding(d, t)
          BY <2>1, <2>5, <2>9
    <3> QED BY <2>5, <2>6, <3>1 DEF HeldIsFresh
  <2> QED BY <2>8, <2>9
<1>5. ASSUME NEW c \in Callers, SubmitHash(c) PROVE HeldIsFresh'
  <2>1. /\ tx[c] # Chain!Called /\ receipt'[c].txHash = tx[c] /\ tx' = [tx EXCEPT ![c] = None]
        /\ \A d \in Callers \ {c} : receipt'[d] = receipt[d]
        /\ pc' = [pc EXCEPT ![c] = "attach"] /\ UNCHANGED <<rows, chain>>
        BY <1>5 DEF SubmitHash, From, Chain!Return, store, TypeOK
  <2> QED BY <1>1, <2>1, NoMoreHeld DEF Holding, Attaching, Proved, TypeOK
<1>6. ASSUME NEW c \in Callers, AttachReceipt(c) PROVE HeldIsFresh'
  <2>1. /\ pc[c] = "attach" /\ pc' = [pc EXCEPT ![c] = "accept"]
        /\ rows' = [rows EXCEPT ![recordId[c]].receipt = receipt[c]]
        /\ UNCHANGED <<tx, chain, receipt>> /\ tx[c] = None
        BY <1>6 DEF AttachReceipt, From, Repo!AttachReceipt, client, locals, IInv, TxInv
  <2>2. \A d \in Callers, t \in DOMAIN chain : Holding(d, t)' => d # c /\ Holding(d, t)
        BY <1>1, <2>1 DEF Holding, TypeOK
  <2>3. \A t : Attaching(t)' => Attaching(t) \/ t = receipt[c].txHash
        BY <2>1 DEF Attaching, Proved, TypeOK, Repo!TypeOK
  <2>4. Holding(c, receipt[c].txHash)
        BY <2>1 DEF Holding
  <2> QED BY <2>1, <2>2, <2>3, <2>4 DEF HeldIsFresh
<1>7. ASSUME NEW c \in Callers, Save(c) PROVE HeldIsFresh'
  <2>1. /\ tx' = [tx EXCEPT ![c] = Chain!Called] /\ pc' = [pc EXCEPT ![c] = "submit"]
        /\ UNCHANGED <<chain, receipt>>
        BY <1>7 DEF Save, From, Chain!Call
  <2>2. \A t : Attaching(t)' => Attaching(t)
        BY <1>7 DEF Save, Repo!Save, Attaching, Proved, TypeOK, Repo!TypeOK
  <2> QED BY <2>1, <2>2, NoMoreHeld DEF Holding, TypeOK
<1>8. ASSUME NEW c \in Callers, Rollback(c) PROVE HeldIsFresh'
  <2>1. /\ pc' = [pc EXCEPT ![c] = "reject"] /\ UNCHANGED <<tx, chain, receipt>>
        BY <1>8 DEF Rollback, From, client
  <2>2. \A t : Attaching(t)' => Attaching(t)
        BY <1>8 DEF Rollback, Repo!Delete, Repo!DeleteFails, Repo!SqlFault, Repo!repository,
           Attaching, Proved
  <2> QED BY <2>1, <2>2, NoMoreHeld DEF Holding, TypeOK
<1>9. ASSUME NEW c \in Callers,
             SubmitHashThrows(c) \/ AttachReceiptFails(c) \/ SaveThrows(c) \/ FinishWith(c)
             \/ \E p \in Packets : Ingest(c, p)
      PROVE  HeldIsFresh'
  <2>1. /\ UNCHANGED <<rows, chain>>
        /\ \A d \in Callers \ {c} : UNCHANGED <<tx[d], pc[d], receipt[d]>>
        /\ pc'[c] # "attach" /\ tx'[c] \in {tx[c], None}
        BY <1>9 DEF SubmitHashThrows, AttachReceiptFails, SaveThrows, FinishWith, Ingest, From,
           Leave, Chain!Throw, Repo!AttachReceiptFails, Repo!SqlFault, Repo!repository,
           store, client, locals, TypeOK
  <2>2. \A t : Attaching(t)' => Attaching(t)
        BY <2>1 DEF Attaching, Proved
  <2>3. \A d \in Callers, t \in DOMAIN chain : Holding(d, t)' => Holding(d, t)
        BY <1>1, <2>1 DEF Holding
  <2> QED BY <2>1, <2>2, <2>3, NoMoreHeld
<1>10. CASE Mine \/ Restart \/ UNCHANGED vars
  <2>1. /\ DOMAIN chain' = DOMAIN chain /\ rows' = rows
        /\ \/ UNCHANGED <<tx, pc, receipt>>
           \/ \A c \in Callers : tx'[c] = None /\ pc'[c] = "idle"
        BY <1>10 DEF Mine, Restart, Chain!Mine, Chain!Restart, vars, store, client, locals
  <2> QED BY <1>1, <2>1, NoMoreHeld DEF Holding, Attaching, Proved
<1> QED BY <1>4, <1>5, <1>6, <1>7, <1>8, <1>9, <1>10 DEF Next, Step

\* The index on tx_hash never turns down a receipt that came from a node, in
\* any interleaving of calls and whatever was ingested before (AttachReceipt).
THEOREM NodeReceiptsAttach == Spec => []IndexNeverRefuses
<1>1. Init => HeldIsFresh
      BY DEF Init, Chain!Init, HeldIsFresh
<1>2. IInv /\ HeldIsFresh /\ [Next]_vars => HeldIsFresh'
      BY HeldStep
<1>3. IInv /\ HeldIsFresh => IndexNeverRefuses
  <2> SUFFICES ASSUME IInv, HeldIsFresh, ~Mock, NEW c \in Callers, pc[c] = "attach"
               PROVE  ~Repo!TxTaken(recordId[c], receipt[c].txHash)
      BY DEF IndexNeverRefuses
  <2>1. receipt[c].txHash \in DOMAIN chain /\ Holding(c, receipt[c].txHash)
        BY DEF IInv, CallInv, ReceiptFor, Holding
  <2> QED BY <2>1 DEF HeldIsFresh, Attaching, Proved, Repo!TxTaken
<1> QED BY <1>1, <1>2, <1>3, AlwaysIInv, PTL DEF Spec

(***************************************************************************)
(* The metrics and the table                                               *)
(***************************************************************************)

\* Calls that have attached their receipt and are not counted yet.
Accepting == {c \in Callers : pc[c] = "accept"}

CountsAgree ==
    /\ IsFiniteSet(Accepting)
    /\ metrics.total = metrics.accepted + metrics.rejected
    /\ Cardinality(Proved) =
          provedAtStart + metrics.accepted + Cardinality(Accepting)

\* Rows can be counted.
LEMMA ProvedFinite ==
  ASSUME TypeOK
  PROVE  /\ IsFiniteSet(DOMAIN rows) /\ IsFiniteSet(Proved)
         /\ Cardinality(Proved) \in Nat
<1>1. Proved \subseteq DOMAIN rows /\ DOMAIN rows \subseteq 1..seq /\ seq \in Nat
      BY DEF Proved, TypeOK, Repo!TypeOK
<1>2. IsFiniteSet(1..seq)
      BY <1>1, FS_Interval
<1>3. IsFiniteSet(DOMAIN rows)
      BY <1>1, <1>2, FS_Subset
<1>4. IsFiniteSet(Proved)
      BY <1>1, <1>3, FS_Subset
<1> QED BY <1>3, <1>4, FS_CardinalityType

\* Steps that prove no row and neither reach nor leave "accept".
LEMMA NothingCounted ==
  ASSUME CountsAgree, Accepting' = Accepting, Proved' = Proved,
         UNCHANGED <<metrics, provedAtStart>>
  PROVE  CountsAgree'
  BY DEF CountsAgree

\* A proof, a count and a restart each move one call, or all, in the balance.
LEMMA CountsStep ==
  ASSUME IInv, CountsAgree, [Next]_vars
  PROVE  CountsAgree'
<1> TypeOK
    BY DEF IInv
<1>1. /\ Cardinality(Accepting) \in Nat /\ Cardinality(Proved) \in Nat
      /\ provedAtStart \in Nat
      /\ metrics \in [total : Nat, accepted : Nat, rejected : Nat]
      BY ProvedFinite, FS_CardinalityType DEF CountsAgree, TypeOK
<1>2. ASSUME NEW c \in Callers, AttachReceipt(c) PROVE CountsAgree'
  <2>1. /\ recordId[c] \in DOMAIN rows /\ rows[recordId[c]].receipt = None
        /\ receipt[c] # None
        BY <1>2, NoneAssumption DEF AttachReceipt, From, IInv, CallInv, Holds
  <2>2. Proved' = Proved \cup {recordId[c]} /\ recordId[c] \notin Proved
    <3>1. rows' = [rows EXCEPT ![recordId[c]].receipt = receipt[c]]
          BY <1>2 DEF AttachReceipt, Repo!AttachReceipt
    <3> QED BY <2>1, <3>1 DEF Proved, TypeOK, Repo!TypeOK
  <2>3. Accepting' = Accepting \cup {c} /\ c \notin Accepting
        BY <1>2 DEF AttachReceipt, From, Accepting, TypeOK
  <2>4. Cardinality(Proved') = Cardinality(Proved) + 1
        BY <2>2, ProvedFinite, FS_AddElement
  <2>5. IsFiniteSet(Accepting') /\ Cardinality(Accepting') = Cardinality(Accepting) + 1
        BY <2>3, FS_AddElement DEF CountsAgree
  <2> QED BY <1>1, <1>2, <2>4, <2>5 DEF AttachReceipt, history, CountsAgree
<1>3. ASSUME NEW c \in Callers, FinishWith(c) PROVE CountsAgree'
  <2>1. Proved' = Proved /\ provedAtStart' = provedAtStart
        BY <1>3 DEF FinishWith, store, history, Proved
  <2>2. CASE From(c, "accept", "idle") /\ RecordAccepted
    <3>1. Accepting' = Accepting \ {c} /\ c \in Accepting
          BY <2>2 DEF From, Accepting, TypeOK
    <3>2. IsFiniteSet(Accepting') /\ Cardinality(Accepting') = Cardinality(Accepting) - 1
          BY <3>1, FS_RemoveElement DEF CountsAgree
    <3>3. /\ metrics'.total = metrics.total + 1 /\ metrics'.accepted = metrics.accepted + 1
          /\ metrics'.rejected = metrics.rejected
          BY <1>1, <2>2 DEF RecordAccepted
    <3> QED BY <1>1, <2>1, <3>2, <3>3 DEF CountsAgree
  <2>3. CASE From(c, "reject", "idle") /\ RecordRejected
    <3>1. Accepting' = Accepting
          BY <2>3 DEF From, Accepting, TypeOK
    <3>2. /\ metrics'.total = metrics.total + 1 /\ metrics'.accepted = metrics.accepted
          /\ metrics'.rejected = metrics.rejected + 1
          BY <1>1, <2>3 DEF RecordRejected
    <3> QED BY <1>1, <2>1, <3>1, <3>2 DEF CountsAgree
  <2> QED BY <1>3, <2>2, <2>3 DEF FinishWith
<1>4. CASE Restart
  <2>1. /\ Accepting' = {} /\ Proved' = Proved /\ provedAtStart' = Cardinality(Proved)
        /\ metrics'.total = 0 /\ metrics'.accepted = 0 /\ metrics'.rejected = 0
        BY <1>4 DEF Restart, store, Accepting, Proved, NoMetrics
  <2> QED BY <1>1, <2>1, FS_EmptySet DEF CountsAgree
<1>5. ASSUME NEW c \in Callers, Save(c) PROVE CountsAgree'
  <2>1. Proved' = Proved
        BY <1>5 DEF Save, Repo!Save, Proved, TypeOK, Repo!TypeOK
  <2> QED BY <1>5, <2>1, NothingCounted DEF Save, From, Accepting, TypeOK, history
<1>6. ASSUME NEW c \in Callers, Rollback(c) PROVE CountsAgree'
  <2>1. recordId[c] \notin Proved
        BY <1>6 DEF Rollback, From, IInv, CallInv, Holds, Proved
  <2>2. Proved' = Proved
        BY <1>6, <2>1 DEF Rollback, Repo!Delete, Repo!DeleteFails, Repo!SqlFault,
           Repo!repository, Proved
  <2> QED BY <1>6, <2>2, NothingCounted DEF Rollback, From, Accepting, TypeOK, history
<1>7. ASSUME UNCHANGED <<rows, metrics, provedAtStart>>, Accepting' = Accepting
      PROVE  CountsAgree'
      BY <1>7, NothingCounted DEF Proved
<1>8. ASSUME NEW c \in Callers, NEW p \in Packets, Ingest(c, p)
      PROVE  UNCHANGED <<rows, metrics, provedAtStart>> /\ Accepting' = Accepting
      BY <1>8 DEF Ingest, From, store, history, Accepting, TypeOK
<1>9. ASSUME NEW c \in Callers,
             SaveThrows(c) \/ NodeTakesTx(c) \/ SubmitHash(c) \/ SubmitHashThrows(c)
             \/ AttachReceiptFails(c)
      PROVE  UNCHANGED <<rows, metrics, provedAtStart>> /\ Accepting' = Accepting
      BY <1>9 DEF SaveThrows, NodeTakesTx, SubmitHash, SubmitHashThrows, AttachReceiptFails,
         From, store, history, Accepting, TypeOK, Repo!SqlFault, Repo!repository,
         Repo!AttachReceiptFails
<1>10. CASE Mine \/ UNCHANGED vars
       BY <1>7, <1>10 DEF Mine, vars, store, history, Accepting
<1> QED BY <1>2, <1>3, <1>4, <1>5, <1>6, <1>7, <1>8, <1>9, <1>10 DEF Next, Step

\* Calls under way.
Calling == {c \in Callers : pc[c] # "idle"}

\* Each call is under way, in the total, or in no counter at all.
CallsAgree ==
    /\ IsFiniteSet(Calling)
    /\ requests = metrics.total + uncounted + Cardinality(Calling)

\* Steps that neither begin nor end a call.
LEMMA NothingCalled ==
  ASSUME CallsAgree, Calling' = Calling, UNCHANGED <<metrics, uncounted, requests>>
  PROVE  CallsAgree'
  BY DEF CallsAgree

\* A call that ends is counted, in one way or the other, or throws.
LEMMA CallsStep ==
  ASSUME TypeOK, CallsAgree, [Next]_vars
  PROVE  CallsAgree'
<1>1. /\ Cardinality(Calling) \in Nat /\ requests \in Nat /\ uncounted \in Nat
      /\ metrics \in [total : Nat, accepted : Nat, rejected : Nat]
      BY FS_CardinalityType DEF CallsAgree, TypeOK
<1>2. ASSUME NEW c \in Callers, NEW p \in Packets, Ingest(c, p) PROVE CallsAgree'
  <2>1. Calling' = Calling \cup {c} /\ c \notin Calling
        BY <1>2 DEF Ingest, From, Calling, TypeOK
  <2>2. IsFiniteSet(Calling') /\ Cardinality(Calling') = Cardinality(Calling) + 1
        BY <2>1, FS_AddElement DEF CallsAgree
  <2> QED BY <1>1, <1>2, <2>2 DEF Ingest, history, CallsAgree
<1>3. ASSUME NEW c \in Callers, From(c, "accept", "idle") \/ From(c, "reject", "idle")
                                 \/ From(c, "save", "idle")
      PROVE  IsFiniteSet(Calling') /\ Cardinality(Calling') = Cardinality(Calling) - 1
  <2>1. Calling' = Calling \ {c} /\ c \in Calling
        BY <1>3 DEF From, Calling, TypeOK
  <2> QED BY <2>1, FS_RemoveElement DEF CallsAgree
<1>4. ASSUME NEW c \in Callers, SaveThrows(c) PROVE CallsAgree'
      BY <1>1, <1>3, <1>4 DEF SaveThrows, CallsAgree
<1>5. ASSUME NEW c \in Callers, FinishWith(c) PROVE CallsAgree'
  <2>1. /\ metrics'.total = metrics.total + 1
        /\ requests' = requests /\ uncounted' = uncounted
        BY <1>1, <1>5 DEF FinishWith, RecordAccepted, RecordRejected, history
  <2> QED BY <1>1, <1>3, <1>5, <2>1 DEF FinishWith, CallsAgree
<1>6. CASE Restart
  <2>1. /\ Calling' = {} /\ metrics'.total = 0
        /\ uncounted' = requests /\ requests' = requests
        BY <1>6 DEF Restart, Calling, NoMetrics
  <2> QED BY <1>1, <2>1, FS_EmptySet DEF CallsAgree
<1>7. ASSUME NEW c \in Callers,
             Save(c) \/ NodeTakesTx(c) \/ SubmitHash(c) \/ SubmitHashThrows(c)
             \/ AttachReceipt(c) \/ AttachReceiptFails(c) \/ Rollback(c)
      PROVE  UNCHANGED <<metrics, uncounted, requests>> /\ Calling' = Calling
      BY <1>7 DEF Save, NodeTakesTx, SubmitHash, SubmitHashThrows, AttachReceipt,
         AttachReceiptFails, Rollback, From, history, locals, Calling, TypeOK
<1>8. CASE Mine \/ UNCHANGED vars
      BY <1>8, NothingCalled DEF Mine, vars, history, Calling
<1> QED BY <1>2, <1>4, <1>5, <1>6, <1>7, <1>8, NothingCalled DEF Next, Step

\* CallsAgree holds always.
LEMMA AlwaysCallsAgree == Spec => []CallsAgree
<1>1. Init => CallsAgree
  <2> SUFFICES ASSUME Init PROVE CallsAgree
      OBVIOUS
  <2>1. Calling = {} /\ metrics.total = 0 /\ uncounted = 0 /\ requests = 0
        BY DEF Init, Calling, NoMetrics
  <2> QED BY <2>1, FS_EmptySet DEF CallsAgree
<1>2. TypeOK /\ CallsAgree /\ [Next]_vars => CallsAgree'
      BY CallsStep
<1> QED BY <1>1, <1>2, TypeCorrect, PTL DEF Spec

\* CountsAgree holds always.
LEMMA AlwaysCountsAgree == Spec => []CountsAgree
<1>1. Init => CountsAgree
  <2> SUFFICES ASSUME Init PROVE CountsAgree
      OBVIOUS
  <2>1. /\ Accepting = {} /\ Proved = {} /\ provedAtStart = 0
        /\ metrics.total = 0 /\ metrics.accepted = 0 /\ metrics.rejected = 0
        BY DEF Init, Repo!Init, Accepting, Proved, NoMetrics
  <2> QED BY <2>1, FS_EmptySet DEF CountsAgree
<1> QED BY <1>1, CountsStep, AlwaysIInv, PTL DEF Spec

\* The overview endpoint counts no request twice and forgets none but those that
\* Save ended by an exception, and its size of the repository is what the
\* counters and the unproved rows explain, at any moment and in every process
\* (GetMetricsSnapshot).
THEOREM MetricsAddUp == Spec => []MetricsMatchStorage
<1>1. TypeOK /\ CountsAgree /\ CallsAgree => MetricsMatchStorage
  <2> SUFFICES ASSUME TypeOK, CountsAgree, CallsAgree PROVE MetricsMatchStorage
      OBVIOUS
  <2> DEFINE unproved == DOMAIN rows \ Proved
  <2>1. DOMAIN rows = Proved \cup unproved /\ Proved \cap unproved = {}
        BY DEF Proved
  <2>2. IsFiniteSet(Proved) /\ IsFiniteSet(unproved)
        BY ProvedFinite, FS_Subset
  <2>3. Cardinality(DOMAIN rows) = Cardinality(Proved) + Cardinality(unproved)
    <3> HIDE DEF unproved
    <3>1. Cardinality(Proved \cup unproved)
            = Cardinality(Proved) + Cardinality(unproved) - Cardinality(Proved \cap unproved)
          BY <2>2, FS_Union
    <3>2. Cardinality(Proved) \in Nat /\ Cardinality(unproved) \in Nat
          BY <2>2, FS_CardinalityType
    <3>3. Cardinality(Proved \cap unproved) = 0
          BY <2>1, FS_EmptySet
    <3> QED BY <2>1, <3>1, <3>2, <3>3
  <2>4. GetMetricsSnapshot = [totalRequests |-> metrics.total, acceptedRequests |-> metrics.accepted,
                              rejectedRequests |-> metrics.rejected,
                              repositorySize |-> Cardinality(DOMAIN rows)]
        BY DEF GetMetricsSnapshot, Repo!Size, Repo!Cardinality, Cardinality
  <2>5. /\ metrics.total = metrics.accepted + metrics.rejected
        /\ Cardinality(DOMAIN rows) =
              provedAtStart + metrics.accepted + Cardinality(Accepting) + Cardinality(unproved)
        BY <2>3 DEF CountsAgree
  <2>6. /\ requests = metrics.total + uncounted + Cardinality(Calling)
        /\ Calling = {c \in Callers : pc[c] \in Labels \ {"idle"}}
        /\ Accepting = {c \in Callers : pc[c] \in {"accept"}}
        BY DEF CallsAgree, Calling, Accepting, TypeOK
  <2> QED BY <2>4, <2>5, <2>6 DEF MetricsMatchStorage
<1> QED BY <1>1, AlwaysCountsAgree, AlwaysCallsAgree, TypeCorrect, PTL
===============================================================================
