--------------------------- MODULE TelemetryLedger ---------------------------
(***************************************************************************)
(* What the gateway promises about its records, whatever threads, faults   *)
(* and crashes it runs under: a record id is handed out once; the packet   *)
(* under an id never changes; a record gets at most one chain proof, which *)
(* no other record has; and a record that has its proof stays for ever.    *)
(***************************************************************************)
EXTENDS Naturals

CONSTANTS Packets, Receipts, NoReceipt

VARIABLES records,  \* id -> [packet, receipt], for the ids now present
          lastId    \* every id handed out is in 1..lastId

ledger == <<records, lastId>>

Unproved(id) == id \in DOMAIN records /\ records[id].receipt = NoReceipt

Init == records = [id \in {} |-> NoReceipt] /\ lastId = 0

Admit(packet) ==
    /\ lastId' = lastId + 1
    /\ records' = [id \in DOMAIN records \cup {lastId'} |->
                      IF id = lastId'
                      THEN [packet |-> packet, receipt |-> NoReceipt]
                      ELSE records[id]]

Prove(id, receipt) ==
    /\ Unproved(id)
    /\ \A other \in DOMAIN records :
          records[other].receipt # NoReceipt =>
              records[other].receipt.txHash # receipt.txHash
    /\ records' = [records EXCEPT ![id].receipt = receipt]
    /\ UNCHANGED lastId

Withdraw(id) ==
    /\ Unproved(id)
    /\ records' = [i \in DOMAIN records \ {id} |-> records[i]]
    /\ UNCHANGED lastId

Next ==
    \/ \E packet \in Packets : Admit(packet)
    \/ \E id \in DOMAIN records :
          \/ \E receipt \in Receipts : Prove(id, receipt)
          \/ Withdraw(id)

Spec == Init /\ [][Next]_ledger

==============================================================================
