--------------------- MODULE EthereumRpcBlockchainClient ---------------------
(***************************************************************************)
(* EthereumRpcBlockchainClient::SubmitHash, one call after another: it     *)
(* sends the transaction once, then polls for its receipt until the node   *)
(* has one or maxWaitMs have passed.  Each request is an HTTP exchange on  *)
(* a connection of its own, which may fail before the node acts or after.  *)
(* The node (external) takes transactions and mines them when it likes.    *)
(***************************************************************************)
EXTENDS Naturals

CONSTANTS
    Caller,         \* the thread that calls
    Hashes, Heights,
    Nonces,         \* numbers a transaction may get: bounds a run
    RpcTimes,       \* milliseconds an exchange takes: recv has no timeout
    MaxWait,        \* maxWaitMs
    PollInterval,   \* pollIntervalMs
    None            \* no transaction, no result

VARIABLES
    chain, nonce,   \* the node
    made,           \* the transaction that the node made for this call
                    \* (Called: none yet; None: no call)
    pc,             \* "idle", "send" or "poll"
    hash,           \* hashHex of the call
    result,         \* what the last call returned; None if it threw
    polls,          \* eth_getTransactionReceipt replies in this call
    elapsed         \* milliseconds since the transaction hash was received

node == <<chain, nonce>>
vars == <<node, made, pc, hash, result, polls, elapsed>>

ASSUME NoneAssumption == None \notin (Hashes \X Nonces) \cup {<<>>}
ASSUME NoncesAssumption == Nonces \subseteq Nat
ASSUME WaitAssumption ==
    /\ MaxWait \in Nat
    /\ PollInterval \in Nat \ {0}
    /\ RpcTimes \subseteq Nat

Contract == INSTANCE BlockchainClient
    WITH Callers <- {Caller}, Mock <- FALSE, NoTx <- None,
         tx <- [c \in {Caller} |-> made]

Init ==
    /\ chain = [t \in {} |-> 0] /\ nonce = 1
    /\ made = None /\ result = None
    /\ pc = "idle"
    /\ hash \in Hashes
    /\ polls = 0 /\ elapsed = 0

\* The addresses are configured; otherwise it throws and nothing changes.
SubmitHash(hashHex) ==
    /\ pc = "idle" /\ pc' = "send"
    /\ hash' = hashHex
    /\ result' = None
    /\ polls' = 0 /\ elapsed' = 0
    /\ made' = Contract!Called
    /\ UNCHANGED node

NodeTakesTx ==
    /\ pc = "send"
    /\ made' = <<hash, nonce>>
    /\ Contract!Post(Caller, hash)
    /\ UNCHANGED <<pc, hash, result, polls, elapsed>>

\* A mistake in the exchange: a send without an answer is made again.
ThrowResends ==
    /\ pc = "send" /\ made # Contract!Called
    /\ made' = Contract!Called
    /\ UNCHANGED <<node, pc, hash, result, polls, elapsed>>

\* A mistake in TxHashReceived: a reply without a result is not refused.
TxHashUnchecked ==
    /\ pc = "send" /\ pc' = "poll"
    /\ UNCHANGED <<node, made, hash, result, polls, elapsed>>

\* The reply has the transaction hash, and the clock of the wait starts.
TxHashReceived ==
    /\ pc = "send" /\ made # Contract!Called
    /\ pc' = "poll"
    /\ UNCHANGED <<node, made, hash, result, polls, elapsed>>

\* A failed exchange, an "error" reply, a reply that has no result: whether
\* the node took the transaction or not, and at any poll.
Throw ==
    /\ pc # "idle" /\ pc' = "idle"
    /\ made' = None
    /\ UNCHANGED <<node, hash, result, polls, elapsed>>

Return(height, time) ==
    /\ pc' = "idle"
    /\ result' = [txHash |-> made, blockHeight |-> height]
    /\ made' = None
    /\ polls' = polls + 1
    /\ elapsed' = elapsed + time
    /\ UNCHANGED <<node, hash>>

\* The receipt is not null: its block number, or 0 when it has none.
ReceiptReceived(time) ==
    /\ pc = "poll"
    /\ \E height \in {0, chain[made]} : Return(height, time)

ReceiptIsNull == pc = "poll" /\ chain[made] = 0

\* A mistake in GiveUp: the tip of the chain stands for the block.
GiveUpWithTip(time) ==
    /\ ReceiptIsNull
    /\ elapsed + time >= MaxWait
    /\ \E t \in DOMAIN chain : Return(chain[t], time)

GiveUp(time) ==
    /\ ReceiptIsNull
    /\ elapsed + time >= MaxWait
    /\ Return(0, time)

\* A mistake in PollAgain: the clock starts again with every poll.
PollAgainResetsClock(time) ==
    /\ ReceiptIsNull
    /\ time < MaxWait
    /\ polls' = polls + 1
    /\ elapsed' = time
    /\ UNCHANGED <<node, made, pc, hash, result>>

\* sleep_for(pollIntervalMs), and ask again.
PollAgain(time) ==
    /\ ReceiptIsNull
    /\ elapsed + time < MaxWait
    /\ polls' = polls + 1
    /\ elapsed' = elapsed + time + PollInterval
    /\ UNCHANGED <<node, made, pc, hash, result>>

Mine ==
    /\ UNCHANGED <<made, pc, hash, result, polls, elapsed>>
    /\ \E t \in DOMAIN chain, height \in Heights : Contract!Mine(t, height)

Next ==
    \/ \E h \in Hashes : SubmitHash(h)
    \/ NodeTakesTx \/ TxHashReceived \/ Throw
    \/ \E time \in RpcTimes : ReceiptReceived(time) \/ GiveUp(time) \/ PollAgain(time)
    \/ Mine

Spec == Init /\ [][Next]_vars

------------------------------------------------------------------------------
TypeOK ==
    /\ nonce \in Nat /\ hash \in Hashes
    /\ DOMAIN chain \subseteq Hashes \X Nonces
    /\ Contract!NumbersAreNew
    /\ \A t \in DOMAIN chain : chain[t] \in Heights \cup {0}
    /\ pc \in {"idle", "send", "poll"}
    /\ pc = "idle" <=> made = None
    /\ made \in {None, Contract!Called} \/ made \in DOMAIN chain
    /\ pc = "poll" => made \in DOMAIN chain
    /\ polls \in Nat /\ elapsed \in Nat

\* A call asks for the receipt at most ceil(maxWaitMs / pollIntervalMs) + 1
\* times, however fast the node answers (the loop of SubmitHash).
PollsBounded == polls > 1 => (polls - 2) * PollInterval < MaxWait

\* A receipt names a transaction the node has for the hash of the call, with
\* the block it is in or height 0: a transaction is never reported in a block
\* that it is not in.
ReceiptIsTrue ==
    result # None =>
        /\ result.txHash \in DOMAIN chain
        /\ result.txHash[1] = hash
        /\ Contract!BlockKnown(result.txHash, result.blockHeight)

\* The callers of the interface see what BlockchainClient says, in which a
\* call makes at most one transaction.
ContractSpec == Contract!Spec

==============================================================================
