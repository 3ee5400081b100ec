--------------------------- MODULE BlockchainClient ---------------------------
(***************************************************************************)
(* What a caller of BlockchainClient::SubmitHash sees, for both            *)
(* implementations.  In ethereum mode a call is several steps: the node    *)
(* may take the transaction, blocks are mined, and the call returns a      *)
(* receipt or throws, having or not having made a transaction.  In mock    *)
(* mode the call is one step that draws the next value of a counter.       *)
(* EthereumRpcBlockchainClient is shown to implement this module.          *)
(***************************************************************************)
EXTENDS Naturals

CONSTANTS
    Callers,    \* threads that may be inside SubmitHash
    Hashes,     \* what they submit
    Heights,    \* block numbers; a height of 0 is a block not known
    Nonces,     \* numbers a transaction may get: bounds a run, Nat otherwise
    Mock,       \* AGRI_CHAIN_MODE: MockBlockchainClient, or a real node
    NoTx        \* no transaction

VARIABLES
    chain,      \* the node: transaction -> its block, 0 while it is not mined
    nonce,      \* number of the next transaction
    tx          \* tx[c]: the transaction the node made for the call of c,
                \* Called if it made none yet, NoTx when c is not in a call

blockchain == <<chain, nonce, tx>>

\* A transaction is the hash that it carries and the number that tells it from
\* the others: the sender's nonce, or the mock's counter.
TxHash(hash) == <<hash, nonce>>

Called == <<>>

BlockKnown(t, height) == height \in {0, chain[t]}

Init ==
    /\ chain = [t \in {} |-> 0]
    /\ nonce = 1
    /\ tx = [c \in Callers |-> NoTx]

\* c calls SubmitHash.
Call(c) ==
    /\ tx[c] = NoTx
    /\ tx' = [tx EXCEPT ![c] = Called]
    /\ UNCHANGED <<chain, nonce>>

\* The node takes the eth_sendTransaction of c's call.
Post(c, hash) ==
    /\ ~Mock
    /\ tx[c] = Called
    /\ nonce \in Nonces
    /\ tx' = [tx EXCEPT ![c] = TxHash(hash)]
    /\ nonce' = nonce + 1
    /\ chain' = [t \in DOMAIN chain \cup {TxHash(hash)} |->
                    IF t = TxHash(hash) THEN 0 ELSE chain[t]]

\* SubmitHash returns: the transaction, and its block when a poll saw one.
Return(c, hash, receipt) ==
    /\ \/ /\ ~Mock
          /\ tx[c] \notin {NoTx, Called}
          /\ receipt.txHash = tx[c]
          /\ BlockKnown(tx[c], receipt.blockHeight)
          /\ UNCHANGED nonce
       \/ /\ Mock
          /\ tx[c] = Called
          /\ nonce \in Nonces
          /\ receipt.txHash = TxHash(hash)
          /\ receipt.blockHeight \in Heights
          /\ nonce' = nonce + 1
    /\ tx' = [tx EXCEPT ![c] = NoTx]
    /\ UNCHANGED chain

\* SubmitHash throws: before the node took the transaction, or after.
Throw(c) ==
    /\ ~Mock
    /\ tx[c] # NoTx
    /\ tx' = [tx EXCEPT ![c] = NoTx]
    /\ UNCHANGED <<chain, nonce>>

\* A block is mined with t in it.
Mine(t, height) ==
    /\ t \in DOMAIN chain
    /\ chain[t] = 0
    /\ chain' = [chain EXCEPT ![t] = height]
    /\ UNCHANGED <<nonce, tx>>

\* The process starts again: its calls are gone, and so is a counter that was
\* a static variable; the node keeps its own.
Restart ==
    /\ tx' = [c \in Callers |-> NoTx]
    /\ nonce' = IF Mock THEN 1 ELSE nonce
    /\ UNCHANGED chain

\* A transaction is never made a second time: the node counts on.
NumbersAreNew == \A t \in DOMAIN chain : t[2] < nonce

Next ==
    \/ \E c \in Callers : Call(c) \/ Throw(c)
    \/ \E c \in Callers, hash \in Hashes : Post(c, hash)
    \/ \E c \in Callers, hash \in Hashes, height \in Heights \cup {0} :
          LET t == IF Mock THEN TxHash(hash) ELSE tx[c]
          IN Return(c, hash, [txHash |-> t, blockHeight |-> height])
    \/ \E t \in DOMAIN chain, height \in Heights : Mine(t, height)

Spec == Init /\ [][Next]_blockchain

==============================================================================
