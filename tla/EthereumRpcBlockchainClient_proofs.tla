----------------- MODULE EthereumRpcBlockchainClient_proofs -----------------
(***************************************************************************)
(* Theorems about EthereumRpcBlockchainClient, for every wait, interval,   *)
(* exchange time and set of hashes.                                        *)
(***************************************************************************)
EXTENDS EthereumRpcBlockchainClient, TLAPS

\* An idle client and an empty chain have their types.
LEMMA TypeInitial == Init => TypeOK
  BY NoneAssumption DEF Init, TypeOK, Contract!NumbersAreNew

\* What the control states say about the counters: a poll that is not the last
\* is followed by a sleep, and a sleep only begins before the wait is over.
WaitInv ==
    /\ pc = "send" => polls = 0 /\ elapsed = 0
    /\ pc = "poll" => /\ polls * PollInterval <= elapsed
                      /\ polls > 0 => (polls - 1) * PollInterval < MaxWait
    /\ PollsBounded

\* The arithmetic of one more poll.
LEMMA PollStep ==
  ASSUME NEW n \in Nat, NEW p \in Nat
  PROVE  /\ n * p \in Nat
         /\ (n + 1) * p = n * p + p
         /\ n + 1 - 1 = n
         /\ n + 1 - 2 = n - 1
  OBVIOUS

\* Every step keeps the types; a transaction that was sent stays known to the node.
LEMMA TypeStep == TypeOK /\ [Next]_vars => TypeOK'
<1> SUFFICES ASSUME TypeOK, [Next]_vars PROVE TypeOK'
    OBVIOUS
<1> USE DEF TypeOK, node, Contract!NumbersAreNew
<1>1. ASSUME NEW h \in Hashes, SubmitHash(h) PROVE TypeOK'
      BY <1>1, NoneAssumption DEF SubmitHash, Contract!Called
<1>2. CASE NodeTakesTx
  <2>1. nonce \in Nonces /\ nonce' = nonce + 1 /\ made' = <<hash, nonce>>
        BY <1>2 DEF NodeTakesTx, Contract!Post
  <2>2. made' \in Hashes \X Nonces
        BY <2>1
  <2>3. chain' = [t \in DOMAIN chain \cup {made'} |-> IF t = made' THEN 0 ELSE chain[t]]
        BY <1>2 DEF NodeTakesTx, Contract!Post, Contract!TxHash
  <2>4. UNCHANGED <<pc, hash, polls, elapsed>> /\ pc = "send"
        BY <1>2 DEF NodeTakesTx
  <2>5. made' # None /\ made'[2] = nonce
        BY <2>1, <2>2, NoneAssumption
  <2>6. \A t \in DOMAIN chain' : t[2] < nonce'
    <3>1. \A t \in DOMAIN chain : t[2] \in Nat
          BY NoncesAssumption
    <3> QED BY <2>1, <2>3, <2>5, <3>1
  <2> QED BY <2>1, <2>2, <2>3, <2>4, <2>5, <2>6
<1>3. CASE TxHashReceived
      BY <1>3 DEF TxHashReceived, Contract!Called
<1>4. CASE Throw
      BY <1>4 DEF Throw
<1>5. ASSUME NEW time \in RpcTimes, NEW height, Return(height, time) PROVE TypeOK'
      BY <1>5, WaitAssumption DEF Return
<1>6. ASSUME NEW time \in RpcTimes, PollAgain(time) PROVE TypeOK'
      BY <1>6, WaitAssumption DEF PollAgain, ReceiptIsNull
<1>7. CASE Mine
      BY <1>7 DEF Mine, Contract!Mine
<1>8. CASE UNCHANGED vars
      BY <1>8 DEF vars
<1> QED
    BY <1>1, <1>2, <1>3, <1>4, <1>5, <1>6, <1>7, <1>8 DEF Next, ReceiptReceived, GiveUp

\* The types of the client's variables, and that a call past the exchange of
\* its transaction has one that the node knows.
THEOREM TypeCorrect == Spec => []TypeOK
<1>1. Init => TypeOK
      BY TypeInitial
<1>2. TypeOK /\ [Next]_vars => TypeOK'
      BY TypeStep
<1> QED BY <1>1, <1>2, PTL DEF Spec

\* Each poll but the first comes after a sleep of one interval, so polls are bounded by time.
LEMMA WaitStep == TypeOK /\ WaitInv /\ [Next]_vars => WaitInv'
<1> SUFFICES ASSUME TypeOK, WaitInv, [Next]_vars PROVE WaitInv'
    OBVIOUS
<1> polls \in Nat /\ elapsed \in Nat
    BY DEF TypeOK
<1> USE WaitAssumption DEF WaitInv, PollsBounded
<1>1. ASSUME NEW h \in Hashes, SubmitHash(h) PROVE WaitInv'
      BY <1>1 DEF SubmitHash
<1>2. CASE NodeTakesTx
      BY <1>2 DEF NodeTakesTx
<1>3. CASE TxHashReceived
      BY <1>3 DEF TxHashReceived
<1>4. CASE Throw
      BY <1>4 DEF Throw
<1>5. ASSUME NEW time \in RpcTimes, NEW height, pc = "poll", Return(height, time)
      PROVE WaitInv'
      BY <1>5 DEF Return
<1>6. ASSUME NEW time \in RpcTimes, PollAgain(time) PROVE WaitInv'
  <2>1. /\ pc = "poll" /\ pc' = "poll"
        /\ elapsed + time < MaxWait
        /\ polls' = polls + 1
        /\ elapsed' = elapsed + time + PollInterval
        BY <1>6 DEF PollAgain, ReceiptIsNull
  <2> DEFINE slept == polls * PollInterval
  <2>2. slept \in Nat /\ polls' * PollInterval = slept + PollInterval
        BY <2>1, PollStep
  <2>3. slept <= elapsed /\ (polls' - 1) * PollInterval = slept
        BY <2>1, PollStep
  <2>4. polls > 0 => (polls - 1) * PollInterval < MaxWait
        BY <2>1
  <2>5. polls' - 2 = polls - 1
        BY <2>1
  <2> HIDE DEF slept
  <2> QED BY <2>1, <2>2, <2>3, <2>4, <2>5
<1>7. CASE Mine
      BY <1>7 DEF Mine
<1>8. CASE UNCHANGED vars
      BY <1>8 DEF vars
<1> QED
    BY <1>1, <1>2, <1>3, <1>4, <1>5, <1>6, <1>7, <1>8
    DEF Next, ReceiptReceived, GiveUp, ReceiptIsNull

\* However long the wait, however short the interval and however fast the
\* node, a call makes at most ceil(maxWaitMs / pollIntervalMs) + 1 polls.
THEOREM PollsAreBounded == Spec => []PollsBounded
<1>1. Init => WaitInv
      BY DEF Init, WaitInv, PollsBounded
<1>2. TypeOK /\ WaitInv /\ [Next]_vars => WaitInv'
      BY WaitStep
<1>3. WaitInv => PollsBounded
      BY DEF WaitInv
<1> QED BY <1>1, <1>2, <1>3, TypeCorrect, PTL DEF Spec

ReceiptInv ==
    /\ made \notin {None, Contract!Called} => made[1] = hash
    /\ ReceiptIsTrue

\* The node forgets no transaction, and a block number once given is kept.
LEMMA ChainGrows ==
  ASSUME TypeOK, [Next]_vars
  PROVE  \A t \in DOMAIN chain : /\ t \in DOMAIN chain'
                                 /\ chain[t] # 0 => chain'[t] = chain[t]
<1>1. CASE NodeTakesTx
  <2>1. <<hash, nonce>> \notin DOMAIN chain
        BY DEF TypeOK, Contract!NumbersAreNew
  <2> QED BY <1>1, <2>1 DEF NodeTakesTx, Contract!Post, Contract!TxHash
<1>2. CASE Mine
      BY <1>2 DEF Mine, Contract!Mine, TypeOK
<1>3. CASE UNCHANGED chain
      BY <1>3
<1>4. ASSUME ~NodeTakesTx, ~Mine PROVE UNCHANGED chain
  <2>1. ASSUME NEW h \in Hashes, SubmitHash(h) PROVE UNCHANGED chain
        BY <2>1 DEF SubmitHash, node
  <2>2. ASSUME NEW time \in RpcTimes, ReceiptReceived(time) \/ GiveUp(time)
        PROVE  UNCHANGED chain
        BY <2>2 DEF ReceiptReceived, GiveUp, Return, node
  <2>3. ASSUME NEW time \in RpcTimes, PollAgain(time) PROVE UNCHANGED chain
        BY <2>3 DEF PollAgain, node
  <2>4. ASSUME TxHashReceived \/ Throw \/ UNCHANGED vars PROVE UNCHANGED chain
        BY <2>4 DEF TxHashReceived, Throw, vars, node
  <2> QED BY <1>4, <2>1, <2>2, <2>3, <2>4 DEF Next
<1> QED BY <1>1, <1>2, <1>3, <1>4

\* A receipt is made of what the node said of the transaction of this call.
LEMMA ReceiptStep == TypeOK /\ ReceiptInv /\ [Next]_vars => ReceiptInv'
<1> SUFFICES ASSUME TypeOK, ReceiptInv, [Next]_vars PROVE ReceiptInv'
    OBVIOUS
<1> USE DEF ReceiptInv, ReceiptIsTrue
<1>1. ASSUME NEW h \in Hashes, SubmitHash(h) PROVE ReceiptInv'
      BY <1>1 DEF SubmitHash, Contract!Called
<1>2. CASE NodeTakesTx
  <2>1. made' = <<hash, nonce>> /\ UNCHANGED <<hash, result>>
        BY <1>2 DEF NodeTakesTx
  <2>2. made'[1] = hash
        BY <2>1
  <2>3. ReceiptIsTrue'
        BY <2>1, <1>2, ChainGrows DEF Contract!BlockKnown, NodeTakesTx, Contract!Post
  <2> QED BY <2>1, <2>2, <2>3
<1>3. CASE TxHashReceived
      BY <1>3 DEF TxHashReceived, node, Contract!BlockKnown
<1>4. CASE Throw
      BY <1>4 DEF Throw, node, Contract!BlockKnown
<1>5. ASSUME NEW time \in RpcTimes, NEW height \in {0, chain[made]}, pc = "poll",
             Return(height, time)
      PROVE  ReceiptInv'
  <2>1. made \in DOMAIN chain /\ made[1] = hash
        BY <1>5, NoneAssumption DEF TypeOK, Contract!Called
  <2>2. /\ result' = [txHash |-> made, blockHeight |-> height]
        /\ made' = None /\ UNCHANGED <<chain, hash>>
        BY <1>5 DEF Return, node
  <2>3. result'.txHash = made /\ result'.blockHeight = height
        BY <2>2
  <2>4. height \in {0, chain'[made]}
        BY <1>5, <2>2
  <2> QED BY <2>1, <2>2, <2>3, <2>4 DEF Contract!BlockKnown
<1>6. ASSUME NEW time \in RpcTimes, PollAgain(time) PROVE ReceiptInv'
      BY <1>6 DEF PollAgain, node, Contract!BlockKnown
<1>7. CASE Mine
      BY <1>7, ChainGrows DEF Mine, Contract!BlockKnown
<1>8. CASE UNCHANGED vars
      BY <1>8 DEF vars, node, Contract!BlockKnown
<1> QED
    BY <1>1, <1>2, <1>3, <1>4, <1>5, <1>6, <1>7, <1>8
    DEF Next, ReceiptReceived, GiveUp, ReceiptIsNull

\* What SubmitHash returns is about the transaction it made for its own hash,
\* and never puts it in a block that it is not in.
THEOREM ReceiptsAreTrue == Spec => []ReceiptIsTrue
<1>1. Init => ReceiptInv
      BY DEF Init, ReceiptInv, ReceiptIsTrue
<1>2. TypeOK /\ ReceiptInv /\ [Next]_vars => ReceiptInv'
      BY ReceiptStep
<1>3. ReceiptInv => ReceiptIsTrue
      BY DEF ReceiptInv
<1> QED BY <1>1, <1>2, <1>3, TypeCorrect, PTL DEF Spec

\* Each step is one of the contract or shows no change to the caller.
LEMMA ContractStep == TypeOK /\ [Next]_vars => [Contract!Next]_(Contract!blockchain)
<1> SUFFICES ASSUME TypeOK, [Next]_vars PROVE [Contract!Next]_(Contract!blockchain)
    OBVIOUS
<1> DEFINE calls == [c \in {Caller} |-> made]
<1>0. calls[Caller] = made /\ \A t : [calls EXCEPT ![Caller] = t] = [c \in {Caller} |-> t]
      OBVIOUS
<1>1. ASSUME NEW h \in Hashes, SubmitHash(h) PROVE Contract!Next
  <2>1. Contract!Call(Caller)
        BY <1>1, <1>0 DEF SubmitHash, TypeOK, node, Contract!Call, Contract!Called
  <2> QED BY <2>1 DEF Contract!Next
<1>2. CASE NodeTakesTx
  <2>1. Contract!Post(Caller, hash)
        BY <1>2 DEF NodeTakesTx
  <2> QED BY <2>1 DEF Contract!Next, TypeOK
<1>3. CASE TxHashReceived
      BY <1>3 DEF TxHashReceived, node, Contract!blockchain
<1>4. CASE Throw
  <2>1. Contract!Throw(Caller)
        BY <1>4, <1>0 DEF Throw, TypeOK, node, Contract!Throw
  <2> QED BY <2>1 DEF Contract!Next
<1>5. ASSUME NEW time \in RpcTimes, NEW height \in {0, chain[made]}, pc = "poll",
             Return(height, time)
      PROVE  Contract!Next
  <2> DEFINE receipt == [txHash |-> made, blockHeight |-> height]
  <2>1. /\ made \in DOMAIN chain /\ made \in Hashes \X Nonces
        /\ made' = None /\ UNCHANGED <<chain, nonce>>
        BY <1>5 DEF Return, node, TypeOK
  <2>2. receipt.txHash = made /\ receipt.blockHeight = height
        OBVIOUS
  <2>3. made \notin {None, Contract!Called}
    <3>1. PICK h \in Hashes, n \in Nonces : made = <<h, n>>
          BY <2>1
    <3>2. made # <<>>
          BY <3>1
    <3> QED BY <2>1, <3>2, NoneAssumption DEF Contract!Called
  <2> HIDE DEF receipt
  <2>4. Contract!Return(Caller, hash, receipt)
        BY <1>5, <1>0, <2>1, <2>2, <2>3 DEF Contract!Return, Contract!BlockKnown
  <2>5. height \in Heights \cup {0}
        BY <2>1 DEF TypeOK
  <2>6. receipt = [txHash |-> IF FALSE THEN Contract!TxHash(hash) ELSE calls[Caller],
                   blockHeight |-> height]
        BY <1>0 DEF receipt
  <2> QED BY <2>4, <2>5, <2>6 DEF Contract!Next, TypeOK
<1>6. ASSUME NEW time \in RpcTimes, PollAgain(time) PROVE UNCHANGED Contract!blockchain
      BY <1>6 DEF PollAgain, node, Contract!blockchain
<1>7. CASE Mine
      BY <1>7 DEF Mine, Contract!Next
<1>8. CASE UNCHANGED vars
      BY <1>8 DEF vars, node, Contract!blockchain
<1> QED
    BY <1>1, <1>2, <1>3, <1>4, <1>5, <1>6, <1>7, <1>8
    DEF Next, ReceiptReceived, GiveUp, ReceiptIsNull

\* Every behaviour of the JSON-RPC client is one that its callers are promised
\* by BlockchainClient: one transaction per call at most, none once it threw.
THEOREM ImplementsContract == Spec => ContractSpec
<1>1. Init => Contract!Init
      BY DEF Init, Contract!Init
<1>2. TypeOK /\ [Next]_vars => [Contract!Next]_(Contract!blockchain)
      BY ContractStep
<1> QED BY <1>1, <1>2, TypeCorrect, PTL DEF Spec, ContractSpec, Contract!Spec

=============================================================================
