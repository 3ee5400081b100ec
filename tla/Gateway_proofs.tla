----------------------------- MODULE Gateway_proofs -----------------------------
(***************************************************************************)
(* Theorems of Gateway, for any clients, packets, faults and restarts: its *)
(* steps, seen through the variables of one component, are steps of that   *)
(* component, so that what is proved of the components holds of the whole. *)
(***************************************************************************)
EXTENDS Gateway, FiniteSetTheorems, TLAPS

(***************************************************************************)
(* Ingest within the gateway                                               *)
(***************************************************************************)

\* Every step of the gateway is one of the ingest service or leaves it alone:
\* what Route, the broadcasts and signals do meanwhile does not reach into it.
LEMMA ServiceStep == [Next]_vars => [Service!Next]_(Service!vars)
<1> SUFFICES ASSUME [Next]_vars PROVE Service!Next \/ UNCHANGED Service!vars
  OBVIOUS
<1> USE DEF service, Service!vars, Service!store, Service!client, Service!locals,
        Service!history
<1>1. CASE Serve BY <1>1 DEF Serve
<1>2. CASE IngestCalled
  <2>1. PICK p \in Packets : Service!Ingest(Thread, p)
    BY <1>2 DEF IngestCalled
  <2> QED BY <2>1 DEF Service!Next
<1>3. CASE InIngest BY <1>3 DEF InIngest, Service!Next, Service!Step
<1>4. CASE IngestReturns BY <1>4 DEF IngestReturns, Service!Next, Service!Step
<1>5. CASE IngestThrows BY <1>5 DEF IngestThrows, Service!Next, Service!Step
<1>6. CASE Push \/ (\E f \in Fds : SendFrame(f)) \/ Respond BY <1>6 DEF Push, SendFrame, Respond
<1>7. CASE HandleSignal BY <1>7 DEF HandleSignal
<1>8. CASE Restart BY <1>8 DEF Restart, Service!Next
<1>9. CASE Mine BY <1>9 DEF Mine, Service!Next
<1>10. ASSUME NEW c \in Clients, Connect(c) \/ Ask(c) \/ Leave(c)
       PROVE  UNCHANGED Service!vars
  BY <1>10 DEF Connect, Ask, Leave
<1>11. CASE UNCHANGED vars BY <1>11 DEF vars
<1> QED
  BY <1>1, <1>2, <1>3, <1>4, <1>5, <1>6, <1>7, <1>8, <1>9, <1>10, <1>11 DEF Next, Work

(***************************************************************************)
(* The server within the gateway                                           *)
(***************************************************************************)

\* Every step of the gateway is one of the server or leaves it alone: Ingest
\* returns, throws or is cut short as HttpServer lets it.
LEMMA ServerStep == [Next]_vars => [Server!Next]_(Server!vars)
<1> SUFFICES ASSUME [Next]_vars PROVE Server!Next \/ UNCHANGED Server!vars
  OBVIOUS
<1> USE DEF server, Server!vars, Server!process, Server!broadcast, Server!outside,
        Server!epoch, Server!history
<1>1. CASE Serve
  BY <1>1 DEF Serve, Server!Next, Server!Serve
<1>2. CASE IngestCalled BY <1>2 DEF IngestCalled
<1>3. CASE InIngest BY <1>3 DEF InIngest
<1>4. CASE IngestReturns BY <1>4 DEF IngestReturns, Server!Next, Server!Serve
<1>5. CASE IngestThrows BY <1>5 DEF IngestThrows, Server!Next, Server!Serve
<1>6. CASE Push \/ (\E f \in Fds : SendFrame(f)) \/ Respond
  BY <1>6 DEF Push, SendFrame, Respond, Server!Next, Server!Serve
<1>7. CASE HandleSignal BY <1>7 DEF HandleSignal, Server!Next
<1>8. CASE Restart BY <1>8 DEF Restart, Server!Next
<1>9. CASE Mine BY <1>9 DEF Mine
<1>10. ASSUME NEW c \in Clients, Connect(c) \/ Ask(c) \/ Leave(c)
       PROVE  Server!Next
  BY <1>10 DEF Connect, Ask, Leave, Server!Next
<1>11. CASE UNCHANGED vars BY <1>11 DEF vars
<1> QED
  BY <1>1, <1>2, <1>3, <1>4, <1>5, <1>6, <1>7, <1>8, <1>9, <1>10, <1>11 DEF Next, Work

(***************************************************************************)
(* What is proved of the components holds in the gateway.  Their theorems  *)
(* come with instances of their own; that these define the same steps is   *)
(* seen by expanding them.                                                 *)
(***************************************************************************)
ServiceProofs == INSTANCE IngestService_proofs WITH Callers <- {Thread}, pc <- place
ServerProofs  == INSTANCE HttpServer_proofs

\* The theorems of IngestService are about the same instance that Gateway has.
LEMMA SameServiceInit == Service!Init => ServiceProofs!Init
  BY DEF Service!Init, ServiceProofs!Init, Service!Repo!Init, ServiceProofs!Repo!Init,
     Service!Chain!Init, ServiceProofs!Chain!Init, Service!NoMetrics, ServiceProofs!NoMetrics

\* So are those of HttpServer.
LEMMA SameServerInit == Server!Init => ServerProofs!Init
  BY DEF Server!Init, ServerProofs!Init, Server!Channels, ServerProofs!Channels

\* Their steps are the same as well, action by action.
LEMMA SameServiceStep == [Service!Next]_(Service!vars) => [ServiceProofs!Next]_(ServiceProofs!vars)
<1>1. ASSUME NEW p \in Packets, Service!Ingest(Thread, p) PROVE ServiceProofs!Ingest(Thread, p)
  BY <1>1 DEF Service!From, ServiceProofs!From, Service!Ingest, ServiceProofs!Ingest,
     Service!Valid, ServiceProofs!Valid, Service!store, ServiceProofs!store, Service!client,
     ServiceProofs!client, Service!history, ServiceProofs!history, Service!Verifier!IsHex64,
     ServiceProofs!Verifier!IsHex64, Service!Verifier!Sha256Hex,
     ServiceProofs!Verifier!Sha256Hex, Service!Verifier!Verify, ServiceProofs!Verifier!Verify,
     Service!Verifier!Sign, ServiceProofs!Verifier!Sign, Service!Verifier!LongEnough,
     ServiceProofs!Verifier!LongEnough
<1>2. Service!Save(Thread) => ServiceProofs!Save(Thread)
  BY DEF Service!From, ServiceProofs!From, Service!Save, ServiceProofs!Save,
     Service!Repo!Save, ServiceProofs!Repo!Save, Service!Chain!Call, ServiceProofs!Chain!Call,
     Service!Chain!Called, ServiceProofs!Chain!Called, Service!history, ServiceProofs!history
<1>3. Service!SaveThrows(Thread) => ServiceProofs!SaveThrows(Thread)
  BY DEF Service!From, ServiceProofs!From, Service!SaveThrows, ServiceProofs!SaveThrows,
     Service!Leave, ServiceProofs!Leave, Service!Repo!SqlFault, ServiceProofs!Repo!SqlFault,
     Service!Repo!repository, ServiceProofs!Repo!repository, Service!client,
     ServiceProofs!client, Service!history, ServiceProofs!history
<1>4. Service!NodeTakesTx(Thread) => ServiceProofs!NodeTakesTx(Thread)
  BY DEF Service!NodeTakesTx, ServiceProofs!NodeTakesTx, Service!Chain!Post,
     ServiceProofs!Chain!Post, Service!Chain!TxHash, ServiceProofs!Chain!TxHash,
     Service!Chain!Called, ServiceProofs!Chain!Called, Service!store, ServiceProofs!store,
     Service!locals, ServiceProofs!locals, Service!history, ServiceProofs!history
<1>5. Service!SubmitHash(Thread) => ServiceProofs!SubmitHash(Thread)
  BY DEF Service!From, ServiceProofs!From, Service!SubmitHash, ServiceProofs!SubmitHash,
     Service!Receipts, ServiceProofs!Receipts, Service!Hashes, ServiceProofs!Hashes,
     Service!Chain!Return, ServiceProofs!Chain!Return, Service!Chain!TxHash,
     ServiceProofs!Chain!TxHash, Service!Chain!Called, ServiceProofs!Chain!Called,
     Service!Chain!BlockKnown, ServiceProofs!Chain!BlockKnown, Service!store,
     ServiceProofs!store, Service!history, ServiceProofs!history
<1>6. Service!SubmitHashThrows(Thread) => ServiceProofs!SubmitHashThrows(Thread)
  BY DEF Service!From, ServiceProofs!From, Service!SubmitHashThrows,
     ServiceProofs!SubmitHashThrows, Service!Chain!Throw, ServiceProofs!Chain!Throw,
     Service!store, ServiceProofs!store, Service!locals, ServiceProofs!locals, Service!history,
     ServiceProofs!history
<1>7. Service!AttachReceipt(Thread) => ServiceProofs!AttachReceipt(Thread)
  BY DEF Service!From, ServiceProofs!From, Service!AttachReceipt, ServiceProofs!AttachReceipt,
     Service!Repo!AttachReceipt, ServiceProofs!Repo!AttachReceipt, Service!Repo!TxTaken,
     ServiceProofs!Repo!TxTaken, Service!client, ServiceProofs!client, Service!locals,
     ServiceProofs!locals, Service!history, ServiceProofs!history
<1>8. Service!AttachReceiptFails(Thread) => ServiceProofs!AttachReceiptFails(Thread)
  BY DEF Service!From, ServiceProofs!From, Service!AttachReceiptFails,
     ServiceProofs!AttachReceiptFails, Service!Repo!AttachReceiptFails,
     ServiceProofs!Repo!AttachReceiptFails, Service!Repo!SqlFault, ServiceProofs!Repo!SqlFault,
     Service!Repo!repository, ServiceProofs!Repo!repository, Service!Repo!TxTaken,
     ServiceProofs!Repo!TxTaken, Service!client, ServiceProofs!client, Service!history,
     ServiceProofs!history
<1>9. Service!Rollback(Thread) => ServiceProofs!Rollback(Thread)
  BY DEF Service!From, ServiceProofs!From, Service!Rollback, ServiceProofs!Rollback,
     Service!Repo!Delete, ServiceProofs!Repo!Delete, Service!Repo!DeleteFails,
     ServiceProofs!Repo!DeleteFails, Service!Repo!SqlFault, ServiceProofs!Repo!SqlFault,
     Service!Repo!repository, ServiceProofs!Repo!repository, Service!client,
     ServiceProofs!client, Service!history, ServiceProofs!history
<1>10. Service!FinishWith(Thread) => ServiceProofs!FinishWith(Thread)
  BY DEF Service!From, ServiceProofs!From, Service!FinishWith, ServiceProofs!FinishWith,
     Service!IngestResult, ServiceProofs!IngestResult, Service!RecordAccepted,
     ServiceProofs!RecordAccepted, Service!RecordRejected, ServiceProofs!RecordRejected,
     Service!Leave, ServiceProofs!Leave, Service!store, ServiceProofs!store, Service!client,
     ServiceProofs!client, Service!history, ServiceProofs!history
<1>11. Service!Mine => ServiceProofs!Mine
  BY DEF Service!Mine, ServiceProofs!Mine, Service!Chain!Mine, ServiceProofs!Chain!Mine,
     Service!store, ServiceProofs!store, Service!locals, ServiceProofs!locals, Service!history,
     ServiceProofs!history
<1>12. Service!Restart => ServiceProofs!Restart
  BY DEF Service!Restart, ServiceProofs!Restart, Service!Chain!Restart,
     ServiceProofs!Chain!Restart, Service!NoMetrics, ServiceProofs!NoMetrics, Service!Proved,
     ServiceProofs!Proved, Service!Cardinality, ServiceProofs!Cardinality, Service!store,
     ServiceProofs!store
<1>13. UNCHANGED Service!vars => UNCHANGED ServiceProofs!vars
  BY DEF Service!vars, ServiceProofs!vars, Service!store, ServiceProofs!store, Service!client,
     ServiceProofs!client, Service!locals, ServiceProofs!locals, Service!history,
     ServiceProofs!history
<1>14. Service!Next => ServiceProofs!Next
  BY <1>1, <1>2, <1>3, <1>4, <1>5, <1>6, <1>7, <1>8, <1>9, <1>10, <1>11, <1>12 DEF
     Service!Next, ServiceProofs!Next, Service!Step, ServiceProofs!Step
<1> QED BY <1>13, <1>14

\* And so are those of the server.
LEMMA SameServerStep == [Server!Next]_(Server!vars) => [ServerProofs!Next]_(ServerProofs!vars)
<1>1. Server!Socket => ServerProofs!Socket
  BY DEF Server!Socket, ServerProofs!Socket, Server!At, ServerProofs!At, Server!outside,
     ServerProofs!outside, Server!broadcast, ServerProofs!broadcast, Server!epoch,
     ServerProofs!epoch, Server!history, ServerProofs!history
<1>2. Server!Listen => ServerProofs!Listen
  BY DEF Server!Listen, ServerProofs!Listen, Server!At, ServerProofs!At, Server!outside,
     ServerProofs!outside, Server!broadcast, ServerProofs!broadcast, Server!epoch,
     ServerProofs!epoch, Server!history, ServerProofs!history
<1>3. Server!StartThrows => ServerProofs!StartThrows
  BY DEF Server!StartThrows, ServerProofs!StartThrows, Server!At, ServerProofs!At,
     Server!Exit, ServerProofs!Exit, Server!Close, ServerProofs!Close, Server!broadcast,
     ServerProofs!broadcast, Server!epoch, ServerProofs!epoch, Server!history,
     ServerProofs!history, Server!Channels, ServerProofs!Channels
<1>4. Server!SetRunning => ServerProofs!SetRunning
  BY DEF Server!SetRunning, ServerProofs!SetRunning, Server!At, ServerProofs!At,
     Server!outside, ServerProofs!outside, Server!broadcast, ServerProofs!broadcast,
     Server!epoch, ServerProofs!epoch, Server!history, ServerProofs!history
<1>5. Server!LoopEnds => ServerProofs!LoopEnds
  BY DEF Server!LoopEnds, ServerProofs!LoopEnds, Server!At, ServerProofs!At, Server!Exit,
     ServerProofs!Exit, Server!Close, ServerProofs!Close, Server!broadcast,
     ServerProofs!broadcast, Server!epoch, ServerProofs!epoch, Server!history,
     ServerProofs!history, Server!Channels, ServerProofs!Channels
<1>6. ASSUME NEW f \in Fds, Server!Accept(f) PROVE ServerProofs!Accept(f)
  BY <1>6 DEF Server!Accept, ServerProofs!Accept, Server!At, ServerProofs!At, Server!FreeFds,
     ServerProofs!FreeFds, Server!broadcast, ServerProofs!broadcast, Server!epoch,
     ServerProofs!epoch, Server!history, ServerProofs!history
<1>7. Server!ReadNothing => ServerProofs!ReadNothing
  BY DEF Server!ReadNothing, ServerProofs!ReadNothing, Server!At, ServerProofs!At,
     Server!Peer, ServerProofs!Peer, Server!CloseCurrent, ServerProofs!CloseCurrent,
     Server!Close, ServerProofs!Close, Server!outside, ServerProofs!outside, Server!broadcast,
     ServerProofs!broadcast, Server!epoch, ServerProofs!epoch, Server!history,
     ServerProofs!history
<1>8. Server!Route => ServerProofs!Route
  BY DEF Server!Route, ServerProofs!Route, Server!At, ServerProofs!At, Server!Peer,
     ServerProofs!Peer, Server!CloseCurrent, ServerProofs!CloseCurrent, Server!Close,
     ServerProofs!Close, Server!Answered, ServerProofs!Answered, Server!outside,
     ServerProofs!outside, Server!broadcast, ServerProofs!broadcast, Server!epoch,
     ServerProofs!epoch
<1>9. Server!RefuseUpgrade => ServerProofs!RefuseUpgrade
  BY DEF Server!RefuseUpgrade, ServerProofs!RefuseUpgrade, Server!At, ServerProofs!At,
     Server!Peer, ServerProofs!Peer, Server!CloseCurrent, ServerProofs!CloseCurrent,
     Server!Close, ServerProofs!Close, Server!outside, ServerProofs!outside, Server!broadcast,
     ServerProofs!broadcast, Server!epoch, ServerProofs!epoch, Server!history,
     ServerProofs!history
<1>10. Server!StorageThrows => ServerProofs!StorageThrows
  BY DEF Server!StorageThrows, ServerProofs!StorageThrows, Server!At, ServerProofs!At,
     Server!Peer, ServerProofs!Peer, Server!UsesStorage, ServerProofs!UsesStorage, Server!Exit,
     ServerProofs!Exit, Server!Close, ServerProofs!Close, Server!broadcast,
     ServerProofs!broadcast, Server!epoch, ServerProofs!epoch, Server!history,
     ServerProofs!history, Server!Channels, ServerProofs!Channels
<1>11. Server!Ingest => ServerProofs!Ingest
  BY DEF Server!Ingest, ServerProofs!Ingest, Server!At, ServerProofs!At, Server!Peer,
     ServerProofs!Peer, Server!Channels, ServerProofs!Channels, Server!outside,
     ServerProofs!outside, Server!epoch, ServerProofs!epoch, Server!history, ServerProofs!history
<1>12. Server!Respond => ServerProofs!Respond
  BY DEF Server!Respond, ServerProofs!Respond, Server!At, ServerProofs!At, Server!Peer,
     ServerProofs!Peer, Server!CloseCurrent, ServerProofs!CloseCurrent, Server!Close,
     ServerProofs!Close, Server!outside, ServerProofs!outside, Server!epoch, ServerProofs!epoch
<1>13. Server!Upgrade => ServerProofs!Upgrade
  BY DEF Server!Upgrade, ServerProofs!Upgrade, Server!At, ServerProofs!At, Server!Peer,
     ServerProofs!Peer, Server!Channels, ServerProofs!Channels, Server!outside,
     ServerProofs!outside, Server!broadcast, ServerProofs!broadcast, Server!epoch,
     ServerProofs!epoch
<1>14. Server!UpgradeFails => ServerProofs!UpgradeFails
  BY DEF Server!UpgradeFails, ServerProofs!UpgradeFails, Server!At, ServerProofs!At,
     Server!Peer, ServerProofs!Peer, Server!Channels, ServerProofs!Channels, Server!CloseCurrent,
     ServerProofs!CloseCurrent, Server!Close, ServerProofs!Close, Server!outside,
     ServerProofs!outside, Server!broadcast, ServerProofs!broadcast, Server!epoch,
     ServerProofs!epoch, Server!history, ServerProofs!history
<1>15. Server!LockToPush => ServerProofs!LockToPush
  BY DEF Server!LockToPush, ServerProofs!LockToPush, Server!At, ServerProofs!At,
     Server!outside, ServerProofs!outside, Server!broadcast, ServerProofs!broadcast,
     Server!epoch, ServerProofs!epoch, Server!history, ServerProofs!history
<1>16. Server!Push => ServerProofs!Push
  BY DEF Server!Push, ServerProofs!Push, Server!At, ServerProofs!At, Server!Peer,
     ServerProofs!Peer, Server!outside, ServerProofs!outside, Server!broadcast,
     ServerProofs!broadcast, Server!epoch, ServerProofs!epoch
<1>17. Server!LockToBroadcast => ServerProofs!LockToBroadcast
  BY DEF Server!LockToBroadcast, ServerProofs!LockToBroadcast, Server!At, ServerProofs!At,
     Server!outside, ServerProofs!outside, Server!epoch, ServerProofs!epoch
<1>18. ASSUME NEW f \in Fds, Server!SendFrame(f) PROVE ServerProofs!SendFrame(f)
  BY <1>18 DEF Server!SendFrame, ServerProofs!SendFrame, Server!At, ServerProofs!At,
     Server!process, ServerProofs!process, Server!outside, ServerProofs!outside, Server!epoch,
     ServerProofs!epoch
<1>19. ASSUME NEW f \in Fds, Server!SendFrameFails(f) PROVE ServerProofs!SendFrameFails(f)
  BY <1>19 DEF Server!SendFrameFails, ServerProofs!SendFrameFails, Server!At, ServerProofs!At,
     Server!Close, ServerProofs!Close, Server!outside, ServerProofs!outside, Server!epoch,
     ServerProofs!epoch, Server!history, ServerProofs!history
<1>20. Server!SwapClients => ServerProofs!SwapClients
  BY DEF Server!SwapClients, ServerProofs!SwapClients, Server!At, ServerProofs!At,
     Server!outside, ServerProofs!outside, Server!epoch, ServerProofs!epoch, Server!history,
     ServerProofs!history
<1>21. Server!HandleSignal => ServerProofs!HandleSignal
  BY DEF Server!HandleSignal, ServerProofs!HandleSignal, Server!Stop, ServerProofs!Stop,
     Server!Holding, ServerProofs!Holding, Server!Exited, ServerProofs!Exited, Server!StartingUp,
     ServerProofs!StartingUp, Server!Close, ServerProofs!Close, Server!Channels,
     ServerProofs!Channels, Server!broadcast, ServerProofs!broadcast, Server!history,
     ServerProofs!history
<1>22. Server!Restart => ServerProofs!Restart
  BY DEF Server!Restart, ServerProofs!Restart, Server!Close, ServerProofs!Close,
     Server!Channels, ServerProofs!Channels, Server!history, ServerProofs!history
<1>23. ASSUME NEW c \in Clients, Server!Connect(c) PROVE ServerProofs!Connect(c)
  BY <1>23 DEF Server!Connect, ServerProofs!Connect, Server!process, ServerProofs!process,
     Server!broadcast, ServerProofs!broadcast, Server!epoch, ServerProofs!epoch, Server!history,
     ServerProofs!history
<1>24. ASSUME NEW c \in Clients, Server!Ask(c) PROVE ServerProofs!Ask(c)
  BY <1>24 DEF Server!Ask, ServerProofs!Ask, Server!Connected, ServerProofs!Connected,
     Server!Queued, ServerProofs!Queued, Server!process, ServerProofs!process, Server!broadcast,
     ServerProofs!broadcast, Server!epoch, ServerProofs!epoch, Server!history,
     ServerProofs!history
<1>25. ASSUME NEW c \in Clients, Server!Leave(c) PROVE ServerProofs!Leave(c)
  BY <1>25 DEF Server!Leave, ServerProofs!Leave, Server!Connected, ServerProofs!Connected,
     Server!Queued, ServerProofs!Queued, Server!process, ServerProofs!process, Server!broadcast,
     ServerProofs!broadcast, Server!epoch, ServerProofs!epoch, Server!history,
     ServerProofs!history
<1>26. UNCHANGED Server!vars => UNCHANGED ServerProofs!vars
  BY DEF Server!vars, ServerProofs!vars, Server!process, ServerProofs!process,
     Server!broadcast, ServerProofs!broadcast, Server!outside, ServerProofs!outside,
     Server!epoch, ServerProofs!epoch, Server!history, ServerProofs!history
<1>27. Server!Next => ServerProofs!Next
  BY <1>1, <1>2, <1>3, <1>4, <1>5, <1>6, <1>7, <1>8, <1>9, <1>10, <1>11, <1>12, <1>13, <1>14,
     <1>15, <1>16, <1>17, <1>18, <1>19, <1>20, <1>21, <1>22, <1>23, <1>24, <1>25 DEF Server!Next,
     ServerProofs!Next, Server!Serve, ServerProofs!Serve
<1> QED BY <1>26, <1>27

Announcing == {"publish", "broadcast", "respond"}
Accepted(r) == r # None /\ r.accepted

\* What the thread has in hand: while Ingest is under way, the packet of the
\* client that it serves, and then the result for that client.
HandInv ==
    /\ posts \in [Clients -> Packets \cup {None}]
    /\ \A c \in Clients : request[c] # None => (request[c] = "ingest" <=> posts[c] # None)
    /\ ~Idle => pc = "read" /\ request[Peer] = "ingest" /\ packet[Thread] = posts[Peer]
    /\ result # None <=> pc \in Announcing
    /\ result # None =>
          /\ result \in answers /\ result.packet = posts[Peer]
          /\ request[Peer] = "ingest"
          /\ event.channel = IF result.accepted THEN "telemetry" ELSE "alerts"

\* Nobody is answered twice, and a reply is what its status line says.
AnswerInv ==
    /\ replies \in [Clients -> answers \cup {None}]
    /\ \A c \in Clients :
          client[c] = "away" \/ Server!Queued(c) => answer[c] = None /\ replies[c] = None
    /\ pc \in {"read"} \cup Announcing => answer[Peer] = None /\ replies[Peer] = None
    /\ \A c \in Clients :
          IF replies[c] = None THEN answer[c] # "202"
          ELSE /\ replies[c].packet = posts[c]
               /\ answer[c] = IF replies[c].accepted THEN "202" ELSE "400"

\* No record is named to two clients, nor is one that was named in hand.
NamedOnce ==
    \A c \in Clients : Accepted(replies[c]) =>
        /\ Accepted(result) => replies[c].recordId # result.recordId
        /\ \A d \in Clients \ {c} :
              Accepted(replies[d]) => replies[c].recordId # replies[d].recordId

\* A client whose attempt ended without a rejection, and the one in hand when
\* its record has its proof: each may have one.
Served(c) == client[c] # "away" /\ ~Server!Connected(c) /\ answer[c] # "400"
Attached(c) ==
    /\ current # None /\ Peer = c
    /\ place[Thread] = "accept" \/ Accepted(result)

Spent(p) ==
    {c \in Clients : posts[c] = p /\ request[c] = "ingest" /\ (Attached(c) \/ Served(c))}
ProvedOf(p) == {id \in Service!Proved : rows[id].packet = p}

\* Of two attempts to send a packet one is over, with no proof to come.
Over(c) == Lost(c) \/ answer[c] = "400"
AttemptInv ==
    /\ \A p \in Packets : Cardinality(ProvedOf(p)) <= Cardinality(Spent(p))
    /\ \A c, d \in Clients :
          c # d /\ posts[c] = posts[d] /\ posts[c] # None
          /\ client[c] # "away" /\ client[d] # "away" => Over(c) \/ Over(d)

GInv == HandInv /\ AnswerInv /\ NamedOnce /\ AttemptInv

(***************************************************************************)
(* What is used of the components' invariants                              *)
(***************************************************************************)

\* The connection in hand is its client's only one, is in no list, and was
\* accepted from a client that had come.
ServerInv ==
    /\ fds \in [Fds -> Clients \cup {None}] /\ current \in Fds \cup {None}
    /\ backlog \in Seq(Clients)
    /\ wsClients \in [{"telemetry", "alerts"} -> SUBSET Fds] /\ todo \subseteq Fds
    /\ client \in [Clients -> {"away", "silent", "asked", "gone"}]
    /\ request \in [Clients -> Requests \cup {None}]
    /\ answer \in [Clients -> {"200", "202", "400", "101", None}]
    /\ event = None \/ event \in [channel : {"telemetry", "alerts"}, from : Clients]
    /\ current # None <=> pc \in {"read", "subscribe", "push"} \cup Announcing
    /\ event # None <=> pc \in Announcing
    /\ current # None =>
          /\ Peer \in Clients /\ ~Server!Queued(Peer)
          /\ \A f \in Fds : fds[f] = Peer => f = current
          /\ pc # "broadcast" => \A ch \in {"telemetry", "alerts"} : current \notin wsClients[ch]
          /\ pc = "broadcast" => current \notin todo
    /\ \A c \in Clients : client[c] = "away" => ~Server!Connected(c)
    /\ \A c \in Clients : request[c] # None => client[c] \in {"asked", "gone"}

\* What the answers and the call in hand say of the records.
ServiceInv ==
    /\ seq \in Nat /\ DOMAIN rows \subseteq 1..seq
    /\ \A id \in DOMAIN rows :
          rows[id] \in [packet : Packets, receipt : Service!Receipts \cup {None}]
    /\ place \in [{Thread} -> {"idle", "save", "submit", "attach", "rollback",
                               "accept", "reject"}]
    /\ packet \in [{Thread} -> Packets \cup {None}]
    /\ recordId \in [{Thread} -> Nat] /\ receipt \in [{Thread} -> Service!Receipts \cup {None}]
    /\ rollbackFailed \in [{Thread} -> BOOLEAN]
    /\ \A a \in answers :
          /\ a \in [accepted : BOOLEAN, packet : Packets, recordId : Nat,
                    receipt : Service!Receipts \cup {None}, rollbackFailed : BOOLEAN]
          /\ IF a.accepted
             THEN /\ a.recordId \in DOMAIN rows
                  /\ rows[a.recordId] = [packet |-> a.packet, receipt |-> a.receipt]
             ELSE a.recordId \notin Service!Proved
          /\ a.recordId = recordId[Thread] => a.recordId = 0
    /\ place[Thread] \in {"submit", "attach", "rollback", "accept"} =>
          /\ recordId[Thread] \in DOMAIN rows
          /\ rows[recordId[Thread]].packet = packet[Thread]
          /\ recordId[Thread] \in Service!Proved <=> place[Thread] = "accept"
    /\ place[Thread] = "attach" => receipt[Thread] # None

\* What is used of the server follows from its own inductive invariant,
LEMMA ServerFacts == ServerProofs!IInv => ServerInv
<1> SUFFICES ASSUME ServerProofs!IInv PROVE ServerInv
    OBVIOUS
<1> USE DEF ServerProofs!IInv
<1>1. /\ fds \in [Fds -> Clients \cup {None}] /\ current \in Fds \cup {None}
      /\ backlog \in Seq(Clients)
      /\ wsClients \in [{"telemetry", "alerts"} -> SUBSET Fds] /\ todo \subseteq Fds
      /\ client \in [Clients -> {"away", "silent", "asked", "gone"}]
      /\ request \in [Clients -> Requests \cup {None}]
      /\ answer \in [Clients -> {"200", "202", "400", "101", None}]
      /\ event = None \/ event \in [channel : {"telemetry", "alerts"}, from : Clients]
      BY DEF ServerProofs!TypeOK, ServerProofs!Channels, ServerProofs!Statuses
<1>2. /\ current # None <=> pc \in {"read", "subscribe", "push"} \cup Announcing
      /\ event # None <=> pc \in Announcing
      /\ \A c \in Clients : request[c] # None => client[c] \in {"asked", "gone"}
      BY DEF ServerProofs!CallInv, ServerProofs!Serving, ServerProofs!Announcing, Announcing
<1>3. \A c \in Clients : client[c] = "away" => ~Server!Connected(c)
      BY DEF ServerProofs!ConnInv, ServerProofs!Connected, ServerProofs!Queued,
         Server!Connected, Server!Queued
<1>4. ASSUME current # None
      PROVE  /\ Peer \in Clients /\ ~Server!Queued(Peer)
             /\ \A f \in Fds : fds[f] = Peer => f = current
             /\ pc # "broadcast" => \A ch \in {"telemetry", "alerts"} : current \notin wsClients[ch]
             /\ pc = "broadcast" => current \notin todo
  <2>1. /\ current \in Fds /\ fds[current] # None
        /\ current \notin ServerProofs!Listed("telemetry") \cup ServerProofs!Listed("alerts")
        BY <1>1, <1>4 DEF ServerProofs!OwnedOnce, ServerProofs!Loop, ServerProofs!FreeFds
  <2>2. /\ pc # "broadcast" => \A ch \in {"telemetry", "alerts"} : current \notin wsClients[ch]
        /\ pc = "broadcast" => current \notin todo
        BY <1>1, <1>2, <2>1 DEF ServerProofs!Listed, Announcing
  <2>3. /\ \A f \in Fds : fds[f] = fds[current] => f = current
        /\ \A i \in DOMAIN backlog : fds[current] # backlog[i]
        BY <2>1 DEF ServerProofs!ConnInv
  <2> QED BY <1>1, <2>1, <2>2, <2>3 DEF Peer, Server!Peer, Server!Queued
<1> QED BY <1>1, <1>2, <1>3, <1>4 DEF ServerInv

\* and what is used of the service from that of the service.
LEMMA ServiceFacts == ServiceProofs!IInv => ServiceInv
<1> SUFFICES ASSUME ServiceProofs!IInv PROVE ServiceInv
    OBVIOUS
<1> USE DEF ServiceProofs!IInv
<1>1. /\ seq \in Nat /\ DOMAIN rows \subseteq 1..seq
      /\ \A id \in DOMAIN rows :
            rows[id] \in [packet : Packets, receipt : Service!Receipts \cup {None}]
      /\ place \in [{Thread} -> {"idle", "save", "submit", "attach", "rollback",
                                 "accept", "reject"}]
      /\ packet \in [{Thread} -> Packets \cup {None}]
      /\ recordId \in [{Thread} -> Nat] /\ receipt \in [{Thread} -> Service!Receipts \cup {None}]
      /\ rollbackFailed \in [{Thread} -> BOOLEAN]
      /\ \A a \in answers :
            a \in [accepted : BOOLEAN, packet : Packets, recordId : Nat,
                   receipt : Service!Receipts \cup {None}, rollbackFailed : BOOLEAN]
      BY DEF ServiceProofs!TypeOK, ServiceProofs!Labels, ServiceProofs!Repo!TypeOK, ServiceProofs!Receipts,
         Service!Receipts, ServiceProofs!Hashes, Service!Hashes
<1>2. ServiceProofs!Proved = Service!Proved
      BY DEF ServiceProofs!Proved, Service!Proved
<1>3. \A a \in answers :
         IF a.accepted
         THEN /\ a.recordId \in DOMAIN rows
              /\ rows[a.recordId] = [packet |-> a.packet, receipt |-> a.receipt]
         ELSE a.recordId \notin Service!Proved
      BY <1>2 DEF ServiceProofs!AcceptedIsStored, ServiceProofs!RejectedIsWithdrawn
<1>4. \A a \in answers : a.recordId = recordId[Thread] => a.recordId = 0
      BY DEF ServiceProofs!IdsApart
<1>5. /\ place[Thread] \in {"submit", "attach", "rollback", "accept"} =>
            /\ recordId[Thread] \in DOMAIN rows
            /\ rows[recordId[Thread]].packet = packet[Thread]
            /\ recordId[Thread] \in Service!Proved <=> place[Thread] = "accept"
      /\ place[Thread] = "attach" => receipt[Thread] # None
  <2>1. ServiceProofs!CallInv(Thread) /\ None \notin ServiceProofs!Receipts
        BY ServiceAssumption DEF ServiceProofs!Receipts, Service!Receipts, ServiceProofs!Hashes,
           Service!Hashes
  <2> QED BY <2>1 DEF ServiceProofs!CallInv, ServiceProofs!Holds, Service!Proved
<1> QED BY <1>1, <1>3, <1>4, <1>5 DEF ServiceInv

(***************************************************************************)
(* What the steps do to the state that these properties speak of           *)
(***************************************************************************)

\* Connections are only given up, and an announcement goes on undisturbed.
Keeping ==
    /\ \A c \in Clients : Server!Queued(c)' => Server!Queued(c)
    /\ \A c \in Clients : Server!Connected(c)' => Server!Connected(c)
    /\ pc \in Announcing => current' = current /\ Peer' = Peer

\* A step that only closes connections, and none that an event waits for, connects nobody.
LEMMA Shrinks ==
  ASSUME ServerInv, backlog' \in {backlog, <<>>},
         \A f \in Fds : fds'[f] \in {fds[f], None},
         pc \in Announcing => current' = current /\ fds'[current] = fds[current]
  PROVE  Keeping
<1>1. ASSUME NEW c \in Clients, Server!Queued(c)' PROVE Server!Queued(c)
      BY <1>1 DEF Server!Queued
<1>2. ASSUME NEW c \in Clients, NEW f \in Fds, fds'[f] = c PROVE fds[f] = c
      BY <1>2, ServerAssumption
<1>3. ASSUME NEW c \in Clients, Server!Connected(c)' PROVE Server!Connected(c)
      BY <1>1, <1>2, <1>3 DEF Server!Connected
<1> QED BY <1>1, <1>3 DEF Keeping, Peer, Server!Peer

\* What the thread does outside of Ingest, but for the answer to a packet.
Serving == Serve \/ Push \/ \E f \in Fds : SendFrame(f)

\* There it answers only the client that it has read, and none but an accepted
\* connection is read next.
LEMMA ServeDoes ==
  ASSUME ServerInv, Serving
  PROVE  /\ UNCHANGED <<client, request, event>>
         /\ Keeping
         /\ pc \in Announcing <=> pc' \in Announcing
         /\ pc' = "read" => pc = "loop" /\ Server!Queued(Peer') /\ Peer' \in Clients
         /\ pc' \in {"read"} \cup Announcing => answer' = answer
         /\ \A c \in Clients : answer'[c] # answer[c] =>
               /\ pc = "read" /\ c = Peer /\ request[c] # "ingest"
               /\ answer'[c] \in {"200", "400", "101"}
<1> USE DEF ServerInv, Announcing, Peer, Server!Peer, Server!At, Server!Queued,
        Server!Connected, Server!outside, Server!broadcast, Server!epoch, Server!history,
        Server!process
<1>1. CASE Server!Socket \/ Server!Listen \/ Server!SetRunning \/ Server!LockToPush
      BY <1>1 DEF Server!Socket, Server!Listen, Server!SetRunning, Server!LockToPush, Keeping
<1>2. CASE Server!StartThrows \/ Server!LoopEnds
  <2>1. /\ pc \in {"start", "bind", "loop"} /\ pc' \in {"failed", "ended"}
        /\ UNCHANGED <<client, request, event, answer>>
        /\ backlog' = <<>> /\ \A f \in Fds : fds'[f] = None
        BY <1>2 DEF Server!StartThrows, Server!LoopEnds, Server!Exit, Server!Close
  <2> QED BY <2>1, Shrinks
<1>3. CASE Server!StorageThrows /\ request[Peer] = "query"
  <2>1. /\ pc = "read" /\ pc' = "failed"
        /\ UNCHANGED <<client, request, event, answer>>
        /\ backlog' = <<>> /\ \A f \in Fds : fds'[f] = None
        BY <1>3 DEF Server!StorageThrows, Server!Exit, Server!Close
  <2> QED BY <2>1, Shrinks
<1>4. CASE Server!ReadNothing \/ Server!RefuseUpgrade \/ Server!UpgradeFails
  <2>1. /\ pc = "read" /\ pc' = "loop" /\ backlog' = backlog
        /\ UNCHANGED <<client, request, event, answer>>
        /\ \A f \in Fds : fds'[f] \in {fds[f], None}
        BY <1>4 DEF Server!ReadNothing, Server!RefuseUpgrade, Server!UpgradeFails,
           Server!CloseCurrent, Server!Close
  <2> QED BY <2>1, Shrinks
<1>5. CASE Server!Route
  <2>1. /\ pc = "read" /\ pc' = "loop" /\ backlog' = backlog
        /\ UNCHANGED <<client, request, event>>
        /\ \A f \in Fds : fds'[f] \in {fds[f], None}
        BY <1>5 DEF Server!Route, Server!CloseCurrent, Server!Close
  <2>2. /\ request[Peer] # "ingest" /\ Peer \in Clients
        /\ \E s \in {"200", "400"} : answer' = [answer EXCEPT ![Peer] = s]
        BY <1>5 DEF Server!Route, Server!Answered
  <2> QED BY <2>1, <2>2, Shrinks
<1>6. CASE Server!Upgrade
      BY <1>6 DEF Server!Upgrade, Server!Channels, Keeping
<1>7. CASE Server!Push
      BY <1>7 DEF Server!Push, Keeping
<1>8. CASE Server!LockToBroadcast \/ Server!SwapClients
      BY <1>8 DEF Server!LockToBroadcast, Server!SwapClients, Keeping
<1>9. ASSUME NEW f \in Fds, Server!SendFrame(f) \/ Server!SendFrameFails(f)
      PROVE  /\ UNCHANGED <<client, request, event, answer>> /\ Keeping
             /\ pc = "broadcast" /\ pc' = "broadcast"
  <2>1. /\ UNCHANGED <<client, request, event, answer>>
        /\ pc = "broadcast" /\ pc' = "broadcast" /\ UNCHANGED <<current, backlog>>
        /\ f \in todo /\ current \in Fds /\ current \notin todo
        BY <1>9 DEF Server!SendFrame, Server!SendFrameFails
  <2>2. \A g \in Fds : fds'[g] \in {fds[g], None} /\ (g # f => fds'[g] = fds[g])
        BY <1>9 DEF Server!SendFrame, Server!SendFrameFails, Server!Close
  <2> QED BY <2>1, <2>2, Shrinks
<1>10. ASSUME NEW f \in Fds, Server!Accept(f)
       PROVE  /\ UNCHANGED <<client, request, event, answer>> /\ Keeping
              /\ pc = "loop" /\ pc' = "read" /\ Server!Queued(Peer')
  <2>1. /\ fds[f] = None /\ fds' = [fds EXCEPT ![f] = Head(backlog)] /\ current' = f
        /\ pc = "loop" /\ pc' = "read"
        /\ UNCHANGED <<client, request, event, answer>>
        BY <1>10 DEF Server!Accept, Server!FreeFds
  <2>2. /\ Head(backlog) = backlog[1] /\ 1 \in DOMAIN backlog
        /\ \A i \in DOMAIN backlog' : i + 1 \in DOMAIN backlog /\ backlog'[i] = backlog[i + 1]
        BY <1>10 DEF Server!Accept
  <2>3. Peer' = Head(backlog) /\ Server!Queued(Peer')
        BY <2>1, <2>2
  <2>4. Keeping
        BY <2>1, <2>2 DEF Keeping
  <2> QED BY <2>1, <2>3, <2>4
<1> QED
  BY <1>1, <1>2, <1>3, <1>4, <1>5, <1>6, <1>7, <1>8, <1>9, <1>10 DEF Serving, Serve, Push, SendFrame

\* A step within Ingest proves the record of the call or none.
LEMMA InIngestDoes ==
  ASSUME ServiceInv, InIngest
  PROVE  /\ ~Idle /\ ~Idle' /\ UNCHANGED <<answers, packet>> /\ seq <= seq'
         /\ place[Thread] # "accept"
         /\ IF place'[Thread] = "accept"
            THEN /\ Service!Proved' = Service!Proved \cup {recordId[Thread]}
                 /\ recordId' = recordId /\ recordId[Thread] \notin Service!Proved
                 /\ recordId[Thread] \in DOMAIN rows'
                 /\ rows'[recordId[Thread]].packet = packet[Thread]
            ELSE Service!Proved' = Service!Proved
         /\ \A id \in Service!Proved : rows'[id] = rows[id]
<1> USE DEF ServiceInv, Idle, Service!From, service
<1>1. CASE Service!Save(Thread)
  <2>1. /\ place[Thread] = "save" /\ place' = [place EXCEPT ![Thread] = "submit"]
        /\ seq' = seq + 1 /\ DOMAIN rows' = DOMAIN rows \cup {seq'} /\ seq' \notin DOMAIN rows
        /\ rows'[seq'] = [packet |-> packet[Thread], receipt |-> None]
        /\ \A id \in DOMAIN rows : rows'[id] = rows[id]
        /\ UNCHANGED <<answers, packet>>
        BY <1>1 DEF Service!Save, Service!Repo!Save, Service!history
  <2> QED BY <2>1 DEF Service!Proved
<1>2. CASE \/ Service!NodeTakesTx(Thread) \/ Service!SubmitHash(Thread)
           \/ Service!SubmitHashThrows(Thread) \/ Service!AttachReceiptFails(Thread)
      BY <1>2 DEF Service!NodeTakesTx, Service!SubmitHash, Service!SubmitHashThrows,
         Service!AttachReceiptFails, Service!Repo!AttachReceiptFails, Service!Repo!SqlFault,
         Service!Repo!repository, Service!store, Service!locals, Service!history, Service!Proved
<1>3. CASE Service!AttachReceipt(Thread)
  <2> DEFINE id == recordId[Thread]
  <2>1. /\ place[Thread] = "attach" /\ place' = [place EXCEPT ![Thread] = "accept"]
        /\ rows' = [rows EXCEPT ![id].receipt = receipt[Thread]] /\ receipt[Thread] # None
        /\ id \in DOMAIN rows /\ id \notin Service!Proved
        /\ rows[id].packet = packet[Thread]
        /\ UNCHANGED <<seq, answers, packet, recordId>>
        BY <1>3 DEF Service!AttachReceipt, Service!Repo!AttachReceipt, Service!locals, Service!history
  <2>2. /\ DOMAIN rows' = DOMAIN rows /\ \A i \in DOMAIN rows : rows'[i].packet = rows[i].packet
        /\ rows'[id].receipt # None /\ \A i \in DOMAIN rows \ {id} : rows'[i] = rows[i]
        BY <2>1
  <2>3. Service!Proved' = Service!Proved \cup {id}
        BY <2>1, <2>2 DEF Service!Proved
  <2>4. \A i \in Service!Proved : rows'[i] = rows[i]
        BY <2>1, <2>2 DEF Service!Proved
  <2> QED BY <2>1, <2>2, <2>3, <2>4
<1>4. CASE Service!Rollback(Thread)
  <2>1. /\ place[Thread] = "rollback" /\ place' = [place EXCEPT ![Thread] = "reject"]
        /\ recordId[Thread] \notin Service!Proved
        /\ UNCHANGED <<seq, answers, packet>>
        BY <1>4 DEF Service!Rollback, Service!Repo!Delete, Service!Repo!DeleteFails,
           Service!Repo!SqlFault, Service!Repo!repository, Service!history
  <2> QED BY <1>4, <2>1 DEF Service!Rollback, Service!Repo!Delete, Service!Repo!DeleteFails,
             Service!Repo!SqlFault, Service!Repo!repository, Service!Proved
<1> QED BY <1>1, <1>2, <1>3, <1>4 DEF InIngest

\* What every step but Connect leaves to the clients: nobody comes, a request
\* that was made stays, only the client in hand is answered, and the next one
\* in hand comes from the backlog.
Steady ==
    /\ posts' = posts
    /\ \A c \in Clients :
          /\ client'[c] = "away" <=> client[c] = "away"
          /\ client[c] = "gone" => client'[c] = "gone"
          /\ request[c] # None => request'[c] = request[c]
          /\ Server!Queued(c)' => Server!Queued(c)
          /\ Server!Connected(c)' => Server!Connected(c)
          /\ answer'[c] # answer[c] => pc \in {"read", "respond"} /\ c = Peer
    /\ pc' \in {"read"} \cup Announcing =>
          /\ answer' = answer
          /\ \/ Peer' \in Clients /\ Server!Queued(Peer')
             \/ pc \in {"read"} \cup Announcing /\ Peer' = Peer

\* The client in hand is connected and has no answer.
LEMMA InHand ==
  ASSUME ServerInv, AnswerInv, pc \in {"read"} \cup Announcing
  PROVE  /\ Peer \in Clients /\ Server!Connected(Peer) /\ ~Server!Queued(Peer)
         /\ client[Peer] # "away" /\ answer[Peer] = None /\ replies[Peer] = None
<1>1. current # None /\ current \in Fds /\ Peer \in Clients /\ ~Server!Queued(Peer)
      BY DEF ServerInv
<1>2. Server!Connected(Peer)
      BY <1>1 DEF Server!Connected, Peer, Server!Peer
<1> QED BY <1>1, <1>2 DEF ServerInv, AnswerInv

\* No literal of a request or of a status is None.
LEMMA NamesAreSome == "ingest" # None /\ \A s \in {"202", "400"} : s # None
  BY ServerAssumption DEF Server!Kinds, Server!Statuses

\* A step that answers nobody with 202 keeps what devices were told.
LEMMA SteadyAnswers ==
  ASSUME ServerInv, AnswerInv, Steady, replies' = replies, answers \subseteq answers',
         \A c \in Clients : answer'[c] # answer[c] => answer'[c] # "202"
  PROVE  AnswerInv'
<1>1. ASSUME NEW c \in Clients, answer'[c] # answer[c]
      PROVE  ~Server!Queued(c) /\ client[c] # "away" /\ replies[c] = None
      BY <1>1, InHand DEF Steady, Announcing
<1>2. replies' \in [Clients -> answers' \cup {None}]
      BY DEF AnswerInv
<1>3. ASSUME NEW c \in Clients, client'[c] = "away" \/ Server!Queued(c)'
      PROVE  answer'[c] = None /\ replies'[c] = None
      BY <1>1, <1>3 DEF Steady, AnswerInv
<1>4. ASSUME pc' \in {"read"} \cup Announcing
      PROVE  answer'[Peer'] = None /\ replies'[Peer'] = None
  <2>1. CASE Peer' \in Clients /\ Server!Queued(Peer')
        BY <1>4, <2>1 DEF Steady, AnswerInv
  <2>2. CASE pc \in {"read"} \cup Announcing /\ Peer' = Peer
        BY <1>4, <2>2 DEF Steady, AnswerInv
  <2> QED BY <1>4, <2>1, <2>2 DEF Steady
<1>5. ASSUME NEW c \in Clients
      PROVE  IF replies'[c] = None THEN answer'[c] # "202"
             ELSE /\ replies'[c].packet = posts'[c]
                  /\ answer'[c] = IF replies'[c].accepted THEN "202" ELSE "400"
      BY <1>1 DEF Steady, AnswerInv
<1> QED BY <1>2, <1>3, <1>4, <1>5 DEF AnswerInv, Announcing

\* What was spent on a packet stays spent, and an attempt that is over stays so.
LEMMA SteadySpent ==
  ASSUME ServerInv, AnswerInv, Steady,
         \A c \in Clients : Attached(c) => Attached(c)' \/ Served(c)'
  PROVE  /\ \A p \in Packets : Spent(p) \subseteq Spent(p)'
         /\ \A c \in Clients : Over(c) => Over(c)'
<1>1. ASSUME NEW c \in Clients, answer'[c] # answer[c]
      PROVE  Server!Connected(c) /\ answer[c] = None
      BY <1>1, InHand DEF Steady, Announcing
<1>2. ASSUME NEW c \in Clients, Served(c) PROVE Served(c)'
      BY <1>1, <1>2 DEF Served, Steady
<1>3. ASSUME NEW c \in Clients, Over(c) PROVE Over(c)'
      BY <1>1, <1>3, NamesAreSome DEF Over, Lost, Steady
<1>4. ASSUME NEW p \in Packets, NEW c \in Clients, c \in Spent(p) PROVE c \in Spent(p)'
  <2>1. posts'[c] = p /\ request'[c] = "ingest"
        BY <1>4, NamesAreSome DEF Spent, Steady
  <2> QED BY <1>2, <1>4, <2>1 DEF Spent
<1> QED BY <1>3, <1>4 DEF Spent

\* The proved records of a packet can be counted.
LEMMA ProvedIsFinite ==
  ASSUME ServiceInv
  PROVE  IsFiniteSet(DOMAIN rows) /\ \A p : IsFiniteSet(ProvedOf(p))
<1>1. IsFiniteSet(1..seq)
      BY FS_Interval DEF ServiceInv
<1>2. IsFiniteSet(DOMAIN rows)
      BY <1>1, FS_Subset DEF ServiceInv
<1>3. \A p : ProvedOf(p) \subseteq DOMAIN rows
      BY DEF ProvedOf, Service!Proved
<1> QED BY <1>2, <1>3, FS_Subset

\* A step that proves no record keeps them below the attempts spent.
LEMMA SteadyAttempts ==
  ASSUME ServerInv, ServiceInv, AnswerInv, AttemptInv, Steady,
         \A c \in Clients : Attached(c) => Attached(c)' \/ Served(c)',
         \A p \in Packets : ProvedOf(p)' = ProvedOf(p)
  PROVE  AttemptInv'
<1>1. ASSUME NEW p \in Packets PROVE Cardinality(ProvedOf(p)') <= Cardinality(Spent(p)')
  <2>1. IsFiniteSet(Spent(p)')
        BY ClientsAssumption, FS_Subset DEF Spent
  <2>2. IsFiniteSet(Spent(p)) /\ Cardinality(Spent(p)) <= Cardinality(Spent(p)')
        BY <2>1, SteadySpent, FS_Subset
  <2>3. /\ Cardinality(Spent(p)) \in Nat /\ Cardinality(Spent(p)') \in Nat
        /\ Cardinality(ProvedOf(p)) \in Nat
        BY <2>1, <2>2, ProvedIsFinite, FS_CardinalityType
  <2>4. Cardinality(ProvedOf(p)) <= Cardinality(Spent(p))
        BY DEF AttemptInv
  <2> QED BY <2>2, <2>3, <2>4
<1>2. ASSUME NEW c \in Clients, NEW d \in Clients, c # d, posts'[c] = posts'[d],
             posts'[c] # None, client'[c] # "away", client'[d] # "away"
      PROVE  Over(c)' \/ Over(d)'
      BY <1>2, SteadySpent DEF AttemptInv, Steady
<1> QED BY <1>1, <1>2 DEF AttemptInv

(***************************************************************************)
(* GInv is inductive: the steps of the thread                              *)
(***************************************************************************)
Known == ServerInv /\ ServiceInv /\ GInv

\* A step of the server alone keeps GInv.
LEMMA ServeKeeps ==
  ASSUME Known, Serving
  PROVE  GInv'
<1>1. ServerInv /\ ServiceInv /\ HandInv /\ AnswerInv /\ NamedOnce /\ AttemptInv
      BY DEF Known, GInv
<1>2. /\ Idle /\ UNCHANGED <<rows, place, packet, recordId, answers>>
      /\ UNCHANGED <<posts, result, replies>>
      BY <1>1 DEF Serving, Serve, Push, SendFrame, Server!Push, Server!SendFrame, Server!At,
         HandInv, service, route
<1>3. /\ UNCHANGED <<client, request, event>> /\ Keeping
      /\ pc \in Announcing <=> pc' \in Announcing
      /\ pc' = "read" => pc = "loop" /\ Server!Queued(Peer') /\ Peer' \in Clients
      /\ pc' \in {"read"} \cup Announcing => answer' = answer
      /\ \A c \in Clients : answer'[c] # answer[c] =>
            pc = "read" /\ c = Peer /\ answer'[c] \in {"200", "400", "101"}
      BY <1>1, ServeDoes
<1>4. Steady
      BY <1>2, <1>3 DEF Steady, Keeping
<1>5. HandInv'
      BY <1>1, <1>2, <1>3 DEF HandInv, Idle, Keeping
<1>6. AnswerInv'
      BY <1>1, <1>2, <1>3, <1>4, SteadyAnswers
<1>7. NamedOnce'
      BY <1>1, <1>2 DEF NamedOnce, Accepted
<1>8. AttemptInv'
  <2>1. ASSUME NEW c \in Clients, Attached(c) PROVE Attached(c)'
        BY <1>1, <1>2, <1>3, <2>1 DEF Attached, Accepted, HandInv, Keeping, Idle, ServerInv
  <2>2. \A p \in Packets : ProvedOf(p)' = ProvedOf(p)
        BY <1>2 DEF ProvedOf, Service!Proved
  <2> QED BY <1>1, <1>4, <2>1, <2>2, SteadyAttempts
<1> QED BY <1>5, <1>6, <1>7, <1>8 DEF GInv

\* A step that leaves the server and the clients alone is steady.
LEMMA ServerRests ==
  ASSUME UNCHANGED server, UNCHANGED route
  PROVE  /\ Steady /\ Peer' = Peer
         /\ \A c \in Clients : (Server!Connected(c)' <=> Server!Connected(c)) /\ answer'[c] = answer[c]
         /\ UNCHANGED <<pc, fds, current, event, client, request, answer>>
         /\ UNCHANGED <<posts, result, replies>>
<1>1. /\ UNCHANGED <<pc, fds, current, event, backlog, client, request, answer>>
      /\ UNCHANGED <<posts, result, replies>>
      BY DEF server, route
<1>2. /\ Peer' = Peer
      /\ \A c \in Clients : /\ Server!Queued(c)' <=> Server!Queued(c)
                            /\ Server!Connected(c)' <=> Server!Connected(c)
      BY <1>1 DEF Peer, Server!Peer, Server!Queued, Server!Connected
<1>3. Steady
      BY <1>1, <1>2 DEF Steady
<1> QED BY <1>1, <1>2, <1>3

\* The call of Ingest puts a packet of the current client in hand.
LEMMA IngestCalledKeeps ==
  ASSUME Known, IngestCalled
  PROVE  GInv'
<1>1. ServerInv /\ ServiceInv /\ HandInv /\ AnswerInv /\ NamedOnce /\ AttemptInv
      BY DEF Known, GInv
<1>2. /\ pc = "read" /\ request[Peer] = "ingest" /\ posts[Peer] \in Packets
      /\ place[Thread] = "idle" /\ place'[Thread] \in {"save", "reject"}
      /\ packet'[Thread] = posts[Peer] /\ UNCHANGED <<rows, answers, recordId>>
      BY <1>1 DEF IngestCalled, Service!Ingest, Service!From, Service!store, Server!At, ServiceInv
<1>3. /\ Steady /\ Peer' = Peer
      /\ \A c \in Clients : (Server!Connected(c)' <=> Server!Connected(c)) /\ answer'[c] = answer[c]
      /\ UNCHANGED <<pc, fds, current, event, client, request, answer>>
      /\ UNCHANGED <<posts, result, replies>>
      BY ServerRests DEF IngestCalled
<1>4. HandInv'
      BY <1>1, <1>2, <1>3 DEF HandInv, Idle
<1>5. AnswerInv'
      BY <1>1, <1>2, <1>3, SteadyAnswers
<1>6. NamedOnce'
      BY <1>1, <1>3 DEF NamedOnce, Accepted
<1>7. AttemptInv'
  <2>1. ASSUME NEW c \in Clients, Attached(c) PROVE Attached(c)'
        BY <1>2, <1>3, <2>1 DEF Attached, Accepted
  <2>2. \A p \in Packets : ProvedOf(p)' = ProvedOf(p)
        BY <1>2 DEF ProvedOf, Service!Proved
  <2> QED BY <1>1, <1>3, <2>1, <2>2, SteadyAttempts
<1> QED BY <1>4, <1>5, <1>6, <1>7 DEF GInv

\* AttachReceipt spends the attempt in hand on the record that it proves.
LEMMA InIngestKeeps ==
  ASSUME Known, InIngest
  PROVE  GInv'
<1>1. ServerInv /\ ServiceInv /\ HandInv /\ AnswerInv /\ NamedOnce /\ AttemptInv
      BY DEF Known, GInv
<1>2. /\ ~Idle /\ ~Idle' /\ UNCHANGED <<answers, packet>> /\ place[Thread] # "accept"
      /\ IF place'[Thread] = "accept"
         THEN /\ Service!Proved' = Service!Proved \cup {recordId[Thread]}
              /\ recordId' = recordId /\ recordId[Thread] \notin Service!Proved
              /\ recordId[Thread] \in DOMAIN rows'
              /\ rows'[recordId[Thread]].packet = packet[Thread]
         ELSE Service!Proved' = Service!Proved
      /\ \A id \in Service!Proved : rows'[id] = rows[id]
      BY <1>1, InIngestDoes
<1>3. /\ Steady /\ Peer' = Peer
      /\ \A c \in Clients : (Server!Connected(c)' <=> Server!Connected(c)) /\ answer'[c] = answer[c]
      /\ UNCHANGED <<pc, fds, current, event, client, request, answer>>
      /\ UNCHANGED <<posts, result, replies>>
      BY ServerRests DEF InIngest
<1>4. /\ pc = "read" /\ request[Peer] = "ingest" /\ packet[Thread] = posts[Peer]
      /\ result = None
      BY <1>1, <1>2 DEF HandInv, Announcing
<1>5. HandInv'
      BY <1>1, <1>2, <1>3 DEF HandInv
<1>6. AnswerInv'
      BY <1>1, <1>2, <1>3, SteadyAnswers
<1>7. NamedOnce'
      BY <1>1, <1>3 DEF NamedOnce, Accepted
<1>8. ASSUME NEW c \in Clients PROVE ~Attached(c)
      BY <1>2, <1>4 DEF Attached, Accepted
<1>9. CASE place'[Thread] # "accept"
  <2>1. \A p \in Packets : ProvedOf(p)' = ProvedOf(p)
        BY <1>2, <1>9 DEF ProvedOf
  <2>2. AttemptInv'
        BY <1>1, <1>3, <1>8, <2>1, SteadyAttempts
  <2> QED BY <1>5, <1>6, <1>7, <2>2 DEF GInv
<1>10. CASE place'[Thread] = "accept"
  <2>1. ASSUME NEW p \in Packets
        PROVE  Cardinality(ProvedOf(p)') <= Cardinality(Spent(p)')
    <3>1. /\ IsFiniteSet(Spent(p)) /\ IsFiniteSet(Spent(p)') /\ IsFiniteSet(ProvedOf(p))
          /\ Spent(p) \subseteq Spent(p)'
          BY <1>1, <1>3, <1>8, ClientsAssumption, FS_Subset, ProvedIsFinite, SteadySpent DEF Spent
    <3>2. Cardinality(ProvedOf(p)) <= Cardinality(Spent(p))
          BY <1>1 DEF AttemptInv
    <3>3. CASE packet[Thread] # p
      <4>1. ProvedOf(p)' = ProvedOf(p)
            BY <1>2, <1>10, <3>3 DEF ProvedOf
      <4>2. Cardinality(Spent(p)) <= Cardinality(Spent(p)')
            BY <3>1, FS_Subset
      <4> QED BY <3>1, <3>2, <4>1, <4>2, FS_CardinalityType
    <3>4. CASE packet[Thread] = p
      <4>1. ProvedOf(p)' = ProvedOf(p) \cup {recordId[Thread]} /\ recordId[Thread] \notin ProvedOf(p)
            BY <1>2, <1>10, <3>4 DEF ProvedOf
      <4>2. Peer \in Clients /\ Peer \notin Spent(p)
            BY <1>1, <1>4, <1>8, InHand DEF Spent, Served
      <4>3. Peer \in Spent(p)'
            BY <1>1, <1>3, <1>4, <1>10, <3>4, <4>2 DEF Spent, Attached, ServerInv
      <4>4. Cardinality(Spent(p) \cup {Peer}) = Cardinality(Spent(p)) + 1
            BY <3>1, <4>2, FS_AddElement
      <4>5. Cardinality(Spent(p) \cup {Peer}) <= Cardinality(Spent(p)')
            BY <3>1, <4>3, FS_Subset
      <4>6. Cardinality(ProvedOf(p)') = Cardinality(ProvedOf(p)) + 1
            BY <3>1, <4>1, FS_AddElement
      <4> QED BY <3>1, <3>2, <4>4, <4>5, <4>6, FS_CardinalityType
    <3> QED BY <3>3, <3>4
  <2>2. ASSUME NEW c \in Clients, NEW d \in Clients, c # d, posts'[c] = posts'[d],
               posts'[c] # None, client'[c] # "away", client'[d] # "away"
        PROVE  Over(c)' \/ Over(d)'
        BY <1>1, <1>3, <1>8, <2>2, SteadySpent DEF AttemptInv
  <2>3. AttemptInv'
        BY <2>1, <2>2 DEF AttemptInv
  <2> QED BY <1>5, <1>6, <1>7, <2>3 DEF GInv
<1> QED BY <1>9, <1>10

\* The record of the answer is named by no earlier one.
LEMMA IngestReturnsKeeps ==
  ASSUME Known, IngestReturns
  PROVE  GInv'
<1>1. ServerInv /\ ServiceInv /\ HandInv /\ AnswerInv /\ NamedOnce /\ AttemptInv
      BY DEF Known, GInv
<1>2. /\ place[Thread] \in {"accept", "reject"} /\ Idle'
      /\ result' = [accepted |-> place[Thread] = "accept", packet |-> packet[Thread],
                    recordId |-> recordId[Thread], receipt |-> receipt[Thread],
                    rollbackFailed |-> rollbackFailed[Thread]]
      /\ answers' = answers \cup {result'} /\ UNCHANGED rows
      BY <1>1 DEF IngestReturns, Service!FinishWith, Service!From, Service!IngestResult,
         Service!store, Idle, ServiceInv
<1>3. /\ pc = "read" /\ pc' = "publish"
      /\ event'.channel = IF result'.accepted THEN "telemetry" ELSE "alerts"
      /\ UNCHANGED <<fds, current, backlog, client, request, answer>>
      /\ UNCHANGED <<posts, replies>>
      BY DEF IngestReturns, Server!Ingest, Server!At, Server!outside, Server!epoch,
         Server!history
<1>4. /\ result = None /\ request[Peer] = "ingest" /\ packet[Thread] = posts[Peer]
      /\ result'.accepted <=> place[Thread] = "accept"
      /\ result'.packet = posts[Peer] /\ result'.recordId = recordId[Thread]
      /\ result' # None
  <2>1. /\ result = None /\ request[Peer] = "ingest" /\ packet[Thread] = posts[Peer]
        /\ ~Idle
        BY <1>1, <1>2, <1>3 DEF HandInv, Idle, Announcing
  <2>2. Peer \in Clients
        BY <1>1, <1>3, InHand
  <2>3. posts[Peer] # None /\ posts[Peer] \in Packets \cup {None}
        BY <1>1, <2>1, <2>2, NamesAreSome DEF HandInv
  <2>4. result' # None
    <3>1. /\ packet[Thread] \in Packets /\ recordId[Thread] \in Nat
          /\ receipt[Thread] \in Service!Receipts \cup {None} /\ rollbackFailed[Thread] \in BOOLEAN
          BY <1>1, <2>1, <2>3 DEF ServiceInv
    <3>2. result' \in [accepted : BOOLEAN, packet : Packets, recordId : Nat,
                       receipt : Service!Receipts \cup {None}, rollbackFailed : BOOLEAN]
          BY <1>2, <3>1
    <3> QED BY <3>2, ResultAssumption
  <2> QED BY <1>2, <2>1, <2>4
<1>5. /\ Peer' = Peer
      /\ \A c \in Clients : /\ Server!Queued(c)' <=> Server!Queued(c)
                            /\ Server!Connected(c)' <=> Server!Connected(c)
      BY <1>3 DEF Peer, Server!Peer, Server!Queued, Server!Connected
<1>6. Steady
      BY <1>3, <1>5 DEF Steady, Announcing
<1>7. \A a \in answers : a.accepted => a.recordId # recordId[Thread]
  <2>1. 0 \notin DOMAIN rows
        BY <1>1 DEF ServiceInv
  <2>2. \A a \in answers : /\ a.accepted => a.recordId \in DOMAIN rows
                           /\ a.recordId = recordId[Thread] => a.recordId = 0
        BY <1>1 DEF ServiceInv
  <2> QED BY <2>1, <2>2
<1>8. HandInv'
      BY <1>1, <1>2, <1>3, <1>4, <1>5 DEF HandInv, Announcing
<1>9. AnswerInv'
      BY <1>1, <1>2, <1>3, <1>6, SteadyAnswers
<1>10. NamedOnce'
      BY <1>1, <1>3, <1>4, <1>7 DEF NamedOnce, Accepted, AnswerInv
<1>11. AttemptInv'
  <2>1. ASSUME NEW c \in Clients, Attached(c) PROVE Attached(c)'
        BY <1>2, <1>3, <1>4, <1>5, <2>1 DEF Attached, Accepted
  <2>2. \A p \in Packets : ProvedOf(p)' = ProvedOf(p)
        BY <1>2 DEF ProvedOf, Service!Proved
  <2> QED BY <1>1, <1>6, <2>1, <2>2, SteadyAttempts
<1> QED BY <1>8, <1>9, <1>10, <1>11 DEF GInv

\* An exception out of Ingest ends the process; its record has no proof.
LEMMA IngestThrowsKeeps ==
  ASSUME Known, IngestThrows
  PROVE  GInv'
<1>1. ServerInv /\ ServiceInv /\ HandInv /\ AnswerInv /\ NamedOnce /\ AttemptInv
      BY DEF Known, GInv
<1>2. /\ place[Thread] = "save" /\ Idle' /\ UNCHANGED <<rows, answers>>
      BY <1>1 DEF IngestThrows, Service!SaveThrows, Service!From, Service!Repo!SqlFault,
         Service!Repo!repository, Idle, ServiceInv
<1>3. /\ pc = "read" /\ pc' = "failed" /\ backlog' = <<>> /\ \A f \in Fds : fds'[f] = None
      /\ UNCHANGED <<event, client, request, answer>>
      /\ UNCHANGED <<posts, result, replies>>
      BY DEF IngestThrows, Server!StorageThrows, Server!At, Server!Exit, Server!Close, route,
         Server!broadcast, Server!epoch, Server!history
<1>4. result = None
      BY <1>1, <1>3 DEF HandInv, Announcing
<1>5. Steady
  <2>1. Keeping
        BY <1>1, <1>3, Shrinks DEF Announcing
  <2> QED BY <1>3, <2>1 DEF Steady, Keeping, Announcing
<1>6. HandInv'
      BY <1>1, <1>2, <1>3, <1>4 DEF HandInv, Announcing
<1>7. AnswerInv'
      BY <1>1, <1>2, <1>3, <1>5, SteadyAnswers
<1>8. NamedOnce'
      BY <1>1, <1>3 DEF NamedOnce, Accepted
<1>9. AttemptInv'
  <2>1. ASSUME NEW c \in Clients PROVE ~Attached(c)
        BY <1>2, <1>4 DEF Attached, Accepted
  <2>2. \A p \in Packets : ProvedOf(p)' = ProvedOf(p)
        BY <1>2 DEF ProvedOf, Service!Proved
  <2> QED BY <1>1, <1>5, <2>1, <2>2, SteadyAttempts
<1> QED BY <1>6, <1>7, <1>8, <1>9 DEF GInv

\* The reply is sent to the client in hand, which had none.
LEMMA RespondKeeps ==
  ASSUME Known, Respond
  PROVE  GInv'
<1>1. ServerInv /\ ServiceInv /\ HandInv /\ AnswerInv /\ NamedOnce /\ AttemptInv
      BY DEF Known, GInv
<1>2. /\ pc = "respond" /\ pc' = "loop" /\ current' = None
      /\ answer' = [answer EXCEPT ![Peer] = IF event.channel = "telemetry" THEN "202" ELSE "400"]
      /\ replies' = [replies EXCEPT ![Peer] = result] /\ result' = None
      /\ UNCHANGED <<backlog, client, request, posts>>
      /\ UNCHANGED <<rows, place, packet, recordId, answers>>
      /\ \A f \in Fds : fds'[f] = IF f = current THEN None ELSE fds[f]
      BY DEF Respond, Server!Respond, Server!At, Server!CloseCurrent, Server!Close, Server!epoch,
         Server!outside, service, Peer
<1>3. /\ Idle /\ result # None /\ result \in answers /\ result.packet = posts[Peer]
      /\ answer' = [answer EXCEPT ![Peer] = IF result.accepted THEN "202" ELSE "400"]
      BY <1>1, <1>2 DEF HandInv, Announcing
<1>4. /\ Peer \in Clients /\ ~Server!Queued(Peer) /\ client[Peer] # "away"
      /\ answer[Peer] = None /\ replies[Peer] = None
      BY <1>1, <1>2, InHand DEF Announcing
<1>5. /\ \A c \in Clients : /\ Server!Queued(c)' <=> Server!Queued(c)
                            /\ Server!Connected(c)' => Server!Connected(c)
      /\ \A c \in Clients : c = Peer => ~Server!Connected(c)'
  <2>1. \A c \in Clients : Server!Queued(c)' <=> Server!Queued(c)
        BY <1>2 DEF Server!Queued
  <2>2. \A c \in Clients, f \in Fds : fds'[f] = c => fds[f] = c /\ f # current
        BY <1>2, ServerAssumption
  <2>3. \A f \in Fds : fds[f] = Peer => f = current
        BY <1>1, <1>2 DEF ServerInv, Announcing
  <2>4. \A c \in Clients : Server!Connected(c)' => Server!Connected(c)
        BY <2>1, <2>2 DEF Server!Connected
  <2>5. ASSUME NEW c \in Clients, c = Peer PROVE ~Server!Connected(c)'
    <3>1. ~Server!Queued(c)' /\ \A f \in Fds : fds'[f] # c
          BY <1>4, <2>1, <2>2, <2>3, <2>5
    <3> QED BY <3>1 DEF Server!Connected
  <2> QED BY <2>1, <2>4, <2>5
<1>6. Steady
  <2>1. \A c \in Clients : answer'[c] # answer[c] => c = Peer
        BY <1>1, <1>2, <1>4 DEF ServerInv
  <2> QED BY <1>2, <1>5, <2>1 DEF Steady, Announcing
<1>7. HandInv'
      BY <1>1, <1>2, <1>3 DEF HandInv, Announcing, Idle
<1>8. AnswerInv'
  <2>1. \A c \in Clients \ {Peer} : answer'[c] = answer[c] /\ replies'[c] = replies[c]
        BY <1>1, <1>2, <1>4 DEF ServerInv, AnswerInv
  <2>2. answer'[Peer] = (IF result.accepted THEN "202" ELSE "400") /\ replies'[Peer] = result
        BY <1>1, <1>2, <1>3, <1>4 DEF ServerInv, AnswerInv
  <2>3. replies' \in [Clients -> answers' \cup {None}]
        BY <1>1, <1>2, <1>3 DEF AnswerInv
  <2>4. ASSUME NEW c \in Clients, client'[c] = "away" \/ Server!Queued(c)'
        PROVE  answer'[c] = None /\ replies'[c] = None
        BY <1>1, <1>2, <1>4, <1>5, <2>1, <2>4 DEF AnswerInv
  <2>5. ASSUME NEW c \in Clients
        PROVE  IF replies'[c] = None THEN answer'[c] # "202"
               ELSE /\ replies'[c].packet = posts'[c]
                    /\ answer'[c] = IF replies'[c].accepted THEN "202" ELSE "400"
        BY <1>1, <1>2, <1>3, <2>1, <2>2 DEF AnswerInv
  <2> QED BY <1>2, <2>3, <2>4, <2>5 DEF AnswerInv, Announcing
<1>9. NamedOnce'
  <2>1. /\ replies'[Peer] = result /\ \A c \in Clients \ {Peer} : replies'[c] = replies[c]
        /\ ~Accepted(result')
        BY <1>1, <1>2, <1>4 DEF AnswerInv, Accepted
  <2>2. ASSUME NEW c \in Clients, NEW d \in Clients \ {c},
               Accepted(replies'[c]), Accepted(replies'[d])
        PROVE  replies'[c].recordId # replies'[d].recordId
        BY <1>1, <2>1, <2>2 DEF NamedOnce
  <2> QED BY <2>1, <2>2 DEF NamedOnce, Accepted
<1>10. AttemptInv'
  <2>1. ASSUME NEW c \in Clients, Attached(c) PROVE Served(c)'
    <3>1. c = Peer /\ result.accepted
          BY <1>3, <2>1 DEF Attached, Accepted, Idle
    <3>2. answer'[Peer] = "202" /\ client'[Peer] # "away"
          BY <1>1, <1>2, <1>3, <1>4, <3>1 DEF ServerInv
    <3> QED BY <1>5, <3>1, <3>2 DEF Served
  <2>2. \A p \in Packets : ProvedOf(p)' = ProvedOf(p)
        BY <1>2 DEF ProvedOf, Service!Proved
  <2> QED BY <1>1, <1>6, <2>1, <2>2, SteadyAttempts
<1> QED BY <1>7, <1>8, <1>9, <1>10 DEF GInv

(***************************************************************************)
(* GInv is inductive: signals, restarts and the outside                    *)
(***************************************************************************)

\* Stop closes subscribers and what waits in the backlog, none in hand.
LEMMA HandleSignalKeeps ==
  ASSUME Known, HandleSignal
  PROVE  GInv'
<1>1. ServerInv /\ ServiceInv /\ HandInv /\ AnswerInv /\ NamedOnce /\ AttemptInv
      BY DEF Known, GInv
<1>2. /\ UNCHANGED <<pc, current, event, client, request, answer>>
      /\ backlog' = <<>>
      /\ UNCHANGED <<posts, result, replies>>
      /\ UNCHANGED <<rows, place, packet, recordId, answers>>
      /\ \/ fds' = fds
         \/ /\ pc # "broadcast"
            /\ Server!Close(UNION {wsClients[ch] : ch \in {"telemetry", "alerts"}})
      BY DEF HandleSignal, Server!HandleSignal, Server!Stop, Server!Holding, Server!Channels,
         Server!broadcast, Server!history, service, route
<1>3. /\ \A f \in Fds : fds'[f] \in {fds[f], None}
      /\ current # None => fds'[current] = fds[current]
      BY <1>1, <1>2 DEF Server!Close, ServerInv
<1>4. Keeping /\ (current # None => Peer' = Peer)
  <2>1. pc \in Announcing => current # None
        BY <1>1 DEF ServerInv
  <2>2. Keeping
        BY <1>1, <1>2, <1>3, <2>1, Shrinks
  <2>3. current # None => Peer' = Peer
        BY <1>2, <1>3 DEF Peer, Server!Peer
  <2> QED BY <2>2, <2>3
<1>5. Steady
  <2>1. pc \in {"read"} \cup Announcing => Peer' = Peer
        BY <1>1, <1>4 DEF ServerInv
  <2> QED BY <1>2, <1>4, <2>1 DEF Steady, Keeping
<1>6. HandInv'
  <2>1. ~Idle \/ result # None => Peer' = Peer
        BY <1>1, <1>4 DEF HandInv, ServerInv
  <2> QED BY <1>1, <1>2, <2>1 DEF HandInv, Idle
<1>7. AnswerInv'
      BY <1>1, <1>2, <1>5, SteadyAnswers
<1>8. NamedOnce'
      BY <1>1, <1>2 DEF NamedOnce, Accepted
<1>9. AttemptInv'
  <2>1. ASSUME NEW c \in Clients, Attached(c) PROVE Attached(c)'
        BY <1>2, <1>4, <2>1 DEF Attached, Accepted
  <2>2. \A p \in Packets : ProvedOf(p)' = ProvedOf(p)
        BY <1>2 DEF ProvedOf, Service!Proved
  <2> QED BY <1>1, <1>5, <2>1, <2>2, SteadyAttempts
<1> QED BY <1>6, <1>7, <1>8, <1>9 DEF GInv

\* A process that ends leaves one event unsent at most.
LEMMA RestartKeeps ==
  ASSUME Known, Restart
  PROVE  GInv'
<1>1. ServerInv /\ ServiceInv /\ HandInv /\ AnswerInv /\ NamedOnce /\ AttemptInv
      BY DEF Known, GInv
<1>2. /\ pc' = "start" /\ current' = None /\ backlog' = <<>> /\ event' = None
      /\ \A f \in Fds : fds'[f] = None
      /\ UNCHANGED <<client, request, answer>>
      /\ result' = None
      /\ UNCHANGED <<posts, replies>>
      /\ place'[Thread] = "idle" /\ UNCHANGED <<rows, answers>>
      BY DEF Restart, Server!Restart, Server!Close, Server!history, Service!Restart,
         Service!store
<1>3. \A c \in Clients : ~Server!Connected(c)' /\ ~Server!Queued(c)'
      BY <1>2, ServerAssumption DEF Server!Connected, Server!Queued
<1>4. Steady
      BY <1>2, <1>3 DEF Steady, Announcing
<1>5. HandInv'
      BY <1>1, <1>2 DEF HandInv, Announcing, Idle
<1>6. AnswerInv'
      BY <1>1, <1>2, <1>4, SteadyAnswers
<1>7. NamedOnce'
      BY <1>1, <1>2 DEF NamedOnce, Accepted
<1>8. AttemptInv'
  <2>1. ASSUME NEW c \in Clients, Attached(c) PROVE Served(c)'
    <3>1. pc \in {"read"} \cup Announcing
          BY <1>1, <2>1 DEF Attached, Accepted, HandInv, Idle
    <3>2. client[c] # "away" /\ answer[c] = None
          BY <1>1, <2>1, <3>1, InHand DEF Attached
    <3> QED BY <1>2, <1>3, <3>2, NamesAreSome DEF Served
  <2>2. \A p \in Packets : ProvedOf(p)' = ProvedOf(p)
        BY <1>2 DEF ProvedOf, Service!Proved
  <2> QED BY <1>1, <1>4, <2>1, <2>2, SteadyAttempts
<1> QED BY <1>5, <1>6, <1>7, <1>8 DEF GInv

\* The node mines, or nothing happens.
LEMMA RestKeeps ==
  ASSUME Known, Mine \/ UNCHANGED vars
  PROVE  GInv'
<1>1. ServerInv /\ ServiceInv /\ HandInv /\ AnswerInv /\ NamedOnce /\ AttemptInv
      BY DEF Known, GInv
<1>2. UNCHANGED <<rows, place, packet, recordId, answers>> /\ UNCHANGED server /\ UNCHANGED route
      BY DEF Mine, Service!Mine, Service!store, Service!locals, vars, service
<1>3. /\ Steady /\ Peer' = Peer
      /\ UNCHANGED <<pc, current, event, client, request, answer>>
      /\ UNCHANGED <<posts, result, replies>>
      BY <1>2, ServerRests
<1>4. HandInv'
      BY <1>1, <1>2, <1>3 DEF HandInv, Idle
<1>5. AnswerInv'
      BY <1>1, <1>2, <1>3, SteadyAnswers
<1>6. NamedOnce'
      BY <1>1, <1>3 DEF NamedOnce, Accepted
<1>7. AttemptInv'
  <2>1. ASSUME NEW c \in Clients, Attached(c) PROVE Attached(c)'
        BY <1>2, <1>3, <2>1 DEF Attached, Accepted
  <2>2. \A p \in Packets : ProvedOf(p)' = ProvedOf(p)
        BY <1>2 DEF ProvedOf, Service!Proved
  <2> QED BY <1>1, <1>3, <2>1, <2>2, SteadyAttempts
<1> QED BY <1>4, <1>5, <1>6, <1>7 DEF GInv

\* What a client does leaves the server's hands and the service alone.
LEMMA ClientActs ==
  ASSUME Known, NEW c \in Clients, Connect(c) \/ Ask(c) \/ Leave(c)
  PROVE  /\ UNCHANGED <<pc, fds, current, event, answer>> /\ Peer' = Peer
         /\ UNCHANGED <<posts, result, replies>>
         /\ UNCHANGED <<rows, place, packet, recordId, answers>>
         /\ NamedOnce'
         /\ \A d \in Clients : Attached(d)' <=> Attached(d)
         /\ \A p \in Packets : ProvedOf(p)' = ProvedOf(p)
<1>1. NamedOnce
      BY DEF Known, GInv
<1>2. /\ UNCHANGED <<pc, fds, current, event, answer>>
      /\ UNCHANGED <<posts, result, replies>>
      /\ UNCHANGED <<rows, place, packet, recordId, answers>>
      BY DEF Connect, Ask, Leave, Server!Connect, Server!Ask, Server!Leave, Server!process,
         Server!broadcast, Server!epoch, Server!history, service, route
<1>3. Peer' = Peer
      BY <1>2 DEF Peer, Server!Peer
<1>4. NamedOnce'
      BY <1>1, <1>2 DEF NamedOnce, Accepted
<1>5. \A d \in Clients : Attached(d)' <=> Attached(d)
      BY <1>2, <1>3 DEF Attached, Accepted
<1>6. \A p \in Packets : ProvedOf(p)' = ProvedOf(p)
      BY <1>2 DEF ProvedOf, Service!Proved
<1> QED BY <1>2, <1>3, <1>4, <1>5, <1>6

\* A client asks or leaves, whatever the thread does meanwhile.
LEMMA AskLeaveKeeps ==
  ASSUME Known, NEW c \in Clients, Ask(c) \/ Leave(c)
  PROVE  GInv'
<1>1. ServerInv /\ ServiceInv /\ HandInv /\ AnswerInv /\ NamedOnce /\ AttemptInv
      BY DEF Known, GInv
<1>2. /\ UNCHANGED <<pc, fds, current, event, answer>> /\ Peer' = Peer
      /\ UNCHANGED <<posts, result, replies>>
      /\ UNCHANGED <<rows, place, packet, recordId, answers>>
      /\ NamedOnce'
      /\ \A d \in Clients : Attached(d)' <=> Attached(d)
      /\ \A p \in Packets : ProvedOf(p)' = ProvedOf(p)
      BY ClientActs
<1>3. /\ backlog' = backlog
      /\ client[c] \in {"silent", "asked"} /\ client'[c] \in {"asked", "gone"}
      /\ \A d \in Clients \ {c} : client'[d] = client[d] /\ request'[d] = request[d]
      /\ \/ request'[c] = request[c]
         \/ request[c] = None /\ (request'[c] = "ingest" <=> posts[c] # None)
  <2>1. CASE Ask(c)
    <3>1. client[c] = "silent" /\ client' = [client EXCEPT ![c] = "asked"] /\ backlog' = backlog
          BY <2>1 DEF Ask, Server!Ask
    <3>2. /\ \E r \in Requests : request' = [request EXCEPT ![c] = r]
          /\ request'[c] = "ingest" <=> posts[c] # None
          BY <2>1 DEF Ask, Server!Ask
    <3>3. request[c] = None /\ client'[c] = "asked"
          BY <1>1, <3>1 DEF ServerInv
    <3>4. \A d \in Clients \ {c} : client'[d] = client[d] /\ request'[d] = request[d]
          BY <1>1, <3>1, <3>2 DEF ServerInv
    <3> QED BY <3>1, <3>2, <3>3, <3>4
  <2>2. CASE Leave(c)
    <3>1. /\ client[c] \in {"silent", "asked"} /\ client' = [client EXCEPT ![c] = "gone"]
          /\ backlog' = backlog /\ request' = request
          BY <2>2 DEF Leave, Server!Leave
    <3> QED BY <1>1, <3>1 DEF ServerInv
  <2> QED BY <2>1, <2>2
<1>4. \A d \in Clients : /\ Server!Queued(d)' <=> Server!Queued(d)
                         /\ Server!Connected(d)' <=> Server!Connected(d)
      BY <1>2, <1>3 DEF Server!Queued, Server!Connected
<1>5. Steady
  <2>1. pc \in {"read"} \cup Announcing => Peer \in Clients
        BY <1>1 DEF ServerInv
  <2>2. ASSUME NEW d \in Clients
        PROVE  /\ client'[d] = "away" <=> client[d] = "away"
               /\ client[d] = "gone" => client'[d] = "gone"
               /\ request[d] # None => request'[d] = request[d]
    <3>1. CASE d = c
          BY <1>3, <3>1
    <3>2. CASE d # c
          BY <1>3, <3>2
    <3> QED BY <3>1, <3>2
  <2>3. pc' = pc /\ answer' = answer /\ posts' = posts /\ Peer' = Peer
        BY <1>2
  <2> QED BY <1>4, <2>1, <2>2, <2>3 DEF Steady
<1>6. HandInv'
  <2>1. ASSUME ~Idle \/ result # None PROVE request'[Peer] = "ingest"
    <3>1. request[Peer] = "ingest" /\ Peer \in Clients
          BY <1>1, <2>1, InHand DEF HandInv
    <3> QED BY <1>3, <3>1, NamesAreSome
  <2>2. \A d \in Clients : request'[d] # None => (request'[d] = "ingest" <=> posts[d] # None)
        BY <1>1, <1>3 DEF HandInv
  <2> QED BY <1>1, <1>2, <2>1, <2>2 DEF HandInv, Idle
<1>7. AnswerInv'
      BY <1>1, <1>2, <1>5, SteadyAnswers
<1>8. AttemptInv'
      BY <1>1, <1>2, <1>5, SteadyAttempts
<1> QED BY <1>2, <1>6, <1>7, <1>8 DEF GInv

\* A packet is sent again only when the earlier attempts are over.
LEMMA ConnectKeeps ==
  ASSUME Known, NEW c \in Clients, Connect(c)
  PROVE  GInv'
<1>1. ServerInv /\ ServiceInv /\ HandInv /\ AnswerInv /\ NamedOnce /\ AttemptInv
      BY DEF Known, GInv
<1>2. /\ UNCHANGED <<pc, fds, current, event, answer>> /\ Peer' = Peer
      /\ UNCHANGED <<posts, result, replies>>
      /\ UNCHANGED <<rows, place, packet, recordId, answers>>
      /\ NamedOnce'
      /\ \A d \in Clients : Attached(d)' <=> Attached(d)
      /\ \A p \in Packets : ProvedOf(p)' = ProvedOf(p)
      BY ClientActs
<1>3. /\ client[c] = "away" /\ client' = [client EXCEPT ![c] = "silent"]
      /\ backlog' = Append(backlog, c) /\ request' = request
      /\ \A d \in Clients \ {c} : posts[d] = posts[c] /\ posts[c] # None =>
            client[d] = "away" \/ Over(d)
      BY DEF Connect, Server!Connect, Over
<1>4. \A d \in Clients \ {c} : /\ Server!Queued(d)' <=> Server!Queued(d)
                               /\ Server!Connected(d)' <=> Server!Connected(d)
  <2>1. /\ DOMAIN backlog' = DOMAIN backlog \cup {Len(backlog) + 1}
        /\ backlog'[Len(backlog) + 1] = c
        /\ \A i \in DOMAIN backlog : backlog'[i] = backlog[i]
        BY <1>1, <1>3 DEF ServerInv
  <2>2. \A d \in Clients \ {c} : Server!Queued(d)' <=> Server!Queued(d)
        BY <2>1 DEF Server!Queued
  <2> QED BY <1>2, <2>2 DEF Server!Connected
<1>5. /\ client'[c] = "silent" /\ \A d \in Clients \ {c} : client'[d] = client[d]
      BY <1>1, <1>3 DEF ServerInv
<1>6. HandInv'
      BY <1>1, <1>2, <1>3 DEF HandInv, Idle
<1>7. AnswerInv'
  <2>1. ASSUME NEW d \in Clients, client'[d] = "away" \/ Server!Queued(d)'
        PROVE  answer'[d] = None /\ replies'[d] = None
    <3>1. client[d] = "away" \/ Server!Queued(d)
      <4>1. CASE d = c
            BY <1>3, <4>1
      <4>2. CASE d # c
        <5>1. d \in Clients \ {c} /\ client'[d] = client[d]
              BY <1>5, <4>2
        <5> QED BY <1>4, <2>1, <5>1
      <4> QED BY <4>1, <4>2
    <3> QED BY <1>1, <1>2, <3>1 DEF AnswerInv
  <2> QED BY <1>1, <1>2, <2>1 DEF AnswerInv
<1>8. AttemptInv'
  <2>1. \A d \in Clients \ {c} : /\ Served(d)' <=> Served(d)
                                 /\ Over(d) => Over(d)'
        BY <1>2, <1>4, <1>5 DEF Served, Over, Lost
  <2>2. ASSUME NEW p \in Packets PROVE Cardinality(ProvedOf(p)') <= Cardinality(Spent(p)')
    <3>1. Spent(p) \subseteq Spent(p)'
      <4>1. ASSUME NEW d \in Spent(p) PROVE Attached(d)' \/ Served(d)'
        <5>1. CASE d = c
              BY <1>2, <1>3, <4>1, <5>1 DEF Spent, Served
        <5>2. CASE d # c
          <6>1. d \in Clients \ {c} /\ d \in Clients /\ (Attached(d) \/ Served(d))
                BY <4>1, <5>2 DEF Spent
          <6> QED BY <1>2, <2>1, <6>1
        <5> QED BY <5>1, <5>2
      <4> QED BY <1>2, <1>3, <4>1 DEF Spent
    <3>2. IsFiniteSet(Spent(p)) /\ IsFiniteSet(Spent(p)') /\ IsFiniteSet(ProvedOf(p))
          BY <1>1, ClientsAssumption, FS_Subset, ProvedIsFinite DEF Spent
    <3>3. /\ Cardinality(Spent(p)) <= Cardinality(Spent(p)')
          /\ Cardinality(ProvedOf(p)) <= Cardinality(Spent(p))
          BY <1>1, <3>1, <3>2, FS_Subset DEF AttemptInv
    <3> QED BY <1>2, <3>2, <3>3, FS_CardinalityType
  <2>3. ASSUME NEW d \in Clients, NEW e \in Clients, d # e, posts'[d] = posts'[e],
               posts'[d] # None, client'[d] # "away", client'[e] # "away"
        PROVE  Over(d)' \/ Over(e)'
    <3>1. CASE d # c /\ e # c
      <4>1. Over(d) \/ Over(e)
            BY <1>1, <1>2, <1>5, <2>3, <3>1 DEF AttemptInv
      <4>2. d \in Clients \ {c} /\ e \in Clients \ {c}
            BY <3>1
      <4> QED BY <2>1, <4>1, <4>2
    <3>2. CASE d = c
      <4>1. Over(e)
            BY <1>2, <1>3, <1>5, <2>3, <3>2
      <4>2. e \in Clients \ {c}
            BY <2>3, <3>2
      <4> QED BY <2>1, <4>1, <4>2
    <3>3. CASE e = c
      <4>1. Over(d)
            BY <1>2, <1>3, <1>5, <2>3, <3>3
      <4>2. d \in Clients \ {c}
            BY <2>3, <3>3
      <4> QED BY <2>1, <4>1, <4>2
    <3> QED BY <3>1, <3>2, <3>3
  <2> QED BY <2>2, <2>3 DEF AttemptInv
<1> QED BY <1>2, <1>6, <1>7, <1>8 DEF GInv

\* Every step keeps GInv.
LEMMA GInvNext ==
  ASSUME Known, [Next]_vars
  PROVE  GInv'
<1>1. CASE Work
      BY <1>1, ServeKeeps, IngestCalledKeeps, InIngestKeeps, IngestReturnsKeeps,
         IngestThrowsKeeps, RespondKeeps DEF Work, Serving
<1> QED BY <1>1, HandleSignalKeeps, RestartKeeps, RestKeeps, AskLeaveKeeps, ConnectKeeps DEF Next

\* At the start nobody was answered and nothing is stored.
LEMMA GInvInit ==
  ASSUME Init
  PROVE  GInv
<1>1. /\ pc = "start" /\ current = None /\ event = None /\ backlog = <<>>
      /\ client = [c \in Clients |-> "away"] /\ request = [c \in Clients |-> None]
      /\ answer = [c \in Clients |-> None]
      BY DEF Init, Server!Init, Server!Channels
<1>2. /\ place[Thread] = "idle" /\ DOMAIN rows = {} /\ answers = {}
      BY DEF Init, Service!Init, Service!Repo!Init
<1>3. /\ posts \in [Clients -> Packets \cup {None}] /\ result = None
      /\ replies = [c \in Clients |-> None]
      BY PurposesAssumption DEF Init
<1>4. HandInv
      BY <1>1, <1>2, <1>3 DEF HandInv, Announcing, Idle
<1>5. AnswerInv
      BY <1>1, <1>3, NamesAreSome DEF AnswerInv, Announcing
<1>6. NamedOnce
      BY <1>3 DEF NamedOnce, Accepted
<1>7. Service!Proved = {}
      BY <1>2 DEF Service!Proved
<1>8. AttemptInv
  <2>1. ASSUME NEW p \in Packets PROVE Cardinality(ProvedOf(p)) <= Cardinality(Spent(p))
    <3>1. ProvedOf(p) = {} /\ Spent(p) = {}
          BY <1>1, <1>7, NamesAreSome DEF ProvedOf, Spent
    <3> QED BY <3>1, FS_EmptySet
  <2> QED BY <1>1, <2>1 DEF AttemptInv
<1> QED BY <1>4, <1>5, <1>6, <1>8 DEF GInv

(***************************************************************************)
(* Theorems                                                                *)
(***************************************************************************)

\* The instances' assumptions are among the gateway's.
LEMMA ServiceAssumes == ServiceProofs!NoncesAssumption /\ ServiceProofs!NoneAssumption
  BY ServiceAssumption DEF ServiceProofs!NoncesAssumption, ServiceProofs!NoneAssumption,
     ServiceProofs!Hashes, ServiceProofs!Receipts, Service!Hashes, Service!Receipts

\* What HttpServer assumes of its constants holds of those that Gateway gives it.
LEMMA ServerAssumes ==
  /\ ServerProofs!RequestsAssumption /\ ServerProofs!SignalsAssumption
  /\ ServerProofs!NoneAssumption
  BY ServerAssumption DEF ServerProofs!RequestsAssumption, ServerProofs!SignalsAssumption,
     ServerProofs!NoneAssumption, ServerProofs!Kinds, Server!Kinds, ServerProofs!Channels,
     Server!Channels, ServerProofs!Answered, Server!Answered, ServerProofs!Statuses,
     Server!Statuses

\* The invariant of the service holds inside the gateway, by the refinement,
LEMMA AlwaysServiceInv == Spec => []ServiceInv
<1>1. Init => ServiceProofs!Init
      BY SameServiceInit DEF Init
<1>2. [Next]_vars => [ServiceProofs!Next]_(ServiceProofs!vars)
      BY ServiceStep, SameServiceStep
<1>3. ServiceProofs!NoncesAssumption /\ ServiceProofs!NoneAssumption
      BY ServiceAssumes
<1>4. ServiceProofs!Spec => []ServiceProofs!IInv
      BY <1>3, ServiceProofs!AlwaysIInv
<1> QED BY <1>1, <1>2, <1>4, ServiceFacts, PTL DEF Spec, ServiceProofs!Spec

\* and so does that of the server.
LEMMA AlwaysServerInv == Spec => []ServerInv
<1>1. Init => ServerProofs!Init
      BY SameServerInit DEF Init
<1>2. [Next]_vars => [ServerProofs!Next]_(ServerProofs!vars)
      BY ServerStep, SameServerStep
<1>3. /\ ServerProofs!RequestsAssumption /\ ServerProofs!SignalsAssumption
      /\ ServerProofs!NoneAssumption
      BY ServerAssumes
<1>4. ServerProofs!Spec => []ServerProofs!IInv
      BY <1>3, ServerProofs!Invariance
<1> QED BY <1>1, <1>2, <1>4, ServerFacts, PTL DEF Spec, ServerProofs!Spec

\* Together with GInv they are all that is known at every moment.
LEMMA AlwaysKnown == Spec => []Known
<1>1. Init => GInv
      BY GInvInit
<1>2. Known /\ [Next]_vars => GInv'
      BY GInvNext
<1>3. Known <=> ServerInv /\ ServiceInv /\ GInv
      BY DEF Known
<1> QED BY <1>1, <1>2, <1>3, AlwaysServiceInv, AlwaysServerInv, PTL DEF Spec

(***************************************************************************)
(* What the subscribers of /ws/telemetry know                              *)
(***************************************************************************)
Listeners == Server!Listed("telemetry")
Told(c) == {e.recordId : e \in heard[c]}

\* What is used of the server's lists: each descriptor in them leads to a client
\* of its own, which was added once, and nobody else ever got a frame.
ListsInv ==
    /\ \A f, g \in Fds : fds[f] # None /\ fds[f] = fds[g] => f = g
    /\ \A ch \in {"telemetry", "alerts"} : \A f \in Server!Listed(ch) :
          f \in Fds /\ fds[f] \in Clients /\ joined[fds[f]] # None /\ request[fds[f]] = ch
    /\ joined \in [Clients -> Nat \cup {None}] /\ frames \in [Clients -> Seq(Clients)]
    /\ \A c \in Clients : /\ joined[c] # None => request[c] \in {"telemetry", "alerts"}
                          /\ joined[c] = None => frames[c] = <<>>
    /\ current # None => joined[Peer] = None
    /\ pc = "push" => request[Peer] \in {"telemetry", "alerts"}
    /\ pc # "broadcast" => todo = {}
    /\ todo \cap active = {}

\* It follows from the server's inductive invariant.
LEMMA ListsFacts == ServerProofs!IInv => ListsInv
<1> SUFFICES ASSUME ServerProofs!IInv PROVE ListsInv
    OBVIOUS
<1> USE DEF ServerProofs!IInv
<1>1. \A ch \in {"telemetry", "alerts"} : Server!Listed(ch) = ServerProofs!Listed(ch)
      BY DEF Server!Listed, ServerProofs!Listed
<1>2. ASSUME NEW ch \in {"telemetry", "alerts"}, NEW f \in Server!Listed(ch)
      PROVE  f \in Fds /\ fds[f] \in Clients /\ joined[fds[f]] # None /\ request[fds[f]] = ch
  <2>1. f \in Fds \ ServerProofs!FreeFds
        BY <1>1, <1>2 DEF ServerProofs!OwnedOnce
  <2>2. fds[f] \in Clients
        BY <2>1 DEF ServerProofs!FreeFds, ServerProofs!TypeOK
  <2> QED BY <1>1, <1>2, <2>1, <2>2 DEF ServerProofs!SubInv, ServerProofs!Channels
<1>3. /\ \A f, g \in Fds : fds[f] # None /\ fds[f] = fds[g] => f = g
      /\ current # None => joined[Peer] = None
      BY DEF ServerProofs!ConnInv, ServerProofs!Peer, Peer, Server!Peer
<1>4. /\ joined \in [Clients -> Nat \cup {None}] /\ frames \in [Clients -> Seq(Clients)]
      /\ pc = "push" => request[Peer] \in {"telemetry", "alerts"}
      BY DEF ServerProofs!TypeOK, ServerProofs!CallInv, ServerProofs!Channels, ServerProofs!Peer,
         Peer, Server!Peer
<1>5. /\ \A c \in Clients : /\ joined[c] # None => request[c] \in {"telemetry", "alerts"}
                            /\ joined[c] = None => frames[c] = <<>>
      /\ pc # "broadcast" => todo = {}
      /\ todo \cap active = {}
      BY DEF ServerProofs!SubInv, ServerProofs!EventsComplete, ServerProofs!Channels
<1> QED BY <1>2, <1>3, <1>4, <1>5 DEF ListsInv

\* A subscriber heard of proved records that it had not read, of each in one
\* frame; while it is listed it knows all but those that it is still to be told.
EventInv ==
    /\ known \in [Clients -> SUBSET (1..seq)]
    /\ heard = [c \in Clients |-> heard[c]]
    /\ \A c \in Clients :
          /\ \A e \in heard[c] : e.recordId \in Service!Proved \ known[c] /\ IsStored(e)
          /\ IF request[c] = "telemetry"
             THEN IsFiniteSet(heard[c]) /\ Cardinality(heard[c]) = Len(frames[c])
             ELSE heard[c] = {}
    /\ \A f \in Listeners :
          /\ Untold(f) \subseteq Service!Proved
          /\ Service!Proved \ Untold(f) = known[fds[f]] \cup Told(fds[f])

\* All that is known of a moment, the events aside.
Facts == Known /\ ListsInv

\* A client that was not added to a list has heard nothing.
LEMMA HeardNothing ==
  ASSUME ListsInv, EventInv, NEW c \in Clients, joined[c] = None
  PROVE  frames[c] = <<>> /\ heard[c] = {}
<1>1. frames[c] = <<>>
      BY DEF ListsInv
<1>2. CASE request[c] = "telemetry"
  <2>1. IsFiniteSet(heard[c]) /\ Cardinality(heard[c]) = 0
        BY <1>1, <1>2 DEF EventInv
  <2> QED BY <1>1, <2>1, FS_EmptySet
<1>3. CASE request[c] # "telemetry"
      BY <1>1, <1>3 DEF EventInv
<1> QED BY <1>2, <1>3

\* A step that adds no listener and tells nobody anything, and after which they
\* lack what they lacked before, but for a record that is proved now.
Silent ==
    /\ UNCHANGED <<known, heard, frames>> /\ seq \in 0..seq'
    /\ Service!Proved \subseteq Service!Proved'
    /\ \A id \in Service!Proved : rows'[id] = rows[id]
    /\ \A c \in Clients : request[c] = None \/ request'[c] = request[c]
    /\ \A f \in Listeners' :
          /\ f \in Listeners /\ fds'[f] = fds[f]
          /\ Untold(f)' \subseteq Service!Proved'
          /\ Service!Proved' \ Untold(f)' = Service!Proved \ Untold(f)

\* It keeps what they know.
LEMMA SilentKeeps ==
  ASSUME ListsInv, EventInv, Silent, seq' \in Nat
  PROVE  EventInv'
<1>1. known' \in [Clients -> SUBSET (1..seq')] /\ heard' = [c \in Clients |-> heard'[c]]
  <2>1. 1..seq \subseteq 1..seq'
        BY DEF Silent
  <2> QED BY <2>1 DEF EventInv, Silent
<1>2. ASSUME NEW c \in Clients
      PROVE  /\ \A e \in heard'[c] : e.recordId \in Service!Proved' \ known'[c] /\ IsStored(e)'
             /\ IF request'[c] = "telemetry"
                THEN IsFiniteSet(heard'[c]) /\ Cardinality(heard'[c]) = Len(frames'[c])
                ELSE heard'[c] = {}
  <2>1. \A e \in heard'[c] : e.recordId \in Service!Proved' \ known'[c] /\ IsStored(e)'
        BY DEF EventInv, Silent, IsStored
  <2>2. CASE request[c] = None
    <3>1. joined[c] = None
          BY <2>2, NamesAreSome, ServerAssumption DEF ListsInv, Server!Kinds, Server!Channels
    <3>2. frames'[c] = <<>> /\ heard'[c] = {}
          BY <3>1, HeardNothing DEF Silent
    <3> QED BY <2>1, <3>2, FS_EmptySet
  <2>3. CASE request'[c] = request[c]
        BY <2>1, <2>3 DEF EventInv, Silent
  <2> QED BY <2>2, <2>3 DEF Silent
<1>3. ASSUME NEW f \in Listeners'
      PROVE  /\ Untold(f)' \subseteq Service!Proved'
             /\ Service!Proved' \ Untold(f)' = known'[fds'[f]] \cup Told(fds[f])'
  <2>1. f \in Listeners /\ known'[fds'[f]] = known[fds[f]] /\ Told(fds[f])' = Told(fds[f])
        BY <1>3 DEF Silent, Told
  <2> QED BY <1>3, <2>1 DEF Silent, EventInv
<1> QED BY <1>1, <1>2, <1>3 DEF EventInv

\* What Silent asks of the records, of a step that leaves the database alone.
LEMMA SameRecords ==
  ASSUME Facts, EventInv, UNCHANGED <<rows, seq, known, heard, frames>>,
         \A c \in Clients : request[c] = None \/ request'[c] = request[c],
         \A f \in Listeners' : f \in Listeners /\ fds'[f] = fds[f] /\ Untold(f)' = Untold(f)
  PROVE  Silent
<1>1. Service!Proved' = Service!Proved /\ seq \in 0..seq'
      BY DEF Service!Proved, Facts, Known, ServiceInv
<1> QED BY <1>1 DEF Silent, EventInv

\* Nobody is added, and who is dropped is no listener any more.
LEMMA ServeSilent ==
  ASSUME Facts, EventInv, Serve
  PROVE  Silent
<1>1. /\ Idle /\ UNCHANGED <<rows, seq, place, recordId, result, known, heard>>
      BY DEF Serve, service, route
<1>2. /\ ServerInv /\ HandInv /\ ListsInv
      BY DEF Facts, Known, GInv
<1>3. /\ \A f \in Fds : Untold(f) = IF result # None /\ result.accepted /\ (pc = "publish" \/ f \in todo)
                                  THEN {result.recordId} ELSE {}
      /\ \A f \in Fds : Untold(f)' = IF result # None /\ result.accepted /\ (pc' = "publish" \/ f \in todo')
                                   THEN {result.recordId} ELSE {}
      BY <1>1 DEF Untold, Idle
<1>4. \A f \in Listeners : f \in Fds /\ fds[f] # None /\ f # current
  <2>1. \A f \in Listeners : f \in Fds /\ fds[f] \in Clients /\ joined[fds[f]] # None
        BY <1>2 DEF ListsInv, Listeners
  <2> QED BY <1>2, <2>1, ServerAssumption DEF ListsInv, Peer, Server!Peer
<1> DEFINE Gone == /\ UNCHANGED <<request, frames>>
                   /\ \A f \in Listeners' : /\ f \in Listeners /\ fds'[f] = fds[f]
                                            /\ Untold(f)' = Untold(f)
<1> USE DEF Server!At, Server!outside, Server!broadcast, Server!epoch, Server!history,
        Server!process
<1>5. ASSUME Server!Socket \/ Server!Listen \/ Server!SetRunning \/ Server!Upgrade \/ Server!LockToPush PROVE Gone
  <2>1. /\ UNCHANGED <<request, frames, fds, wsClients, todo>>
        /\ pc \notin {"publish", "broadcast"} /\ pc' \notin {"publish", "broadcast"}
        BY <1>5 DEF Server!Socket, Server!Listen, Server!SetRunning, Server!Upgrade,
           Server!LockToPush
  <2>2. Listeners' = Listeners
        BY <2>1 DEF Listeners, Server!Listed
  <2> QED BY <1>3, <1>4, <2>1, <2>2
<1>6. ASSUME Server!StartThrows \/ Server!LoopEnds \/ Server!StorageThrows PROVE Gone
  <2>1. /\ UNCHANGED <<request, frames>> /\ pc' \in {"failed", "ended"}
        /\ wsClients' = [ch \in {"telemetry", "alerts"} |-> {}]
        BY <1>6 DEF Server!StartThrows, Server!LoopEnds, Server!StorageThrows, Server!Exit,
           Server!Channels
  <2>2. Listeners' = {}
        BY <2>1 DEF Listeners, Server!Listed
  <2> QED BY <2>1, <2>2
<1>7. ASSUME Server!ReadNothing \/ Server!Route \/ Server!RefuseUpgrade \/ Server!UpgradeFails PROVE Gone
  <2>1. /\ UNCHANGED <<request, frames, wsClients, todo>> /\ pc = "read" /\ pc' = "loop"
        /\ \A f \in Fds \ {current} : fds'[f] = fds[f]
        BY <1>7 DEF Server!ReadNothing, Server!Route, Server!RefuseUpgrade, Server!UpgradeFails,
           Server!CloseCurrent, Server!Close
  <2>2. Listeners' = Listeners
        BY <2>1 DEF Listeners, Server!Listed
  <2> QED BY <1>3, <1>4, <2>1, <2>2
<1>8. ASSUME NEW g \in Fds, Server!Accept(g) PROVE Gone
  <2>1. /\ UNCHANGED <<request, frames, wsClients, todo>> /\ pc = "loop" /\ pc' = "read"
        /\ fds[g] = None /\ fds' = [fds EXCEPT ![g] = Head(backlog)]
        BY <1>8 DEF Server!Accept, Server!FreeFds
  <2>2. Listeners' = Listeners
        BY <2>1 DEF Listeners, Server!Listed
  <2> QED BY <1>3, <1>4, <2>1, <2>2
<1>9. ASSUME Server!LockToBroadcast PROVE Gone
  <2>1. /\ UNCHANGED <<request, frames, fds, wsClients, event>>
        /\ pc = "publish" /\ pc' = "broadcast"
        /\ todo' = wsClients[event.channel] /\ active' = {}
        BY <1>9 DEF Server!LockToBroadcast
  <2>2. /\ Listeners' = Listeners /\ Listeners = wsClients["telemetry"]
        BY <2>1 DEF Listeners, Server!Listed
  <2>3. result # None /\ event.channel = IF result.accepted THEN "telemetry" ELSE "alerts"
        BY <1>2, <2>1 DEF HandInv, Announcing
  <2> QED BY <1>3, <1>4, <2>1, <2>2, <2>3
<1>10. ASSUME Server!SwapClients PROVE Gone
  <2>1. /\ UNCHANGED <<request, frames, fds, todo>> /\ todo = {}
        /\ pc = "broadcast" /\ pc' = "respond"
        /\ wsClients' = [wsClients EXCEPT ![event.channel] = active]
        BY <1>10 DEF Server!SwapClients
  <2>2. event.channel \in {"telemetry", "alerts"}
        BY <1>2, <2>1 DEF ServerInv, Announcing
  <2>3. Listeners' = Listeners
        BY <1>2, <2>1, <2>2 DEF Listeners, Server!Listed, ServerInv
  <2> QED BY <1>3, <1>4, <2>1, <2>3
<1>11. ASSUME NEW g \in Fds, Server!SendFrameFails(g) PROVE Gone
  <2>1. /\ UNCHANGED <<request, frames, wsClients, event, active>> /\ g \in todo
        /\ todo' = todo \ {g} /\ pc = "broadcast" /\ pc' = "broadcast"
        /\ \A f \in Fds : fds'[f] = IF f = g THEN None ELSE fds[f]
        BY <1>11 DEF Server!SendFrameFails, Server!Close
  <2>2. \A f \in Listeners' : f \in Listeners /\ f # g
    <3>1. CASE event.channel = "telemetry"
      <4>1. g \notin active
            BY <1>2, <2>1 DEF ListsInv
      <4> QED BY <2>1, <3>1, <4>1 DEF Listeners, Server!Listed
    <3>2. CASE event.channel # "telemetry"
      <4>1. g \in Server!Listed("alerts") /\ event.channel = "alerts"
            BY <1>2, <2>1, <3>2 DEF Server!Listed, ServerInv, Announcing
      <4>2. Listeners' = Listeners
            BY <2>1, <3>2 DEF Listeners, Server!Listed
      <4> QED BY <1>2, <4>1, <4>2 DEF ListsInv, Listeners
    <3> QED BY <3>1, <3>2
  <2> QED BY <1>3, <1>4, <2>1, <2>2
<1>12. Gone
       BY <1>5, <1>6, <1>7, <1>8, <1>9, <1>10, <1>11 DEF Serve
<1> QED BY <1>1, <1>12, SameRecords

\* A call of Ingest, a step within it or its return sends nothing; the record
\* that it proves is still to be told.
LEMMA IngestSilent ==
  ASSUME Facts, EventInv, Facts', IngestCalled \/ InIngest \/ IngestReturns
  PROVE  Silent
<1>1. /\ ServerInv /\ ServiceInv /\ ServiceInv' /\ HandInv /\ HandInv' /\ ListsInv
      BY DEF Facts, Known, GInv
<1>2. /\ UNCHANGED <<fds, wsClients, todo, active, request, frames, known, heard>> /\ pc = "read"
      /\ UNCHANGED pc \/ pc' = "publish"
  <2>1. CASE IngestCalled \/ InIngest
    <3>1. UNCHANGED server /\ UNCHANGED <<known, heard>>
          BY <2>1 DEF IngestCalled, InIngest, route
    <3>2. pc = "read"
      <4>1. CASE IngestCalled
            BY <4>1 DEF IngestCalled, Server!At
      <4>2. CASE InIngest
            BY <1>1, <4>2, InIngestDoes DEF HandInv
      <4> QED BY <2>1, <4>1, <4>2
    <3> QED BY <3>1, <3>2 DEF server
  <2>2. CASE IngestReturns
        BY <2>2 DEF IngestReturns, Server!Ingest, Server!At, Server!outside, Server!history
  <2> QED BY <2>1, <2>2
<1>3. /\ Listeners' = Listeners /\ Listeners = wsClients["telemetry"]
      /\ todo = {} /\ result = None
  <2>1. Listeners' = Listeners /\ Listeners = wsClients["telemetry"]
        BY <1>2 DEF Listeners, Server!Listed
  <2> QED BY <1>1, <1>2, <2>1 DEF ListsInv, HandInv, Announcing
<1>4. /\ \A f \in Fds : Untold(f) = IF place[Thread] = "accept" THEN {recordId[Thread]} ELSE {}
      BY <1>3 DEF Untold
<1>5. CASE IngestCalled
  <2>1. /\ UNCHANGED <<rows, seq>> /\ result' = None
        /\ place[Thread] # "accept" /\ place'[Thread] # "accept"
        BY <1>1, <1>3, <1>5 DEF IngestCalled, Service!Ingest, Service!From, Service!store, ServiceInv, route
  <2>2. \A f \in Fds : Untold(f)' = Untold(f)
        BY <1>4, <2>1 DEF Untold
  <2>3. Listeners \subseteq Fds
        BY <1>1, <1>3 DEF ServerInv
  <2> QED BY <1>2, <1>3, <2>1, <2>2, <2>3, SameRecords
<1>6. CASE InIngest
  <2>1. /\ place[Thread] # "accept" /\ seq <= seq'
        /\ IF place'[Thread] = "accept"
           THEN /\ Service!Proved' = Service!Proved \cup {recordId[Thread]}
                /\ recordId' = recordId /\ recordId[Thread] \notin Service!Proved
           ELSE Service!Proved' = Service!Proved
        /\ \A id \in Service!Proved : rows'[id] = rows[id]
        BY <1>1, <1>6, InIngestDoes
  <2>2. \A f \in Fds : /\ Untold(f) = {}
                       /\ Untold(f)' = IF place'[Thread] = "accept" THEN {recordId[Thread]} ELSE {}
        BY <1>3, <1>4, <1>6, <2>1 DEF Untold, InIngest, route
  <2>3. Listeners \subseteq Fds
        BY <1>1, <1>3 DEF ServerInv
  <2>4. seq \in 0..seq'
        BY <1>1, <2>1 DEF ServiceInv
  <2> QED BY <1>2, <1>3, <2>1, <2>2, <2>3, <2>4 DEF Silent
<1>7. CASE IngestReturns
  <2>1. /\ place[Thread] \in {"accept", "reject"} /\ Idle' /\ pc' = "publish"
        /\ result'.recordId = recordId[Thread]
        /\ result'.accepted <=> place[Thread] = "accept"
        /\ UNCHANGED <<rows, seq>>
        BY <1>1, <1>7 DEF IngestReturns, Service!FinishWith, Service!From, Service!IngestResult,
           Service!store, Idle, ServiceInv, Server!Ingest
  <2>2. result' # None
        BY <1>1, <2>1 DEF HandInv, Announcing
  <2>3. \A f \in Fds : Untold(f)' = Untold(f)
        BY <1>4, <2>1, <2>2 DEF Untold, Idle
  <2>4. Listeners \subseteq Fds
        BY <1>1, <1>3 DEF ServerInv
  <2> QED BY <1>2, <1>3, <2>1, <2>3, <2>4, SameRecords
<1> QED BY <1>5, <1>6, <1>7

\* Nor does an answer, an exception, a signal or the end of the process.
LEMMA EndSilent ==
  ASSUME Facts, EventInv, Respond \/ IngestThrows \/ HandleSignal \/ Restart
  PROVE  Silent
<1>1. ServerInv /\ ServiceInv /\ HandInv /\ ListsInv
      BY DEF Facts, Known, GInv
<1>2. UNCHANGED <<rows, seq, known, heard, request, frames>>
      BY DEF Respond, IngestThrows, HandleSignal, Restart, Server!Respond, Server!StorageThrows,
         Server!Exit, Server!HandleSignal, Server!Restart, Server!history, Server!outside,
         Service!SaveThrows, Service!Repo!SqlFault, Service!Repo!repository, Service!Restart,
         Service!store, service, route
<1>3. CASE Respond
  <2>1. /\ pc = "respond" /\ pc' = "loop" /\ UNCHANGED <<wsClients, todo, place>> /\ result' = None
        /\ \A f \in Fds \ {current} : fds'[f] = fds[f]
        BY <1>3 DEF Respond, Server!Respond, Server!At, Server!CloseCurrent, Server!Close, service
  <2>2. Listeners' = Listeners
        BY <2>1 DEF Listeners, Server!Listed
  <2>3. \A f \in Listeners : f \in Fds /\ f # current
    <3>1. \A f \in Listeners : f \in Fds /\ joined[fds[f]] # None
          BY <1>1 DEF ListsInv, Listeners
    <3> QED BY <1>1, <2>1, <3>1 DEF ListsInv, ServerInv, Announcing, Peer, Server!Peer
  <2>4. Idle /\ todo = {}
        BY <1>1, <2>1 DEF HandInv, ListsInv
  <2>5. \A f \in Fds : Untold(f)' = Untold(f)
        BY <2>1, <2>4 DEF Untold, Idle
  <2> QED BY <1>2, <2>1, <2>2, <2>3, <2>5, SameRecords
<1>4. CASE IngestThrows \/ Restart
  <2>1. /\ pc' \in {"failed", "start"}
        /\ wsClients' = [ch \in {"telemetry", "alerts"} |-> {}]
        BY <1>4 DEF IngestThrows, Restart, Server!StorageThrows, Server!Restart, Server!Exit,
           Server!Channels
  <2>2. Listeners' = {}
        BY <2>1 DEF Listeners, Server!Listed
  <2> QED BY <1>2, <2>2, SameRecords
<1>5. CASE HandleSignal
  <2>1. UNCHANGED <<pc, todo, active, event, place, recordId, result>>
        BY <1>5 DEF HandleSignal, Server!HandleSignal, Server!broadcast, service, route
  <2>2. CASE Server!Holding
    <3>1. UNCHANGED <<fds, wsClients>>
          BY <1>5, <2>2 DEF HandleSignal, Server!HandleSignal, Server!Stop
    <3>2. Listeners' = Listeners /\ \A f \in Listeners : Untold(f)' = Untold(f)
          BY <2>1, <3>1 DEF Listeners, Server!Listed, Untold
    <3> QED BY <1>2, <3>1, <3>2, SameRecords
  <2>3. CASE ~Server!Holding
    <3>1. wsClients' = [ch \in {"telemetry", "alerts"} |-> {}] /\ pc # "broadcast"
          BY <1>5, <2>3 DEF HandleSignal, Server!HandleSignal, Server!Stop, Server!Holding,
             Server!Channels
    <3>2. Listeners' = {}
          BY <2>1, <3>1 DEF Listeners, Server!Listed
    <3> QED BY <1>2, <3>2, SameRecords
  <2> QED BY <2>2, <2>3
<1> QED BY <1>3, <1>4, <1>5

\* Nor do the clients and the node.
LEMMA OutsideSilent ==
  ASSUME Facts, EventInv, Mine \/ UNCHANGED vars \/ \E c \in Clients : Connect(c) \/ Ask(c) \/ Leave(c)
  PROVE  Silent
<1>1. /\ UNCHANGED <<rows, seq, known, heard, frames>>
      /\ UNCHANGED <<pc, fds, wsClients, todo, active, event, place, recordId, result>>
      BY DEF Mine, Connect, Ask, Leave, Service!Mine, Service!store, Service!locals, vars,
         Server!Connect, Server!Ask, Server!Leave, Server!process, Server!broadcast,
         Server!history, server, service, route
<1>2. \A c \in Clients : request[c] = None \/ request'[c] = request[c]
  <2>1. CASE Mine \/ UNCHANGED vars \/ \E c \in Clients : Connect(c) \/ Leave(c)
    <3>1. request' = request
          BY <2>1 DEF Mine, Connect, Leave, vars, server, Server!Connect, Server!Leave
    <3> QED BY <3>1
  <2>2. ASSUME NEW c \in Clients, Ask(c)
        PROVE  \A d \in Clients : request[d] = None \/ request'[d] = request[d]
    <3>1. client[c] = "silent" /\ \E r \in Requests : request' = [request EXCEPT ![c] = r]
          BY <2>2 DEF Ask, Server!Ask
    <3>2. request[c] = None /\ request = [d \in Clients |-> request[d]]
          BY <3>1 DEF Facts, Known, ServerInv
    <3> QED BY <3>1, <3>2
  <2> QED BY <2>1, <2>2
<1>3. Listeners' = Listeners /\ \A f \in Listeners : Untold(f)' = Untold(f)
      BY <1>1 DEF Listeners, Server!Listed, Untold
<1> QED BY <1>1, <1>2, <1>3, SameRecords

\* The client that is added knows what it reads at that moment.
LEMMA PushTells ==
  ASSUME Facts, EventInv, Push
  PROVE  EventInv'
<1>1. /\ ServerInv /\ ServiceInv /\ HandInv /\ ListsInv
      BY DEF Facts, Known, GInv
<1>2. /\ pc = "push" /\ pc' = "loop"
      /\ wsClients' = [wsClients EXCEPT ![request[Peer]] = @ \cup {current}]
      /\ known' = [known EXCEPT ![Peer] = Service!Proved]
      /\ UNCHANGED <<fds, todo, request, frames, heard, rows, seq, place, result>>
      BY DEF Push, Server!Push, Server!At, Server!broadcast, Server!outside, service, Peer
<1>3. /\ current \in Fds /\ Peer \in Clients /\ fds[current] = Peer /\ joined[Peer] = None
      /\ request[Peer] \in {"telemetry", "alerts"} /\ Idle /\ result = None /\ todo = {}
  <2>1. current # None
        BY <1>1, <1>2 DEF ServerInv
  <2> QED BY <1>1, <1>2, <2>1 DEF ServerInv, ListsInv, HandInv, Announcing, Peer, Server!Peer
<1>4. heard[Peer] = {} /\ Service!Proved \subseteq 1..seq
      BY <1>1, <1>3, HeardNothing DEF ServiceInv, Service!Proved
<1>5. \A f \in Fds : Untold(f) = {} /\ Untold(f)' = {}
      BY <1>2, <1>3 DEF Untold, Idle
<1>6. Service!Proved' = Service!Proved
      BY <1>2 DEF Service!Proved
<1>7. \A c \in Clients : known'[c] = IF c = Peer THEN Service!Proved ELSE known[c]
      BY <1>2, <1>3 DEF EventInv
<1>8. known' \in [Clients -> SUBSET (1..seq')] /\ heard' = [c \in Clients |-> heard'[c]]
      BY <1>2, <1>3, <1>4 DEF EventInv
<1>9. ASSUME NEW c \in Clients
      PROVE  /\ \A e \in heard'[c] : e.recordId \in Service!Proved' \ known'[c] /\ IsStored(e)'
             /\ IF request'[c] = "telemetry"
                THEN IsFiniteSet(heard'[c]) /\ Cardinality(heard'[c]) = Len(frames'[c])
                ELSE heard'[c] = {}
      BY <1>2, <1>4, <1>6, <1>7 DEF EventInv, IsStored
<1>10. ASSUME NEW f \in Listeners'
       PROVE  /\ Untold(f)' \subseteq Service!Proved'
              /\ Service!Proved' \ Untold(f)' = known'[fds'[f]] \cup Told(fds[f])'
  <2>1. f \in Listeners \/ f = current
        BY <1>1, <1>2, <1>3, <1>10 DEF Listeners, Server!Listed, ServerInv
  <2>2. CASE f = current
        BY <1>2, <1>3, <1>4, <1>5, <1>6, <1>7, <2>2 DEF Told
  <2>3. CASE f \in Listeners
    <3>1. f \in Fds /\ fds[f] \in Clients /\ fds[f] # Peer
          BY <1>1, <1>3, <2>3 DEF ListsInv, Listeners
    <3>2. Told(fds[f])' = Told(fds[f])
          BY <1>2 DEF Told
    <3> QED BY <1>2, <1>5, <1>6, <1>7, <2>3, <3>1, <3>2 DEF EventInv
  <2> QED BY <2>1, <2>2, <2>3
<1> QED BY <1>8, <1>9, <1>10 DEF EventInv

\* A frame of an accepted packet tells its subscriber of a record that it did
\* not know, the one that it lacked.
LEMMA SendFrameTells ==
  ASSUME Facts, EventInv, NEW f \in Fds, SendFrame(f)
  PROVE  EventInv'
<1>1. /\ ServerInv /\ ServiceInv /\ HandInv /\ ListsInv
      BY DEF Facts, Known, GInv
<1>2. /\ pc = "broadcast" /\ pc' = "broadcast" /\ f \in todo
      /\ todo' = todo \ {f} /\ active' = active \cup {f}
      /\ frames' = [frames EXCEPT ![fds[f]] = Append(@, event.from)]
      /\ UNCHANGED <<fds, wsClients, event, request, known, rows, seq, place, recordId, result>>
      BY DEF SendFrame, Server!SendFrame, Server!At, Server!process, Server!outside, service
<1>3. /\ Idle /\ result # None /\ result \in answers /\ result.packet = posts[Peer]
      /\ event.channel = IF result.accepted THEN "telemetry" ELSE "alerts"
      /\ event.from \in Clients
      BY <1>1, <1>2 DEF HandInv, Announcing, ServerInv
<1>4. /\ fds[f] \in Clients /\ request[fds[f]] = event.channel
      /\ f \in Server!Listed(event.channel)
      BY <1>1, <1>2, <1>3 DEF ListsInv, Server!Listed
<1>5. Listeners' = Listeners /\ \A g \in Listeners \ {f} : fds[g] # fds[f]
  <2>1. Listeners' = Listeners
        BY <1>2 DEF Listeners, Server!Listed
  <2>2. \A g \in Listeners : g \in Fds /\ fds[g] \in Clients
        BY <1>1 DEF ListsInv, Listeners
  <2> QED BY <1>1, <2>1, <2>2, ServerAssumption DEF ListsInv
<1>6. Service!Proved' = Service!Proved
      BY <1>2 DEF Service!Proved
<1>7. \A c \in Clients \ {fds[f]} : frames'[c] = frames[c]
      BY <1>1, <1>2 DEF ListsInv
<1>8. Len(frames'[fds[f]]) = Len(frames[fds[f]]) + 1
      BY <1>1, <1>2, <1>3, <1>4 DEF ListsInv
<1>9. CASE ~result.accepted
  <2>1. heard' = heard /\ \A g \in Fds : Untold(g) = {} /\ Untold(g)' = {}
        BY <1>2, <1>3, <1>9 DEF SendFrame, Untold, Idle
  <2>2. Listeners \subseteq Fds
        BY <1>1 DEF ListsInv, Listeners
  <2>3. known' \in [Clients -> SUBSET (1..seq')] /\ heard' = [c \in Clients |-> heard'[c]]
        BY <1>2, <2>1 DEF EventInv
  <2>4. ASSUME NEW c \in Clients
        PROVE  /\ \A e \in heard'[c] : e.recordId \in Service!Proved' \ known'[c] /\ IsStored(e)'
               /\ IF request'[c] = "telemetry"
                  THEN IsFiniteSet(heard'[c]) /\ Cardinality(heard'[c]) = Len(frames'[c])
                  ELSE heard'[c] = {}
        BY <1>2, <1>3, <1>4, <1>6, <1>7, <1>9, <2>1 DEF EventInv, IsStored
  <2>5. ASSUME NEW g \in Listeners'
        PROVE  /\ Untold(g)' \subseteq Service!Proved'
               /\ Service!Proved' \ Untold(g)' = known'[fds'[g]] \cup Told(fds[g])'
        BY <1>2, <1>5, <1>6, <2>1, <2>2, <2>5 DEF EventInv, Told
  <2> QED BY <2>3, <2>4, <2>5 DEF EventInv
<1>10. CASE result.accepted
  <2>1. PICK e : e = TelemetryEvent
        OBVIOUS
  <2>2. e.recordId = result.recordId /\ IsStored(e)
    <3>1. rows[result.recordId] = [packet |-> result.packet, receipt |-> result.receipt]
          BY <1>1, <1>3, <1>10 DEF ServiceInv
    <3> QED BY <1>3, <2>1, <3>1 DEF TelemetryEvent, IsStored, Peer
  <2>3. /\ f \in Listeners /\ request[fds[f]] = "telemetry"
        /\ Untold(f) = {e.recordId} /\ Untold(f)' = {}
        BY <1>2, <1>3, <1>4, <1>10, <2>2 DEF Listeners, Untold, Idle
  <2>4. /\ e.recordId \in Service!Proved /\ e.recordId \notin known[fds[f]]
        /\ e.recordId \notin Told(fds[f]) /\ e \notin heard[fds[f]]
    <3>1. /\ {e.recordId} \subseteq Service!Proved
          /\ Service!Proved \ {e.recordId} = known[fds[f]] \cup Told(fds[f])
          BY <2>3 DEF EventInv
    <3> QED BY <3>1 DEF Told
  <2>5. /\ heard'[fds[f]] = heard[fds[f]] \cup {e}
        /\ \A c \in Clients \ {fds[f]} : heard'[c] = heard[c]
        /\ heard' = [c \in Clients |-> heard'[c]]
        BY <1>4, <1>10, <2>1 DEF SendFrame, EventInv
  <2>6. /\ IsFiniteSet(heard'[fds[f]])
        /\ Cardinality(heard'[fds[f]]) = Len(frames'[fds[f]])
    <3>1. IsFiniteSet(heard[fds[f]]) /\ Cardinality(heard[fds[f]]) = Len(frames[fds[f]])
          BY <1>4, <2>3 DEF EventInv
    <3>2. /\ IsFiniteSet(heard[fds[f]] \cup {e})
          /\ Cardinality(heard[fds[f]] \cup {e}) = Cardinality(heard[fds[f]]) + 1
          BY <2>4, <3>1, FS_AddElement
    <3> QED BY <1>8, <2>5, <3>1, <3>2
  <2>7. ASSUME NEW c \in Clients
        PROVE  /\ \A x \in heard'[c] : x.recordId \in Service!Proved' \ known'[c] /\ IsStored(x)'
               /\ IF request'[c] = "telemetry"
                  THEN IsFiniteSet(heard'[c]) /\ Cardinality(heard'[c]) = Len(frames'[c])
                  ELSE heard'[c] = {}
    <3>1. \A x : IsStored(x)' <=> IsStored(x)
          BY <1>2 DEF IsStored
    <3>2. CASE c = fds[f]
          BY <1>2, <1>6, <2>2, <2>3, <2>4, <2>5, <2>6, <3>1, <3>2 DEF EventInv
    <3>3. CASE c # fds[f]
          BY <1>2, <1>6, <1>7, <2>5, <3>1, <3>3 DEF EventInv
    <3> QED BY <3>2, <3>3
  <2>8. ASSUME NEW g \in Listeners'
        PROVE  /\ Untold(g)' \subseteq Service!Proved'
               /\ Service!Proved' \ Untold(g)' = known'[fds'[g]] \cup Told(fds[g])'
    <3>1. g \in Listeners /\ g \in Fds /\ fds[g] \in Clients
          BY <1>1, <1>5, <2>8 DEF ListsInv, Listeners
    <3>2. CASE g = f
      <4>1. Told(fds[f])' = Told(fds[f]) \cup {e.recordId}
            BY <1>2, <2>5 DEF Told
      <4>2. Service!Proved = known[fds[f]] \cup Told(fds[f]) \cup {e.recordId}
            BY <2>3, <2>4 DEF EventInv
      <4> QED BY <1>2, <1>6, <2>3, <3>2, <4>1, <4>2
    <3>3. CASE g # f
      <4>1. Told(fds[g])' = Told(fds[g])
            BY <1>2, <1>5, <2>5, <3>1, <3>3 DEF Told
      <4>2. Untold(g)' = Untold(g)
            BY <1>2, <3>3 DEF Untold
      <4> QED BY <1>2, <1>6, <3>1, <4>1, <4>2 DEF EventInv
    <3> QED BY <3>2, <3>3
  <2>9. known' \in [Clients -> SUBSET (1..seq')]
        BY <1>2 DEF EventInv
  <2> QED BY <2>5, <2>7, <2>8, <2>9 DEF EventInv
<1> QED BY <1>9, <1>10

\* Every step keeps what the subscribers know.
LEMMA EventInvNext ==
  ASSUME Facts, EventInv, Facts', [Next]_vars
  PROVE  EventInv'
<1>1. seq' \in Nat
      BY DEF Facts, Known, ServiceInv
<1>2. CASE \/ Serve \/ IngestCalled \/ InIngest \/ IngestReturns \/ IngestThrows \/ Respond
           \/ HandleSignal \/ Restart \/ Mine \/ UNCHANGED vars
           \/ \E c \in Clients : Connect(c) \/ Ask(c) \/ Leave(c)
  <2>1. Silent
        BY <1>2, ServeSilent, IngestSilent, EndSilent, OutsideSilent
  <2> QED BY <1>1, <2>1, SilentKeeps DEF Facts
<1>3. CASE Push \/ \E f \in Fds : SendFrame(f)
      BY <1>3, PushTells, SendFrameTells
<1> QED BY <1>2, <1>3 DEF Next, Work

\* At the start there is no subscriber and no record.
LEMMA EventInvInit == Init => EventInv
<1> SUFFICES ASSUME Init PROVE EventInv
    OBVIOUS
<1>1. /\ pc = "start" /\ request = [c \in Clients |-> None] /\ wsClients["telemetry"] = {}
      /\ known = [c \in Clients |-> {}] /\ heard = [c \in Clients |-> {}]
      BY DEF Init, Server!Init, Server!Channels
<1>2. Listeners = {}
      BY <1>1 DEF Listeners, Server!Listed
<1>3. "telemetry" # None
      BY ServerAssumption DEF Server!Kinds, Server!Channels
<1> QED BY <1>1, <1>2, <1>3 DEF EventInv

\* So it is known at every moment.
LEMMA AlwaysEvents == Spec => [](Facts /\ EventInv)
<1>1. Init => ServerProofs!Init
      BY SameServerInit DEF Init
<1>2. [Next]_vars => [ServerProofs!Next]_(ServerProofs!vars)
      BY ServerStep, SameServerStep
<1>3. /\ ServerProofs!RequestsAssumption /\ ServerProofs!SignalsAssumption
      /\ ServerProofs!NoneAssumption
      BY ServerAssumes
<1>4. ServerProofs!Spec => []ServerProofs!IInv
      BY <1>3, ServerProofs!Invariance
<1>5. Known /\ ListsInv <=> Facts
      BY DEF Facts
<1> QED
  BY <1>1, <1>2, <1>4, <1>5, ListsFacts, AlwaysKnown, EventInvInit, EventInvNext, PTL
  DEF Spec, ServerProofs!Spec

\* Types of what the gateway adds to its components: a result is in hand
\* exactly while it is announced and answered, no reply is invented, and
\* subscribers know of records that there are.
THEOREM TypeCorrect == Spec => []TypeOK
<1>1. Facts /\ EventInv => TypeOK
  <2> SUFFICES ASSUME Facts, EventInv PROVE TypeOK
      OBVIOUS
  <2>1. ServiceInv /\ HandInv /\ AnswerInv
        BY DEF Facts, Known, GInv
  <2>2. result # None <=> pc \in {"publish", "broadcast", "respond"}
        BY <2>1 DEF HandInv, Announcing
  <2>3. \A r \in {result} \cup {replies[c] : c \in Clients} : r = None \/ r \in answers
        BY <2>1 DEF HandInv, AnswerInv
  <2>4. \A c \in Clients : {e.recordId : e \in heard[c]} \subseteq 1..seq
        BY <2>1 DEF EventInv, ServiceInv, Service!Proved
  <2> QED BY <2>2, <2>3, <2>4 DEF TypeOK, EventInv
<1> QED BY <1>1, AlwaysEvents, PTL

\* A subscriber of /ws/telemetry that reads the records when it is added knows
\* by its frames, one for each record and true of it, every proved record while
\* it is listed, but for one that is being announced; what it heard stays true
\* when it is dropped or the process ends (http_server.cpp:451-457, :463-475).
THEOREM EventsRebuildStorage == Spec => []EventsMatchStorage
<1>1. Facts /\ EventInv => EventsMatchStorage
  <2> SUFFICES ASSUME Facts, EventInv, NEW c \in Clients
               PROVE  /\ \A e \in heard[c] : e.recordId \in Service!Proved \ known[c] /\ IsStored(e)
                      /\ request[c] = "telemetry" => Cardinality(heard[c]) = Len(frames[c])
                      /\ \A f \in Listeners : fds[f] = c =>
                            Service!Proved = known[c] \cup Told(c) \cup Untold(f)
      BY DEF EventsMatchStorage, Listeners, Told
  <2>1. \A e \in heard[c] : e.recordId \in Service!Proved \ known[c] /\ IsStored(e)
        BY DEF EventInv
  <2>2. request[c] = "telemetry" => Cardinality(heard[c]) = Len(frames[c])
        BY DEF EventInv
  <2>3. ASSUME NEW f \in Listeners, fds[f] = c
        PROVE  Service!Proved = known[c] \cup Told(c) \cup Untold(f)
        BY <2>3 DEF EventInv
  <2> QED BY <2>1, <2>2, <2>3
<1> QED BY <1>1, AlwaysEvents, PTL

\* What a device was told stays true of the database, also when the process
\* dies and starts again, and no two are told of the same record (Route,
\* http_server.cpp:518-530).
THEOREM RepliesStayTrue == Spec => []RepliesAreTrue
<1>1. Known => RepliesAreTrue
  <2> SUFFICES ASSUME Known PROVE RepliesAreTrue
      OBVIOUS
  <2>1. ServiceInv /\ AnswerInv /\ NamedOnce
        BY DEF Known, GInv
  <2>2. ASSUME NEW c \in Clients, replies[c] # None
        PROVE  /\ answer[c] = IF replies[c].accepted THEN "202" ELSE "400"
               /\ IF replies[c].accepted
                  THEN /\ replies[c].recordId \in DOMAIN rows
                       /\ rows[replies[c].recordId] =
                              [packet |-> posts[c], receipt |-> replies[c].receipt]
                  ELSE replies[c].recordId \notin Service!Proved
    <3>1. replies[c] \in answers /\ replies[c].packet = posts[c]
          BY <2>1, <2>2 DEF AnswerInv
    <3>2. answer[c] = IF replies[c].accepted THEN "202" ELSE "400"
          BY <2>1, <2>2 DEF AnswerInv
    <3> QED BY <2>1, <3>1, <3>2 DEF ServiceInv
  <2>3. ASSUME NEW c \in Clients, NEW d \in Clients, c # d, answer[c] = "202", answer[d] = "202"
        PROVE  replies[c].recordId # replies[d].recordId
    <3>1. Accepted(replies[c]) /\ Accepted(replies[d])
          BY <2>1, <2>3 DEF AnswerInv, Accepted
    <3> QED BY <2>1, <2>3, <3>1 DEF NamedOnce
  <2> QED BY <2>2, <2>3 DEF RepliesAreTrue
<1> QED BY <1>1, AlwaysKnown, PTL

\* A packet has one proved record, and one more for each attempt whose answer
\* was lost at most (ingest_service.cpp:67): of the attempts that it was spent
\* on, all but one are lost.
THEOREM OnlyResendsDuplicate == Spec => []DuplicatesAreResends
<1>1. Known => DuplicatesAreResends
  <2> SUFFICES ASSUME Known, NEW p \in Packets
               PROVE  Cardinality(ProvedOf(p)) <=
                         1 + Cardinality({c \in Clients : posts[c] = p /\ request[c] = "ingest" /\ Lost(c)})
      BY DEF DuplicatesAreResends, ProvedOf
  <2> DEFINE resent == {c \in Clients : posts[c] = p /\ request[c] = "ingest" /\ Lost(c)}
  <2>1. ServerInv /\ ServiceInv /\ HandInv /\ AnswerInv /\ AttemptInv
        BY DEF Known, GInv
  <2>2. IsFiniteSet(resent) /\ IsFiniteSet(Spent(p)) /\ IsFiniteSet(ProvedOf(p))
        BY <2>1, ClientsAssumption, FS_Subset, ProvedIsFinite DEF Spent
  <2>3. ASSUME NEW c \in Spent(p) PROVE c \in Clients /\ posts[c] = p /\ client[c] # "away" /\ (Over(c) => Lost(c))
    <3>1. CASE Served(c)
          BY <2>3, <3>1 DEF Spent, Served, Over
    <3>2. CASE Attached(c)
      <4>1. pc \in {"read"} \cup Announcing
            BY <2>1, <3>2 DEF Attached, Accepted, HandInv, Idle
      <4>2. client[c] # "away" /\ answer[c] = None
            BY <2>1, <3>2, <4>1, InHand DEF Attached
      <4> QED BY <2>3, <4>2, NamesAreSome DEF Spent, Over
    <3> QED BY <2>3, <3>1, <3>2 DEF Spent
  <2>4. ASSUME NEW c \in Spent(p) \ resent, NEW d \in Spent(p) \ resent PROVE c = d
    <3>1. ~Over(c) /\ ~Over(d) /\ posts[c] = p /\ posts[d] = p /\ p # None
          BY <2>3, ServiceAssumption DEF Spent
    <3> QED BY <2>1, <2>3, <3>1 DEF AttemptInv
  <2>5. Cardinality(Spent(p)) <= 1 + Cardinality(resent)
    <3> HIDE DEF resent
    <3>1. CASE Spent(p) \subseteq resent
          BY <2>2, <3>1, FS_Subset, FS_CardinalityType
    <3>2. ASSUME NEW c \in Spent(p) \ resent PROVE Cardinality(Spent(p)) <= 1 + Cardinality(resent)
      <4>1. Spent(p) \subseteq resent \cup {c}
            BY <2>4, <3>2
      <4>2. /\ IsFiniteSet(resent \cup {c})
            /\ Cardinality(resent \cup {c}) = Cardinality(resent) + 1
            BY <2>2, <3>2, FS_AddElement
      <4> QED BY <2>2, <4>1, <4>2, FS_Subset, FS_CardinalityType
    <3> QED BY <3>1, <3>2
  <2>6. Cardinality(ProvedOf(p)) <= Cardinality(Spent(p))
        BY <2>1 DEF AttemptInv
  <2> QED BY <2>2, <2>5, <2>6, FS_CardinalityType
<1> QED BY <1>1, AlwaysKnown, PTL
===============================================================================
