------------------------------- MODULE Gateway -------------------------------
(***************************************************************************)
(* agri_gateway: the one thread of HttpServer calls IngestService, answers *)
(* and announces what it returned, and dies with the process at any step.  *)
(* Each step is one of HttpServer, one of IngestService, or one of both at *)
(* once: the call, its return and the exception that it lets out.          *)
(*                                                                         *)
(* Devices are external.  Each client is one attempt of a device to send   *)
(* its packet; the device makes the next one when an answer did not come   *)
(* or rejected the packet, also while the lost attempt is still served.    *)
(***************************************************************************)
EXTENDS Integers, Sequences, FiniteSets

CONSTANTS
    Clients, Requests, Fds, Signals,            \* of HttpServer
    Packets, LoadedKeys, Heights, Nonces, Mock, SqlCanFail,  \* of IngestService
    MaxRestarts, None,                          \* of both
    Purposes,       \* what the clients may be here for: see posts
    Thread          \* the thread of agri_gateway

VARIABLES
    pc, running, listening, fds, current, wsClients, event, todo, active, handler,
    signals, backlog, client, request, stopAsked, answer, log, joined, frames,
    rows, seq, chain, nonce, tx, place, packet, recordId, receipt, rollbackFailed,
    metrics, answers, abandoned, provedAtStart, uncounted, requests,
    restarts,       \* of both
    posts,          \* posts[c]: the packet that c sends, None if it ingests nothing
    result,         \* in Route: what Ingest returned
    \* history
    replies,        \* the result that was sent to a client
    known,          \* known[c]: records with a proof when c was added to a list
    heard           \* heard[c]: what the frames of /ws/telemetry told c

MaxRequests == Cardinality(Clients)             \* each of them asks once

Server  == INSTANCE HttpServer
Service == INSTANCE IngestService WITH Callers <- {Thread}, pc <- place

ASSUME ClientsAssumption == IsFiniteSet(Clients)
ASSUME PurposesAssumption == Purposes \subseteq [Clients -> Packets \cup {None}]
\* What HttpServer and IngestService assume of their constants.
ASSUME ServerAssumption ==
    /\ Requests \subseteq Server!Kinds
    /\ Signals \in Nat /\ MaxRestarts \in Nat
    /\ None \notin Clients \cup Fds
    /\ None \notin Nat
    /\ None \notin Server!Kinds \cup Server!Statuses
    /\ None \notin [channel : Server!Channels, from : Clients]
ASSUME ServiceAssumption ==
    /\ Nonces \subseteq Nat
    /\ None \notin Packets
    /\ None \notin (Service!Hashes \X Nonces) \cup {<<>>}
    /\ None \notin Service!Receipts
ASSUME ResultAssumption ==
    None \notin [accepted : BOOLEAN, packet : Packets, recordId : Nat,
                 receipt : Service!Receipts \cup {None}, rollbackFailed : BOOLEAN]

\* Both have restarts: a step of the one takes the other's too.
server  == <<pc, running, listening, fds, current, wsClients, event, todo, active, handler,
             signals, backlog, client, request, stopAsked, restarts, answer, log, joined,
             frames>>
service == <<rows, seq, chain, nonce, tx, place, packet, recordId, receipt, rollbackFailed,
             metrics, answers, abandoned, provedAtStart, uncounted, requests, restarts>>
route   == <<posts, result, replies, known, heard>>
vars    == <<server, service, route>>

Init ==
    /\ Server!Init /\ Service!Init
    /\ posts \in Purposes
    /\ result = None
    /\ replies = [c \in Clients |-> None]
    /\ known = [c \in Clients |-> {}]
    /\ heard = [c \in Clients |-> {}]

Peer == Server!Peer
Idle == place[Thread] = "idle"

\* The body of a telemetry event.
TelemetryEvent ==
    [recordId |-> result.recordId, deviceId |-> posts[Peer].deviceId,
     timestamp |-> posts[Peer].timestamp, txHash |-> result.receipt.txHash]

\* Mistakes in the steps below; each breaks one of the properties.
ReturnUnlessGone ==                     \* no event for a client that left
    /\ Server!At("read") /\ request[Peer] = "ingest"
    /\ Service!FinishWith(Thread)
    /\ result' = Service!IngestResult(Thread)
    /\ event' = [channel |-> IF result'.accepted THEN "telemetry" ELSE "alerts",
                 from |-> Peer]
    /\ pc' = IF client[Peer] = "gone" THEN "respond" ELSE "publish"
    /\ UNCHANGED <<running, listening, fds, current, wsClients, todo, active, handler,
                   signals, backlog, client, request, stopAsked, restarts, answer, log,
                   joined, frames, posts, replies, known, heard>>

ReturnMined ==                          \* not accepted before it is in a block
    /\ Server!Ingest
    /\ Service!FinishWith(Thread)
    /\ result' = Service!IngestResult(Thread)
    /\ event'.channel = IF result'.accepted /\ result'.receipt.blockHeight # 0
                        THEN "telemetry" ELSE "alerts"
    /\ UNCHANGED <<posts, replies, known, heard>>

-----------------------------------------------------------------------------
(* The thread *)

\* What it does outside of Ingest.
Serve ==
    /\ Idle
    /\ \/ Server!Socket \/ Server!Listen \/ Server!StartThrows \/ Server!SetRunning
       \/ Server!LoopEnds
       \/ Server!StorageThrows /\ request[Peer] = "query"
       \/ Server!ReadNothing \/ Server!Route \/ Server!RefuseUpgrade
       \/ Server!Upgrade \/ Server!UpgradeFails \/ Server!LockToPush
       \/ Server!LockToBroadcast \/ Server!SwapClients
       \/ \E f \in Fds : Server!Accept(f) \/ Server!SendFrameFails(f)
    /\ UNCHANGED <<service, route>>

IngestCalled ==
    /\ Server!At("read") /\ request[Peer] = "ingest"
    /\ \E p \in Packets : posts[Peer] = p /\ Service!Ingest(Thread, p)
    /\ UNCHANGED <<server, route>>

InIngest ==
    /\ \/ Service!Save(Thread)
       \/ Service!NodeTakesTx(Thread) \/ Service!SubmitHash(Thread)
       \/ Service!SubmitHashThrows(Thread)
       \/ Service!AttachReceipt(Thread) \/ Service!AttachReceiptFails(Thread)
       \/ Service!Rollback(Thread)
    /\ UNCHANGED <<server, route>>

IngestReturns ==
    /\ Server!Ingest
    /\ Service!FinishWith(Thread)
    /\ result' = Service!IngestResult(Thread)
    /\ event'.channel = IF result'.accepted THEN "telemetry" ELSE "alerts"
    /\ UNCHANGED <<posts, replies, known, heard>>

\* The exception of Save leaves Ingest, Route and Start.
IngestThrows ==
    /\ Server!StorageThrows /\ Service!SaveThrows(Thread)
    /\ UNCHANGED route

Push ==
    /\ Server!Push
    /\ known' = [known EXCEPT ![Peer] = Service!Proved]
    /\ UNCHANGED <<service, posts, result, replies, heard>>

\* A frame of /ws/telemetry tells of an accepted packet's record; one of
\* /ws/alerts names none.
SendFrame(f) ==
    /\ Server!SendFrame(f)
    /\ heard' = IF result.accepted
                THEN [heard EXCEPT ![fds[f]] = @ \cup {TelemetryEvent}] ELSE heard
    /\ UNCHANGED <<service, posts, result, replies, known>>

Respond ==
    /\ Server!Respond
    /\ replies' = [replies EXCEPT ![Peer] = result]
    /\ result' = None
    /\ UNCHANGED <<service, posts, known, heard>>

Work ==
    \/ Serve \/ IngestCalled \/ InIngest \/ IngestReturns \/ IngestThrows
    \/ Push \/ (\E f \in Fds : SendFrame(f)) \/ Respond

-----------------------------------------------------------------------------
(* The process and the outside *)

HandleSignal == Server!HandleSignal /\ UNCHANGED <<service, route>>

\* The process is killed, or has ended, and starts again: a signal that is not
\* handled kills it, such as the SIGPIPE of a send to a node that hung up.
Restart ==
    /\ Server!Restart /\ Service!Restart
    /\ result' = None
    /\ UNCHANGED <<posts, replies, known, heard>>

Mine == Service!Mine /\ UNCHANGED <<server, route>>

\* The device can tell that no answer comes: it hung up, or was hung up on.
Lost(c) ==
    \/ client[c] = "gone"
    \/ client[c] # "away" /\ ~Server!Connected(c) /\ answer[c] = None

\* The attempts to send one packet come one after the other.
Connect(c) ==
    /\ Server!Connect(c)
    /\ \A d \in Clients \ {c} :
          posts[d] = posts[c] /\ posts[c] # None =>
              client[d] = "away" \/ Lost(d) \/ answer[d] = "400"
    /\ UNCHANGED <<service, route>>

Ask(c) ==
    /\ Server!Ask(c)
    /\ request'[c] = "ingest" <=> posts[c] # None
    /\ UNCHANGED <<service, route>>

Leave(c) == Server!Leave(c) /\ UNCHANGED <<service, route>>

Next ==
    \/ Work
    \/ HandleSignal \/ Restart \/ Mine
    \/ \E c \in Clients : Connect(c) \/ Ask(c) \/ Leave(c)

Spec == Init /\ [][Next]_vars

\* The thread runs, and the node answers or its connection ends, and clients
\* read what they are sent; none is assumed to ask or to leave.
FairSpec == Spec /\ WF_vars(Work)

-----------------------------------------------------------------------------
(* Properties *)

\* Types of the variables that this module adds.
TypeOK ==
    /\ result # None <=> pc \in {"publish", "broadcast", "respond"}
    /\ \A r \in {result} \cup {replies[c] : c \in Clients} : r = None \/ r \in answers
    /\ known \in [Clients -> SUBSET (1..seq)]
    /\ \A c \in Clients : {e.recordId : e \in heard[c]} \subseteq 1..seq

\* What a device was told stays true of the database, also when the process
\* dies and starts again: a 202 names a record with the device's own packet and
\* the receipt of the answer, no two of them name the same, and a 400 names no
\* record that has a proof (Route, http_server.cpp:518-530).
RepliesAreTrue ==
    /\ \A c \in Clients :
          replies[c] # None =>
              /\ answer[c] = IF replies[c].accepted THEN "202" ELSE "400"
              /\ IF replies[c].accepted
                 THEN /\ replies[c].recordId \in DOMAIN rows
                      /\ rows[replies[c].recordId] =
                             [packet |-> posts[c], receipt |-> replies[c].receipt]
                 ELSE replies[c].recordId \notin Service!Proved
    /\ \A c, d \in Clients :
          c # d /\ answer[c] = "202" /\ answer[d] = "202" =>
              replies[c].recordId # replies[d].recordId

\* The record that has its proof while the subscriber on f has no frame of it:
\* its answer is still to come, or the broadcast has not reached f.
Untold(f) ==
    IF place[Thread] = "accept" THEN {recordId[Thread]}
    ELSE IF result # None /\ result.accepted /\ (pc = "publish" \/ f \in todo)
         THEN {result.recordId} ELSE {}

\* The event is of the record as it is stored.
IsStored(e) ==
    /\ e.deviceId = rows[e.recordId].packet.deviceId
    /\ e.timestamp = rows[e.recordId].packet.timestamp
    /\ e.txHash = rows[e.recordId].receipt.txHash

\* A subscriber of /ws/telemetry that reads the records when it is added, and
\* the frames that it is sent from then on, knows the proved records while it
\* is listed, but for one that is being announced: each frame is of another
\* record, none that it has read, as it is stored.  What was told stays true
\* when the subscriber is dropped or the process ends, within a broadcast too
\* (http_server.cpp:451-457, :463-475, :519).
EventsMatchStorage ==
    \A c \in Clients :
        /\ \A e \in heard[c] : e.recordId \in Service!Proved \ known[c] /\ IsStored(e)
        /\ request[c] = "telemetry" => Cardinality(heard[c]) = Len(frames[c])
        /\ \A f \in Server!Listed("telemetry") : fds[f] = c =>
              Service!Proved = known[c] \cup {e.recordId : e \in heard[c]} \cup Untold(f)

\* A packet has one proved record, and one more for each attempt whose answer
\* was lost at most: nothing recognises a copy, but a rejected attempt never
\* leaves a proof that its repetition doubles (ingest_service.cpp:67).
DuplicatesAreResends ==
    \A p \in Packets :
        Cardinality({id \in Service!Proved : rows[id].packet = p})
            <= 1 + Cardinality({c \in Clients : posts[c] = p /\ request[c] = "ingest" /\ Lost(c)})

\* Through JSON-RPC, and whatever clients and signals do meanwhile, a saved row
\* gets its proof, is withdrawn or is a known leftover (ingest_service.cpp:67-114).
SavedIsSettled == Service!SavedIsSettled
==============================================================================
