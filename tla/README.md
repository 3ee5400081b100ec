# Verification of the agricultural telemetry gateway

The gateway takes signed telemetry packets from devices over HTTP, stores each
one in SQLite, submits its hash to a blockchain node and stores the receipt
with the record. This directory models that program in TLA+, checks the models
with TLC on small instances and proves the main results with TLAPS. Paths
below are relative to the repository, `src/backend-cpp/` unless they start
with `docs/`.

## 1. The system

| part | state | operations | talks to |
|---|---|---|---|
| `IngestService` (`src/ingest`) | three request counters and a time sum under a mutex | `Ingest`, `GetMetricsSnapshot` | repository, verifier, chain client, by calls on the caller's thread |
| `SQLiteTelemetryRepository` (`src/storage`) | one table and its AUTOINCREMENT counter, in a file | `Save`, `AttachReceipt`, `Delete`, three queries, `Size`; one statement each, under a mutex | SQLite |
| `InMemoryTelemetryRepository` (`src/storage`) | a vector and four indexes | the same; used by the tests of `IngestService` | - |
| `EthereumRpcBlockchainClient` (`src/blockchain`) | none between calls | `SubmitHash`: send once, poll until mined or timed out | a JSON-RPC node, one TCP connection per request |
| `MockBlockchainClient` | a static counter | `SubmitHash` | - |
| `BasicSignatureVerifier`, `hash_utils` | the loaded keys | `Verify`, `Sha256Hex` | OpenSSL, or a stand-in without it |
| `HttpServer` (`src/api`) | the listening socket, `running_`, two lists of WebSocket clients under a mutex | accept loop, routes, broadcasts, `Stop` from a signal handler | everything above |
| JSON parser (`src/transport`) | none | `ParseTelemetryPacketJson` | - |
| `main` | environment, the server pointer of the signal handler | wiring | all |

The firmware, frontend and simulator directories hold a README each and no
code.

A request runs on one thread from `accept` to `close`: parse, `Ingest`,
broadcast, answer. `Ingest` itself takes no lock. Its hard behaviours come
from what may happen between its steps:

* **crashes**: the database and the chain persist, the rest does not; a stop
  between `Save` and `AttachReceipt` leaves a row that nothing looks for later;
* **partial failure**: the node takes a transaction and the reply is lost; a
  statement fails; the rollback of a failed submission fails as well;
* **interleaving**: a signal, a client, the node or a kill between any two
  steps. `IngestService` and both repositories carry mutexes for calls from
  several threads as well; `agri_gateway` and the tests start one only, and
  that the models and proofs allow more is a stronger result, not a hazard of
  this program;
* **timeouts**: the node mines when it likes, `SubmitHash` waits `maxWaitMs`;
* **counters that restart**: record ids must not, the mock's transactions do;
* **numeric edges**: unsigned timestamps in a signed column, frame lengths, a
  declared length that wraps around;
* **cut strings**: no escape is decoded, a string ends at its first quote;
* **signals**: `Stop` runs inside the handler and takes a mutex; a `send` to a
  node that hung up raises `SIGPIPE`, which nothing handles;
* **retries**: a device that got no answer sends again, and no step recognises
  the copy;
* **texts**: a request comes in pieces and may be cut anywhere, and each member
  of a packet is searched for on its own, with no regard to the structure.

`PROJECT.json` lists each of them at its line under `hazards`.

What makes each part correct, in short:

* ingest: an answer agrees with the database for ever; a record's proof is its
  own transaction; nothing unverified is stored; no silent leftovers; one
  transaction per record; counters and table add up;
* repositories: ids are handed out once, a transaction is the proof of one
  record, indexes and queries agree, both implementations do the same;
* chain client: one transaction per call at most, a bounded wait, true receipts;
* server: every open descriptor has one owner, subscribers get every event of
  their channel, clients that wait are dealt with, a signal ends the process;
* parser and messages: a whole request is read to its end and no further, what
  is accepted is what the device signed, what is written is one JSON object;
* the whole: what devices were told and what subscribers heard agrees with the
  database.

## 2. The modules

| module | what it is |
|---|---|
| `TelemetryLedger` | abstract: what the gateway promises about its records |
| `IngestService` | the core: `Ingest`, metrics, faults, restarts; instantiates the four below |
| `SqliteRepository` | the table: statements, their failures, the unique index |
| `SqliteQueries` | the SELECTs over that table and their orders |
| `BlockchainClient` | the contract of `SubmitHash` as its callers see it, for both clients |
| `SignatureVerifier` | the packet and the two pure checks made on it |
| `EthereumRpcBlockchainClient` | the JSON-RPC client in detail; implements `BlockchainClient` |
| `InMemoryRepository` | vector and indexes; implements `SqliteRepository` |
| `HttpServer` | the accept loop, the routes, WebSocket lists, broadcasts, signals, restarts |
| `Gateway` | the composition: `HttpServer`, `IngestService` and devices that send again |
| `TelemetryJson` | the JSON parser and the hashed text, as operators on texts |
| `HttpMessages` | requests, routes, answers and frame headers, as operators on texts |
| `HttpConnection` | one connection: `recv` in pieces, parsing, dispatch, answer |
| `IngestService_proofs` | theorems: what is stored and answered, and what is counted |
| `EthereumRpcBlockchainClient_proofs`, `HttpServer_proofs`, `InMemoryRepository_proofs` | theorems of these modules |
| `Gateway_proofs` | theorems: replies and events against the database |
| `HttpConnection_proofs` | theorems: how a request is read, and what is accepted of it |
| `HttpAnswers_proofs` | theorem: what the gateway writes; extends the module before |
| `HttpRequests_proofs` | theorems: where a request is routed to, and what is parsed of its body; extends the module before |
| `MC*` | small instances for TLC |

### IngestService

`pc[c]` is the place of thread `c` in `Ingest`. The actions are the code's
critical sections, in order:

| action | code (`ingest_service.cpp`) |
|---|---|
| `Ingest` | lines 37-65, the guards: on to `Save`, or reject |
| `Save`, `SaveThrows` | line 67; the exception escapes `Ingest`, uncounted |
| `NodeTakesTx`, `SubmitHash`, `SubmitHashThrows` | line 84, with what the node does meanwhile |
| `AttachReceipt`, `AttachReceiptFails` | line 98; `false` and an exception both roll back |
| `Rollback` | lines 70-80 |
| `FinishWith` | lines 23-35: count, and return the result |
| `Mine` | the node |
| `Restart` | the process stops anywhere and `main` starts it again |

`packet`, `recordId`, `receipt` and `rollbackFailed` are the locals of the
call (`result`, and the suffix of its message). `answers`, `abandoned`,
`provedAtStart`, `uncounted`, `requests` and `restarts` are history: no step of
the code reads them, except that `requests` and `restarts` bound a run.
`uncounted` are the calls that this process never counts, those of earlier ones
and those that the exception of `Save` ended. The metrics snapshot reads
counters and table without a state change, so it is an operator and
`MetricsMatchStorage` speaks of its value at every moment: a request that is
counted twice, never, or in one counter only breaks it.

Every failure of SQLite is one nondeterministic outcome of a statement
(`SqlFault`): the statement changes nothing and throws. Statements are atomic,
which is SQLite's guarantee for autocommit.

The texts in a packet are strings, and a digest is the triple that it was
computed from. The code joins the three fields with `|` first; that the joined
text determines them, also when a device id holds a `|`, is
`HashedTextIsUnique` of `HttpConnection`.

### The blockchain

A transaction is the pair of the hash that it carries and a number: the node's
nonce, or the mock's counter. `chain` gives each one its block, 0 before it is
mined. `Restart` sets the number back in mock mode only (the counter is a
static variable). `EthereumRpcBlockchainClient` has the steps of one call: the
send, the reply, each poll with the time it takes, and the throw that every
exchange may end in. `ContractSpec` shows that callers see no more than
`BlockchainClient` says, which is the module `IngestService` uses.

### The repositories

A row is a packet with a receipt or none. `seq` is SQLite's `sqlite_sequence`.
The unique index is the guard `TxTaken`, so that no transaction proves two
records is no property of its own; what is one is that it turns no receipt of a
node down (`IndexNeverRefuses`), as it does the mock's (finding 1).
`InMemoryRepository` keeps the vector
and the four indexes as the code does, with `Delete` erasing and renumbering.
`DbSpec` refines it to `SqliteRepository` by reading the vector as a table.
Attaching a receipt twice to a record, or one transaction to two, is outside
what `Ingest` can do with this store (it starts empty together with the mock's
counter). `AttachReceipt` has no guard against either, as the code has none;
`Attach` is the caller's choice of receipts, on which the results rest.

### HttpServer

The gateway has one thread, and a signal handler that interrupts it between any
two steps. `pc` is the place of the thread:

| `pc` | code (`http_server.cpp`) | actions |
|---|---|---|
| `start`, `bind`, `up` | 336-357 | `Socket`, `Listen`, `StartThrows`, `SetRunning` |
| `loop` | 358-367 | `Accept`, `LoopEnds` |
| `read` | `HandleClient`, `Route` | `ReadNothing`, `Route`, `RefuseUpgrade`, `Ingest`, `Upgrade`, `UpgradeFails`, `StorageThrows` |
| `subscribe`, `push` | 451-457, before and under the mutex | `LockToPush`, `Push` |
| `publish`, `broadcast` | 461-500, before and under the mutex | `LockToBroadcast`, `SendFrame`, `SendFrameFails`, `SwapClients` |
| `respond` | 419-422 and the `close` at 376 | `Respond` |
| `ended`, `failed` | `main.cpp:94`, `:90` | |

`HandleSignal` is `Stop`, at once when the mutex is free. When the interrupted
thread holds it, `handler` becomes `"lock"` and neither takes a step again:
locking a `std::mutex` twice on a thread is undefined, and this is what the
mutex of the build's C library does. The second kind of signal that may
interrupt a handler is left out.

`fds` maps a descriptor to the client at its other end; a closed one is given
out again, and which free one comes next is left open (the kernel takes the
lowest). Steps that a signal cannot tell apart are one action: a plain answer,
its `SendAll` and the `close`. A failed `accept` changes nothing and the loop
calls it again, so it is no action; the loop on a socket that a signal closed
before `running_` was set shows as a server that takes no step. A request is
one of the kinds that the code tells apart, `Ingest` answers with either
outcome (what it does is the module `IngestService`), and `log`, `joined`,
`frames`, `answer` and `stopAsked` are history. `Restart` starts the process
again from any step, up to `MaxRestarts` times; the runs `http_server` and
`gateway` have one.

### Gateway

The objects that `main` wires: `Server` and `Service` are instances of
`HttpServer` and of `IngestService` with one thread, and share `restarts`. The
thread is in one of them at a time: `Serve`, `Push` and `SendFrame` take the
server's steps while `place` (the `pc` of the service) is `idle`; `IngestCalled` enters `Ingest` at
`http_server.cpp:518`, `InIngest` is each of its steps, `IngestReturns` joins
`FinishWith` with the server's `Ingest` and fixes the outcome that
`HttpServer` leaves open, `IngestThrows` joins `SaveThrows` with the end of
the process, and `SendFrame` and `Respond` use the result. A signal
or a kill may come between any two of them. A client is one attempt to send a
packet; the next attempt for the same packet comes when the last was rejected
or can get no answer any more (`Lost`), even while the gateway still serves it.
`replies`, `known` and `heard` are history. `known[c]` are the proved records at
the moment that `c` was added to a list: what a subscriber reads that asks for
the records then. `heard[c]` grows with each frame that is sent to it, by the
fields of the event that tell of the record, and not before, so that a kill or
a deadlock in the middle of a broadcast leaves those told who were. Each step is
by definition a step of one component, or of both at once; the proofs use that,
and nothing is checked of it.

### Requests, packets and answers as texts

A text is a sequence of symbols. The name of a member is one symbol that
stands between its quotes (so that the searches for `"name"` are one
comparison), as is each header name and literal part of a path; quotes,
braces, backslashes, separators, blanks and digits are symbols of their own.
`TelemetryJson` keeps the searches of `json_parser.cpp` as they are: the first
place of the whole body where the name, a colon and a value of the right form
follow each other, the next `{` after the colon for `telemetry`, the scan with
its depth, string and escape flags, and a number that overflows at `Word`
(2^64 in the code). `HttpMessages` is the part of `http_server.cpp` without
state, `HttpConnection` the reading of one request (`Recv` takes at most
`BufferSize` symbols; `RecvEnds` is the end of the connection, anywhere) and
what is then done with it. The guards of `Ingest` appear there on texts: the
digest matches if the hashed text is that of the device. Of what is accepted
`AcceptedIsSigned` speaks for the signed fields and `UnsignedAsSent` for
`batchCode` and `transport`, of which the code promises less. The recursion of
these modules is in recursive functions and folds, so that all of it can be
proved about.

## 3. Runs

| run | shows | bounds |
|---|---|---|
| `ingest_faults` | the safety of `Ingest`, its counters and `LedgerSpec`, under every fault | 2 threads, 3 calls, 2 packets, 1 restart |
| `ingest_deployed` | guards; a saved row is settled in the end | the default configuration: mock, 1 thread; 10 packets (8 of them fail one guard each), 3 calls, 2 restarts |
| `ethereum_client` | poll bound, true receipts, `ContractSpec` | 2 transactions, 2 heights, wait 10 ms, poll every 2 ms, exchanges of 0, 1 or 13 ms |
| `in_memory` | indexes, queries, `DbSpec` | 4 saves, 3 packets, 2 transactions |
| `http_server` | owners of descriptors, delivery of events | 4 clients, 3 descriptors, 1 signal, 1 restart; ingest and both subscriptions |
| `http_liveness` | a signal ends the server; nobody waits for ever | 3 clients, 2 descriptors, 1 signal; ingest, a body that does not parse, a subscription, a refused upgrade |
| `gateway` | answers and frames agree with the database | 2 attempts, of one device or two, or one beside a subscriber or a query; 2 descriptors, 1 signal, 1 restart, every fault |
| `http_connection` | reading, parsing, writing and dispatch of one request | 57 packets, 4 orders of members, 6 declared lengths, 19 other requests, pieces of up to 3 symbols, limit 70, 2^64 is 100 |
| `resent_packet` | finding 1 | mock, 2 calls, 1 restart, no fault |
| `latest_by_device` | finding 2 | 2 rows, 2^63 is 4 |
| `quoted_id` | finding 3 | 3 packets with quotes in their strings, 4 orders, their own lengths |
| `rejected_announced` | finding 4 | 2 clients, every kind of request |

Why the bounds are enough. Two calls under way and one before or after them
give every pair of steps of two calls in both orders, and an earlier record
that either may harm; each call can meet its own fault, so that failing
submission, attachment and rollback meet in one run. One restart is enough to
separate what persists from what does not, the second in `ingest_deployed`
lets an abandoned row be followed by another. Two packets are enough to tell
one record's content from the other's; the same packet may come twice, which
is a device that sends again. In `ethereum_client`, 13 ms outlasts the wait,
1 does not divide the interval and 0 is the fastest node. Four rows let
`Delete` hit the first, a middle and the last position of a vector of three
and be followed by another `Save`. Four clients on three descriptors let two
subscribe and one leave, an event close its descriptor while another client
holds one, and a fourth get the number that was freed; two events on a channel
separate what a client got before and after it subscribed. Three clients on two
descriptors fill them all with subscribers while one waits. In `gateway` two
attempts are a packet and its copy, the one served while the other waits, or a
subscriber that hears of the one packet, before or after it subscribed; two
descriptors let it do so while the packet's connection is open, and
`http_server` has the runs with more of both. In
`http_connection` the packets hold what the scanner treats specially (an empty
object, a brace and an escaped quote in a string, separators, names of other
members, a number that is too large), the strings beside it hold quotes, device
ids end in digits, separators and backslashes so that one
text may continue as another's; the orders put each kind of value last and the
telemetry first; lengths are absent, exact, too small, too large and larger
than a number can be. Some of these requests are longer than the limit and are
cut by it; the pieces of 1 to 3 symbols reach every position. Event sizes are
the two borders of the frame's forms and one with more bytes. Symmetry of threads
(of clients and descriptors in `http_server`) is used where no liveness is
checked.

`Finished` lets a run of the ingest modules stutter when all its calls are used
up, so that TLC's deadlock check means that no call ever waits on something
that cannot come. The runs of `HttpServer` and of `Gateway` turn it off: the
process may have ended, and a server with no clients left really waits. So does
`http_connection`, whose one connection is closed in the end.

Each checked property has a mutant in `PROJECT.json`: a plausible mistake in
one definition (kept beside it, under "a mistake in") that makes it fail.

### Findings

1. `resent_packet`: the mock's counter restarts with the process
   (`mock_blockchain_client.cpp:14`) while the database persists, so a packet
   that is sent again as the first one after a restart gets the transaction of
   its first copy and is rejected by the unique index
   (`sqlite_telemetry_repository.cpp:256`). `docs/demo/runbook.md:136` expects
   202 and `accepted=true`, and the firmware is to retry
   (`stm32-firmware/README.md:9`).
2. `latest_by_device`: timestamps are unsigned in the API
   (`docs/api/openapi-outline.md:16`) and stored as signed integers, so one of
   2^63 or more sorts below all others (`sqlite_telemetry_repository.cpp:118`,
   `:173`).
3. `quoted_id`: a string is read up to its first quote, escaped or not
   (`json_parser.cpp:14`), and no escape is decoded. A device id with a quote in
   it is therefore cut, the hash computed of it differs from the device's, and
   the packet is rejected. `shared/contracts/telemetry.schema.json:13-16` and
   `docs/api/openapi-outline.md:15` allow any string. (In `batchCode` and
   `transport` such a string is accepted as it was cut, since nothing signs
   them: section 5.)
4. `rejected_announced`: a body that does not parse is answered 400 before the
   broadcast is reached (`http_server.cpp:511`), so no alert tells of it.
   `README.md:29` has `/ws/alerts` "for rejected ingest events", and
   `docs/api/openapi-outline.md:26` counts parser errors among these.

### Fairness

`SavedIsSettled` needs `WF_vars(Step(c))`, a thread inside `Ingest`
goes on. It can: mutexes are held for one statement and no code waits on
another thread. The one assumption about the outside is that the node answers
a request or its connection ends, since `recv` has no timeout
(`ethereum_rpc_blockchain_client.cpp:68`); the poll loop itself ends, which is
`PollsBounded` and is proved. Nothing is assumed of mining, of devices, or of
success: a thread that always fails is fair.

`StopEnds` and `WaitEnds` need that the thread goes on (`WF_vars(Serve)`) and
that a client which is connected and silent asks or leaves at last. Both stand
for assumptions about clients, since `recv` and `send` have no limit
(`http_server.cpp:89`, `:126`). No client is assumed to leave once it has
asked, no signal to come, and no event to be ingested. The properties name
what the code does not give even so: a handler that waits for a mutex of its
own thread, a signal before `running_` is set (which does not count as a stop
that was asked for), and no descriptor left. They say nothing of these cases, or
of clients that stay silent, which `hazards` lists without a property: the model
shows that they happen, and no document says that they should not.

`Gateway` checks `SavedIsSettled` again, through JSON-RPC, with fairness of
`Work` only, every step of the thread wherever it is: no client is assumed to ask
or to leave, and signals may come at any step. That waiting clients are dealt with there rests on both
components, each with its own liveness: `http_liveness` needs that `Ingest`
returns, and it does.

## 4. Proofs

For every set of threads, packets, keys, heights and transaction numbers, both
clients, and any number of calls and restarts. Assumed of the constants:
transaction numbers are naturals, `None` is none of the values
(`NoncesAssumption`, `NoneAssumption`), and for the client's wait that times
are naturals and the poll interval is not 0 (`WaitAssumption`: with
`AGRI_ETH_POLL_MS=0` the loop has no bound on polls but still one in time).
Symbolic digests are part of the model, not of the proofs. `Gateway` assumes
besides that there are finitely many clients (`ClientsAssumption`: its theorems
count them), what its two components assume, and that no result of `Ingest` is
`None` (`ServerAssumption`, `ServiceAssumption`, `ResultAssumption`).
`InMemoryRepository` assumes that `NoReceipt` is no receipt and `NoRecord` no
record, and that `MaxRows` is a natural (`ReceiptsAssumption`,
`RecordsAssumption`, `MaxRowsAssumption`). TLC evaluates each of them in the
runs.

`HttpConnection` assumes more, since its constants are what clients send. The
limit and one buffer together fit a `size_t`, as 1 MiB and 4096 do, and so do
100 symbols, which is more than any answer here has (`SizesAssumption`); `Word` is
any number that allows this. The size of an event is a `size_t`
(`EventsAssumption`). The strings of a packet hold anything, quotes too, and its
telemetry is what the scan reads as one object (`PacketsAssumption`); devices
write packets from the eight members in any order (`OrdersAssumption`), and none
declares a negative length (`LengthsAssumption`). A device hashes its id as it
writes it; one that escapes an id and hashes it as it was is rejected in the
same way. What this leaves out is a string that is exactly the name of a member,
or ends with one behind an escaped quote: a name is one symbol together with its
quotes. The first line of any other request is one line,
does not hold `Content-Length:`, and asks for a query with the parameter as it
is, or for a path without one that may have a query string behind
(`AskedAssumption`). The rest is about the model: `None` is no number, text,
packet, request or result (`WordAssumption`, `NoneAssumption`), and each symbol
that the code writes is a string (`SymbolsAssumption`), which TLC knows and no
prover takes from a literal.

`IngestService_proofs`: `TypeCorrect`, `AcceptedStaysStored`,
`RejectedStaysWithdrawn`, `ProofsAreOwn`, `StoredIsVerified`, `PendingStaysExplained`, and `ImplementsLedger`, the
refinement of `TelemetryLedger`.

The invariant `IInv` is what makes them inductive. That an accepted row stays
as it is follows only if no other call can have its id: `IdsApart` says that
an id belongs to one call, or to answers, never to both, and needs ids to be
at most `seq`. That a receipt is the record's own needs `CallInv`, what a call
knows between its steps (before the attachment the row of its id is there with
its packet and no receipt), and `TxInv`, that the transaction under way
carries the call's hash. `OtherCall` shows once that the steps of others keep
`CallInv`, `ReceiptForever` that the chain only grows; there is then one lemma
per action. `PendingIsExplained` is inductive given `IInv`. In the refinement
`Save` is `Admit`, `AttachReceipt` is `Prove`, a successful `Rollback` is
`Withdraw`, and every other step stutters. `IInv` was checked with TLC on the
bounds of `ingest_faults`, and of the same run with the mock, before it was
proved.

`EthereumRpcBlockchainClient_proofs`: `TypeCorrect`, `PollsAreBounded` (from
elapsed time having grown by an interval with each poll but the first),
`ReceiptsAreTrue`, and `ImplementsContract`, the refinement of
`BlockchainClient`.

`HttpServer_proofs`: `TypeCorrect`, `DescriptorsHaveOneOwner` and
`SubscribersGetEvents`, assuming of the constants only that `None` is none of
the values. They need each other, hence one `IInv`: a frame goes to a client
only because a listed descriptor is open (`OwnedOnce`), and to the right one
only because a client has one connection at most (`ConnInv`) and a listed one
belongs to a subscriber of that channel (`SubInv`). Three lemmas
serve most actions: steps that move no descriptor (`QuietStep`), that close the
connection in hand (`ClosingStep`) and that end the process (`ExitStep`). The
log, the frames or the subscribers grow in three actions, whose lemmas do the
arithmetic on lengths. `IInv` was checked with TLC on the bounds of
`http_server` first. Restarts are covered (`RestartKeeps`): a new process
closes everything and lists nothing.

`IngestService_proofs`, what is paid and counted: `RecordsPayOnce`,
`NodeReceiptsAttach` and `MetricsAddUp`.
The first needs `PaidOnce`: transactions at the node and calls for which one may still
come (`Unpaid`) are together no more than the ids handed out, since `Save` hands
out an id before each submission and the node takes one transaction per call.
The second needs `HeldIsFresh`: a transaction that a call holds, at the node or
in its receipt, is held by no other call and proves no record, because the node
never gives one out twice and `AttachReceipt` ends the holding. The third needs
`CountsAgree`, that proved records are those of the start, the accepted requests,
and the calls between `AttachReceipt` and `FinishWith`, and `CallsAgree`, that
every request is in the total, in a call under way, or uncounted. Each
action moves a call in or out of a finite set that is counted, so the proofs are
arithmetic on `FS_AddElement` and `FS_RemoveElement`. These invariants were
checked with TLC on the bounds of `ingest_faults` first.

`Gateway_proofs`: `TypeCorrect`, `RepliesStayTrue`, `EventsRebuildStorage` and
`OnlyResendsDuplicate`, of the whole gateway. Every step of it is, seen through
the variables of a component, one of that component's or a stutter; this holds
by the form of `Gateway` (`ServiceStep`, `ServerStep`) and serves to carry over
what is proved of `IngestService` and `HttpServer` (`ServiceInv`, `ServerInv`,
`ListsInv`). What is new comes in two layers. `GInv` has the answers: the packet
and the result in the thread's hands belong to the client of its current
connection (`HandInv`); a client that was not answered has no reply
(`AnswerInv`); no record is named twice (`NamedOnce`); and the proved records of
a packet are no more than the attempts spent on it, of which all but one are
over (`AttemptInv`). On top of it `EventInv` has the frames: what a subscriber
was told is of proved records that it had not read, as many as it got frames,
and while it is listed the proved records are those that it read, those it heard
of, and the one that is still to reach it (`Untold`). That rests on a list
holding each subscriber once (`ListsInv`), on a record being proved by the call
in hand only, and on an accepted answer staying true of its row. `GInv` and
`EventInv` were checked with TLC on the bounds of `gateway`.

`InMemoryRepository_proofs`: `ImplementsDb`, `IndexesAreScans` and
`QueriesAreThoseOfSqlite`. In the invariant `IndexInv` ids rise along the vector
(`Numbered`), positions are those of the ids (`Placed`), and the lists of an
index are the ids of its key, rising (`DevicesIndexed`, `BatchesIndexed`): so a
list is determined by its set (`SameList`), and `Keep` of a vector in which ids
rise is the list of the ids kept (`KeepLists`). `Delete` renumbers from the
erased position, which keeps `Placed` because the ids before it are untouched.
The last theorem assumes of the packets that their timestamps fit the signed
column; past it the two repositories differ, which is finding 2. `IndexInv` was
checked with TLC on the bounds of `in_memory`.

`HttpConnection_proofs`: `TypeCorrect`, `WholeRequestsRouted`,
`HashesTellApart`, `AcceptedAsSigned` and `FramesAreRead`. The first half of the
module says what the loops of the parser compute. They are folds and recursive
functions, which `Recursion` unrolls step by step, and most results are then
about single positions of a text.

* `HashesTellApart` needs that two packets agree if their joined texts do, one
  that a device sends, with any quotes in its id, and one that the parser lets
  through (`ParsedInv`: an id without a quote, a number below `Word`, an
  object). Suppose that in two readings of one text the object of the second
  begins behind that of the first (`NoTail`). If it begins outside of the
  strings of the first, the first scan reads on as the second does
  (`ScanAlike`); since both end at depth 0 with the text, the first was at depth
  0 already, where its object would have ended (`ObjectRun` says what
  `ObjectEnd` computes). If it begins within a string, each scan stays within a
  string exactly where the other is in none (`ScanFlipped`), and both cannot end
  there. So the objects begin together (`ObjectsSame`), the ids end together
  since digits hold no separator (`NamesSame`), and the numbers agree since a
  printed number reads back as itself (`DecimalIsRead`).
* `AcceptedAsSigned` follows with `SignedInv`: only the body of a device's
  request yields a packet, and what is accepted hashes as the device's text
  does. Nothing is assumed of the pieces, of where the request ends, or of the
  length that it declares.
* `WholeRequestsRouted` needs `WholeInv`: the size is known once the head has
  been read, not before, and is the request's own. That rests on the first
  blank line of a request being that behind its head (`HeadEnds`) and on the
  declared length being found and read back (`LengthRead`). `ReadInv` keeps
  what was read below the limit plus one buffer; a request within the limit is
  then smaller than `Word`, and its expected size does not wrap.
* `FramesAreRead`: taking bytes off a size and putting them together again are
  inverse (`BytesRead`), in all three forms (`FrameInv`).

`ReadInv` and `WholeInv` were checked with TLC on the bounds of
`http_connection` first.

`HttpAnswers_proofs`: `AnswersAreWhole`. A text keeps the scan (`Keeps`) when
every scan comes out behind it as it went in, with the depth never below that
at which it began. Within a string an escaped text does so whatever it holds,
since behind `JsonEscape` no quote stands without its backslash (`KeepsEscaped`,
on `PiecesAre`), and between quotes it does so outside of strings
(`PassedText`); digits, plain symbols and names do; so do two such texts one
behind the other and, with braces around, the object of such members
(`PassedObject`), which is then one object for `ObjectEnd`. The telemetry object is written as it came, and keeps the scan since
the one that read it ended at its last brace (`KeepsWhole`). `AnswerInv` says of
which texts the answer and the result are made. That an answer declares its own
length rests on no line of its head holding what `ParseContentLength` looks for
(`AnswerFormed`, `AnswerIsWhole`); that a record gives back its telemetry, on
the member's name standing nowhere before it (`MemberStands`, `BeforeHas`).

`HttpRequests_proofs`: `RoutedAsTheyAsk`, `WholeIsParsedAsSent` and
`UnsignedUpToQuote`.

* The first line is three words (`WordsRead`), so method, path and body are
  known of whatever was read, if it holds the whole head (`RequestRead`), and
  there is a request if it does (`RequestComes`). `RoutedAsTheyAsk` compares the
  path, behind `StripQuery`, with each form of `Route`: prefixes differ in their
  first symbol, so at most one fits, and `ExtractPathParam` returns what stands
  between prefix and suffix, also of a parameter that holds the suffix itself.
* What a search finds in a body is where its key first stands in the right form.
  In a body that is the member of that name (`MemberFound`), unless the name
  stands in a telemetry object before it (`Hides`), and nowhere if there is no
  such member (`MemberAbsent`). From there each search returns what was written
  (`StringOfBody`, `TimestampOfBody`, `TelemetryOfBody`), of a string the part
  before its first quote (`BeforeQuoteIs`, `CarriesBefore`), and the telemetry
  object is never hidden. A string of a body that was cut comes out up to that
  quote or not at all, since the quote is read or not (`StringCut`): that is all
  that `UnsignedUpToQuote` needs (`UnsignedInv`), and why it holds of every cut.
* `WholeIsParsedAsSent` adds that `Ingest` is called once (`PendingInv`) and, in
  `SentInv`, that a body which came whole is taken unless a required member is
  missing or its number too large (`RefusedForWant`): a hidden member is still
  found, if only as another's (`StringIsFound`).

Proving `ParsedAsSent` showed that it had been false as stated: a number in the
telemetry object that hides the timestamp may itself be too large, and the packet
is then refused although all its members are there. The property now says so, and
`http_connection` has such a packet.

Where an argument is an induction it is made by the least counterexample, which
`LeastNatural` or `Induction` gives from the well-foundedness of the naturals.

Only model-checked: liveness (`SavedIsSettled`, `StopEnds`, `WaitEnds`), which
is out of the prover's reach. Every invariant and every refinement that a
passing run checks is a theorem.

## 5. Not modelled

* Of an upgrade: its headers, SHA-1 and Base64. `HttpServer` keeps whether it
  is one. Digests are arithmetic without a state; their outcome is a constant
  of the request.
* The texts of metrics and batch lists, of which `SqliteQueries` has the
  content. Control characters in texts, and percent signs, which the code does
  not decode.
* Bytes that a client sends behind its request: they are read with it or lost
  with the connection.
* A second signal that interrupts the handler of the first, and a client that
  stays connected and stops reading.
* Elapsed times and `averageProcessingMs`; `submittedAt`; logging; wording.
* Loading keys, parsing URLs, building JSON-RPC requests: their outcomes are
  constants or the choice between an answer and a throw.
* The non-OpenSSL build's stand-ins for digest and signature differ from the
  OpenSSL build in strength only, which symbolic terms do not tell apart.

What the models of texts show besides the properties, and nothing in the docs
speaks of:

* a record keeps block height 0 for good when the wait of `SubmitHash` ends
  before the node mined its transaction (`ethereum_rpc_blockchain_client.cpp:262`);
* a `batchCode` or `transport` with a quote in it is cut at the backslash before
  the quote, and stored so, since nothing signs it: `"b\"c"` becomes `b\`. Other
  escapes are kept as they were written, and escaped again in answers
  (`json_parser.cpp:14`);
* a member within the telemetry object is taken for the packet's when it stands
  first (`Shadowed`); of a signed one the digest then fails, `batchCode` and
  `transport` are stored as mistaken, and a packet whose telemetry holds a
  `timestamp` that is too large is refused;
* a request that is cut behind its required members, or whose declared length
  is too small, may be accepted with `batchCode` and `transport` lost, which
  nothing signs;
* `telemetry` with a value that is no object takes the next object behind it;
* a request without any header line is answered 400;
* `Content-Length:` is looked for in the whole head: in a path, followed by
  digits, it declares a length, and a request without a body waits for one.

## 6. Plan

Done: ledger, ingest, repositories and chain clients; the server; the
composition with devices that send again; reading, parsing and writing of
texts; the proofs of section 4. What is left is not in reach of these tools as
they are: the liveness properties for every value of the constants. The hazards
without a property, a node or a subscriber that stays connected and silent, wait
for a limit on `recv` and `send` in the code.
