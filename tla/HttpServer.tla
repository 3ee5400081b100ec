------------------------------ MODULE HttpServer ------------------------------
(***************************************************************************)
(* HttpServer: one thread accepts connections, answers one request on each *)
(* and keeps those that upgrade to WebSockets in two lists, to which it    *)
(* broadcasts what Ingest answered.  Stop runs in the signal handler of    *)
(* main.cpp, on the same thread, between any two steps of it.              *)
(*                                                                         *)
(* Clients and the kernel's sockets are external: a client connects once,  *)
(* sends one request and may leave at any time; data sent to a client that *)
(* left may still be taken by the kernel, or be refused.  The vectors of   *)
(* descriptors are sets: nothing depends on their order.  A new connection *)
(* gets any free descriptor, not only the lowest.                          *)
(***************************************************************************)
EXTENDS Integers, Sequences

CONSTANTS
    Clients,
    Requests,       \* the kinds of request that they send: bounds a run
    Fds,            \* descriptors that the process may open for clients
    Signals,        \* SIGINTs and SIGTERMs that it gets: bounds a run
    MaxRestarts,    \* times that the process is started again: bounds a run
    None            \* no client, no descriptor, no request

Channels == {"telemetry", "alerts"}

\* Requests that are answered without touching anything that lasts: /health and
\* unknown routes; queries, as which metrics count, since they read the size;
\* POST /api/v1/ingest with a body that does not parse; bytes that are no HTTP
\* request; upgrades that lack a header.
Answered == {"health", "query", "badJson", "garbage", "badUpgrade"}
Kinds == Answered \cup Channels \cup {"ingest", "postUpgrade"}
UsesStorage == {"query", "ingest"}
Statuses == {"200", "202", "400", "101"}

ASSUME RequestsAssumption == Requests \subseteq Kinds
ASSUME SignalsAssumption == Signals \in Nat /\ MaxRestarts \in Nat
ASSUME NoneAssumption ==
    /\ None \notin Clients \cup Fds
    /\ None \notin Nat
    /\ None \notin Kinds \cup Statuses
    /\ None \notin [channel : Channels, from : Clients]

VARIABLES
    \* the process
    pc,             \* where the thread is
    running,        \* running_
    listening,      \* listenFd_: "none", "open" (not bound yet) or "listening"
    fds,            \* what every client descriptor is connected to
    current,        \* clientFd of the accept loop
    wsClients,      \* telemetryWsClients_ and alertWsClients_
    event,          \* in a broadcast: its channel and the client it tells of
    todo, active,   \* in a broadcast: descriptors to come, and kept
    handler,        \* "none", or "lock": Stop waits for wsMutex_
    \* the outside
    signals,        \* signals still to come
    backlog,        \* connections that wait for accept
    client,         \* "away", "silent", "asked" (its request was sent), "gone"
    request,        \* what it asked
    \* history
    stopAsked,      \* a signal came when the server was up
    restarts,       \* times that the process was started again
    answer,         \* the status line sent to a client
    log,            \* of each channel: the clients whose ingest it announced
    joined,         \* length of its channel's log when a client subscribed
    frames          \* the announcements sent to a client

process == <<pc, running, listening, fds, current, wsClients>>
broadcast == <<event, todo, active>>
outside == <<backlog, client, request>>
history == <<answer, log, joined, frames>>
epoch == <<stopAsked, restarts>>
vars == <<process, broadcast, handler, signals, outside, epoch, history>>

Init ==
    /\ pc = "start" /\ running = FALSE /\ listening = "none"
    /\ fds = [f \in Fds |-> None]
    /\ current = None
    /\ wsClients = [ch \in Channels |-> {}]
    /\ event = None /\ todo = {} /\ active = {}
    /\ handler = "none"
    /\ signals = Signals
    /\ backlog = <<>>
    /\ client = [c \in Clients |-> "away"]
    /\ request = [c \in Clients |-> None]
    /\ stopAsked = FALSE /\ restarts = 0
    /\ answer = [c \in Clients |-> None]
    /\ log = [ch \in Channels |-> <<>>]
    /\ joined = [c \in Clients |-> None]
    /\ frames = [c \in Clients |-> <<>>]

Exited == {"ended", "failed"}
StartingUp == {"start", "bind", "up"}

\* wsMutex_ is held.
Holding == pc \in {"push", "broadcast"}

\* The thread takes no step while a handler that interrupted it is blocked.
At(label) == pc = label /\ handler = "none"

\* The client on the other end of the descriptor that HandleClient serves.
Peer == fds[current]

FreeFds == {f \in Fds : fds[f] = None}

Close(closed) == fds' = [f \in Fds |-> IF f \in closed THEN None ELSE fds[f]]

\* The kernel closes every descriptor of a process that ends.
Exit(how) ==
    /\ pc' = how
    /\ Close(Fds)
    /\ current' = None
    /\ wsClients' = [ch \in Channels |-> {}]
    /\ listening' = "none"
    /\ backlog' = <<>>
    /\ UNCHANGED <<running, broadcast, handler, signals, client, request, epoch, history>>

-----------------------------------------------------------------------------
(* Start *)

Socket ==
    /\ At("start") /\ pc' = "bind"
    /\ listening' = "open"
    /\ UNCHANGED <<running, fds, current, wsClients, broadcast, handler, signals, outside,
                   epoch, history>>

Listen ==
    /\ At("bind") /\ pc' = "up"
    /\ listening = "open" /\ listening' = "listening"
    /\ UNCHANGED <<running, fds, current, wsClients, broadcast, handler, signals, outside,
                   epoch, history>>

\* socket, bind or listen fails, as they do when Stop has closed listenFd_.
StartThrows == (At("start") \/ At("bind")) /\ Exit("failed")

SetRunning ==
    /\ At("up") /\ pc' = "loop"
    /\ running' = TRUE
    /\ UNCHANGED <<listening, fds, current, wsClients, broadcast, handler, signals, outside,
                   epoch, history>>

LoopEnds == At("loop") /\ ~running /\ Exit("ended")

\* A call that fails while running_ is true is made again and changes nothing:
\* so it is when every descriptor is taken, or when listenFd_ is closed.
Accept(f) ==
    /\ At("loop") /\ pc' = "read"
    /\ running /\ listening = "listening"
    /\ backlog # <<>> /\ backlog' = Tail(backlog)
    /\ f \in FreeFds /\ current' = f
    /\ fds' = [fds EXCEPT ![f] = Head(backlog)]
    /\ UNCHANGED <<running, listening, wsClients, broadcast, handler, signals, client, request,
                   epoch, history>>

-----------------------------------------------------------------------------
(* HandleClient *)

CloseCurrent ==
    /\ pc' = "loop"
    /\ Close({current})
    /\ current' = None

\* A mistake in ReadNothing: only errors end the loop of recv, not a 0.
ReadNothingAgain == At("read") /\ client[Peer] = "gone" /\ UNCHANGED vars

\* recv returns nothing: the client left, and its request may be lost with it.
ReadNothing ==
    /\ At("read") /\ client[Peer] = "gone"
    /\ CloseCurrent
    /\ UNCHANGED <<running, listening, wsClients, broadcast, handler, signals, outside,
                   epoch, history>>

\* The answer is sent, whether it arrives or not, and the connection closed.
Route ==
    /\ At("read") /\ request[Peer] \in Answered
    /\ answer' = [answer EXCEPT ![Peer] =
                      IF request[Peer] \in {"health", "query"} THEN "200" ELSE "400"]
    /\ CloseCurrent
    /\ UNCHANGED <<running, listening, wsClients, broadcast, handler, signals, outside,
                   epoch, log, joined, frames>>

\* An upgrade that is not a GET is closed without an answer.
RefuseUpgrade ==
    /\ At("read") /\ request[Peer] = "postUpgrade"
    /\ CloseCurrent
    /\ UNCHANGED <<running, listening, wsClients, broadcast, handler, signals, outside,
                   epoch, history>>

\* An exception of Ingest or of a query: nothing catches it before main does.
StorageThrows == At("read") /\ request[Peer] \in UsesStorage /\ Exit("failed")

\* Ingest has returned, with its packet accepted or rejected.
Ingest ==
    /\ At("read") /\ request[Peer] = "ingest"
    /\ pc' = "publish"
    /\ \E ch \in Channels : event' = [channel |-> ch, from |-> Peer]
    /\ UNCHANGED <<running, listening, fds, current, wsClients, todo, active, handler, signals,
                   outside, epoch, history>>

Respond ==
    /\ At("respond")
    /\ answer' = [answer EXCEPT ![Peer] = IF event.channel = "telemetry" THEN "202" ELSE "400"]
    /\ CloseCurrent
    /\ event' = None
    /\ UNCHANGED <<running, listening, wsClients, todo, active, handler, signals, outside,
                   epoch, log, joined, frames>>

-----------------------------------------------------------------------------
(* WebSockets *)

\* The 101 answer was sent.
Upgrade ==
    /\ At("read") /\ request[Peer] \in Channels
    /\ pc' = "subscribe"
    /\ answer' = [answer EXCEPT ![Peer] = "101"]
    /\ UNCHANGED <<running, listening, fds, current, wsClients, broadcast, handler, signals,
                   outside, epoch, log, joined, frames>>

\* It could not be sent.
UpgradeFails ==
    /\ At("read") /\ request[Peer] \in Channels /\ client[Peer] = "gone"
    /\ CloseCurrent
    /\ UNCHANGED <<running, listening, wsClients, broadcast, handler, signals, outside,
                   epoch, history>>

LockToPush ==
    /\ At("subscribe") /\ pc' = "push"
    /\ UNCHANGED <<running, listening, fds, current, wsClients, broadcast, handler, signals,
                   outside, epoch, history>>

\* A mistake in Push: the descriptor is given up before it is in the list.
PushAfterReset ==
    /\ At("push") /\ pc' = "loop"
    /\ current' = None
    /\ LET ch == request[Peer]
       IN  /\ wsClients' = [wsClients EXCEPT ![ch] = @ \cup {current'}]
           /\ joined' = [joined EXCEPT ![Peer] = Len(log[ch])]
    /\ UNCHANGED <<running, listening, fds, broadcast, handler, signals, outside,
                   epoch, answer, log, frames>>

\* HandleClient returns true: the loop does not close the descriptor.
Push ==
    /\ At("push") /\ pc' = "loop"
    /\ LET ch == request[Peer]
       IN  /\ wsClients' = [wsClients EXCEPT ![ch] = @ \cup {current}]
           /\ joined' = [joined EXCEPT ![Peer] = Len(log[ch])]
    /\ current' = None
    /\ UNCHANGED <<running, listening, fds, broadcast, handler, signals, outside,
                   epoch, answer, log, frames>>

LockToBroadcast ==
    /\ At("publish") /\ pc' = "broadcast"
    /\ log' = [log EXCEPT ![event.channel] = Append(@, event.from)]
    /\ todo' = wsClients[event.channel] /\ active' = {}
    /\ UNCHANGED <<running, listening, fds, current, wsClients, event, handler, signals,
                   outside, epoch, answer, joined, frames>>

SendFrame(f) ==
    /\ At("broadcast") /\ f \in todo
    /\ todo' = todo \ {f}
    /\ active' = active \cup {f}
    /\ frames' = [frames EXCEPT ![fds[f]] = Append(@, event.from)]
    /\ UNCHANGED <<process, event, handler, signals, outside, epoch, answer, log, joined>>

\* A mistake in SendFrameFails: the rest of the broadcast is given up.
SendFrameGivesUp(f) ==
    /\ At("broadcast") /\ f \in todo /\ client[fds[f]] = "gone"
    /\ todo' = {}
    /\ active' = active \cup (todo \ {f})
    /\ Close({f})
    /\ UNCHANGED <<pc, running, listening, current, wsClients, event, handler, signals,
                   outside, epoch, history>>

SendFrameFails(f) ==
    /\ At("broadcast") /\ f \in todo /\ client[fds[f]] = "gone"
    /\ todo' = todo \ {f}
    /\ Close({f})
    /\ UNCHANGED <<pc, running, listening, current, wsClients, event, active, handler, signals,
                   outside, epoch, history>>

\* A mistake in SwapClients: closed descriptors stay in the list.
KeepClients ==
    /\ At("broadcast") /\ todo = {} /\ pc' = "respond"
    /\ active' = {}
    /\ UNCHANGED <<running, listening, fds, current, wsClients, event, todo, handler, signals,
                   outside, epoch, history>>

SwapClients ==
    /\ At("broadcast") /\ todo = {} /\ pc' = "respond"
    /\ wsClients' = [wsClients EXCEPT ![event.channel] = active]
    /\ active' = {}
    /\ UNCHANGED <<running, listening, fds, current, event, todo, handler, signals, outside,
                   epoch, history>>

-----------------------------------------------------------------------------
(* Stop *)

\* Stop closes the listening socket, which resets the connections that wait
\* there, and then every WebSocket client; it waits forever for a mutex that
\* the thread it interrupted holds.
Stop ==
    /\ listening' = "none"
    /\ backlog' = <<>>
    /\ IF Holding
       THEN handler' = "lock" /\ UNCHANGED <<fds, wsClients>>
       ELSE /\ Close(UNION {wsClients[ch] : ch \in Channels})
            /\ wsClients' = [ch \in Channels |-> {}]
            /\ UNCHANGED handler

\* A mistake in HandleSignal: Stop only closes the sockets.
SignalKeepsRunning ==
    /\ signals > 0 /\ signals' = signals - 1
    /\ pc \notin Exited /\ handler = "none"
    /\ Stop
    /\ stopAsked' = (stopAsked \/ pc \notin StartingUp)
    /\ UNCHANGED <<pc, running, current, broadcast, client, request, restarts, history>>

HandleSignal ==
    /\ signals > 0 /\ signals' = signals - 1
    /\ pc \notin Exited /\ handler = "none"
    /\ Stop /\ running' = FALSE
    /\ stopAsked' = (stopAsked \/ pc \notin StartingUp)
    /\ UNCHANGED <<pc, current, broadcast, client, request, restarts, history>>

-----------------------------------------------------------------------------
(* The process *)

\* It is started again, after it ended or was killed at any step.
Restart ==
    /\ restarts < MaxRestarts /\ restarts' = restarts + 1
    /\ pc' = "start" /\ running' = FALSE /\ listening' = "none"
    /\ Close(Fds) /\ current' = None
    /\ wsClients' = [ch \in Channels |-> {}]
    /\ event' = None /\ todo' = {} /\ active' = {}
    /\ handler' = "none" /\ stopAsked' = FALSE
    /\ backlog' = <<>>
    /\ UNCHANGED <<signals, client, request, history>>

-----------------------------------------------------------------------------
(* Clients *)

Queued(c) == \E i \in DOMAIN backlog : backlog[i] = c
Waiting(c) == Queued(c) \/ (current # None /\ Peer = c)
Connected(c) == Queued(c) \/ \E f \in Fds : fds[f] = c

Connect(c) ==
    /\ listening = "listening"
    /\ client[c] = "away" /\ client' = [client EXCEPT ![c] = "silent"]
    /\ backlog' = Append(backlog, c)
    /\ UNCHANGED <<process, broadcast, handler, signals, request, epoch, history>>

Ask(c) ==
    /\ client[c] = "silent" /\ client' = [client EXCEPT ![c] = "asked"]
    /\ Connected(c)
    /\ \E r \in Requests : request' = [request EXCEPT ![c] = r]
    /\ UNCHANGED <<process, broadcast, handler, signals, backlog, epoch, history>>

Leave(c) ==
    /\ client[c] \in {"silent", "asked"} /\ client' = [client EXCEPT ![c] = "gone"]
    /\ Connected(c)
    /\ UNCHANGED <<process, broadcast, handler, signals, backlog, request, epoch, history>>

-----------------------------------------------------------------------------
Serve ==
    \/ Socket \/ Listen \/ StartThrows \/ SetRunning \/ LoopEnds
    \/ ReadNothing \/ Route \/ RefuseUpgrade \/ StorageThrows \/ Ingest \/ Respond
    \/ Upgrade \/ UpgradeFails \/ LockToPush \/ Push
    \/ LockToBroadcast \/ SwapClients
    \/ \E f \in Fds : Accept(f) \/ SendFrame(f) \/ SendFrameFails(f)

Next ==
    \/ Serve
    \/ HandleSignal
    \/ Restart
    \/ \E c \in Clients : Connect(c) \/ Ask(c) \/ Leave(c)

Spec == Init /\ [][Next]_vars

\* The thread runs, Ingest returns, clients read what is sent to them, and one
\* that is silent asks or leaves at last: ReadHttpRequest and SendAll wait for
\* their clients without a limit.
FairSpec ==
    /\ Spec
    /\ WF_vars(Serve)
    /\ \A c \in Clients : WF_vars(client[c] = "silent" /\ (Ask(c) \/ Leave(c)))

-----------------------------------------------------------------------------
(* Properties *)

\* Types of the variables of HttpServer.
TypeOK ==
    /\ pc \in StartingUp \cup Exited \cup
              {"loop", "read", "publish", "subscribe", "push", "broadcast", "respond"}
    /\ running \in BOOLEAN
    /\ listening \in {"none", "open", "listening"}
    /\ fds \in [Fds -> Clients \cup {None}]
    /\ current \in Fds \cup {None}
    /\ wsClients \in [Channels -> SUBSET Fds]
    /\ event \in [channel : Channels, from : Clients] \cup {None}
    /\ todo \subseteq Fds /\ active \subseteq Fds
    /\ handler \in {"none", "lock"}
    /\ signals \in 0..Signals
    /\ backlog \in Seq(Clients)
    /\ client \in [Clients -> {"away", "silent", "asked", "gone"}]
    /\ request \in [Clients -> Requests \cup {None}]
    /\ stopAsked \in BOOLEAN /\ restarts \in 0..MaxRestarts
    /\ answer \in [Clients -> Statuses \cup {None}]
    /\ log \in [Channels -> Seq(Clients)]
    /\ joined \in [Clients -> Nat \cup {None}]
    /\ frames \in [Clients -> Seq(Clients)]

\* The descriptors that the lists stand for: within a broadcast, those that
\* it has kept and those that it has still to reach.
Listed(ch) ==
    IF pc = "broadcast" /\ event.channel = ch THEN active \cup todo ELSE wsClients[ch]

Loop == IF current = None THEN {} ELSE {current}

\* Every open descriptor belongs to exactly one of the accept loop and the two
\* lists, and none of these holds a closed one: HandleClient's keepOpen, the
\* swap in BroadcastMessage and the lists' clearing in Stop neither leak a
\* connection nor leave a number behind that accept gives to another client.
OwnedOnce ==
    /\ Loop \cup Listed("telemetry") \cup Listed("alerts") = Fds \ FreeFds
    /\ Loop \cap (Listed("telemetry") \cup Listed("alerts")) = {}
    /\ Listed("telemetry") \cap Listed("alerts") = {}

\* The events that a WebSocket client has not got since it was added.
Missed(c) == Len(log[request[c]]) - joined[c] - Len(frames[c])

\* What a subscriber got is the first of its channel's events since it was
\* added; while it is listed only a broadcast that has not reached it is missing.
Told(c) ==
    /\ Missed(c) >= 0
    /\ \A i \in DOMAIN frames[c] : frames[c][i] = log[request[c]][joined[c] + i]
    /\ \A f \in Listed(request[c]) : fds[f] = c => Missed(c) = IF f \in todo THEN 1 ELSE 0

\* A WebSocket client in a list has got every event of its channel since it was
\* added, once and in order, but for the one of a broadcast that has not
\* reached it yet; one that was dropped got the first of them; and nobody else
\* ever gets a frame, whatever descriptors are closed and given out again.
EventsComplete ==
    \A c \in Clients : IF joined[c] = None THEN frames[c] = <<>> ELSE Told(c)

\* A stop that is asked of a server that is up ends it, unless it came while
\* the thread held wsMutex_: then Stop waits for itself.
StopEnds == stopAsked ~> pc \in Exited \/ handler = "lock"

\* WebSocket clients have every descriptor that the process may open, also
\* those that left: only the next event of their channel closes theirs.
Full == FreeFds = {} /\ current = None

\* A client that waits to be accepted or answered is dealt with, unless accept
\* can never succeed again or a handler is blocked: the loop serves one client
\* after another, and a client that leaves does not keep it.
WaitEnds ==
    \A c \in Clients : Waiting(c) ~> ~Waiting(c) \/ Full \/ handler = "lock"

\* backend-cpp/README.md:29: "`WS /ws/alerts` for rejected ingest events", with
\* docs/api/openapi-outline.md:26, which lists parser errors among the answers
\* of "rejected ingest".
RejectedIsAnnounced ==
    \A c \in Clients : request[c] \in {"ingest", "badJson"} /\ answer[c] = "400" =>
        \E i \in DOMAIN log["alerts"] : log["alerts"][i] = c
=============================================================================
