--------------------------- MODULE HttpServer_proofs ---------------------------
(***************************************************************************)
(* Theorems of HttpServer, for any clients, descriptors and signals: its   *)
(* types, that every open descriptor has one owner, and that subscribers   *)
(* get the events of their channel.                                        *)
(***************************************************************************)
EXTENDS HttpServer, TLAPS

\* Where the thread has a connection in hand, and where an event.
Serving == {"read", "publish", "subscribe", "push", "broadcast", "respond"}
Announcing == {"publish", "broadcast", "respond"}

\* What the place of the thread says of the connection and the event in hand;
\* a request is known once it was sent.
CallInv ==
    /\ current # None <=> pc \in Serving
    /\ event # None <=> pc \in Announcing
    /\ pc \in {"subscribe", "push"} => request[Peer] \in Channels
    /\ \A c \in Clients : request[c] # None => client[c] \in {"asked", "gone"}

\* A client has one connection, queued or open; neither it nor one that has not
\* come yet subscribed before.
ConnInv ==
    /\ \A f, g \in Fds : fds[f] # None /\ fds[f] = fds[g] => f = g
    /\ \A i, j \in DOMAIN backlog : backlog[i] = backlog[j] => i = j
    /\ \A i \in DOMAIN backlog :
          joined[backlog[i]] = None /\ \A f \in Fds : fds[f] # backlog[i]
    /\ \A c \in Clients : client[c] = "away" => joined[c] = None /\ ~Connected(c)
    /\ current # None => joined[Peer] = None

\* A listed descriptor leads to a subscriber of that channel, and the event of a
\* broadcast is the last of its log.
SubInv ==
    /\ \A ch \in Channels : \A f \in Listed(ch) :
          joined[fds[f]] # None /\ request[fds[f]] = ch
    /\ \A c \in Clients : joined[c] # None => request[c] \in Channels
    /\ pc # "broadcast" => todo = {}
    /\ todo \cap active = {}
    /\ pc = "broadcast" =>
          LET events == log[event.channel]
          IN  events # <<>> /\ events[Len(events)] = event.from

IInv == TypeOK /\ CallInv /\ OwnedOnce /\ ConnInv /\ SubInv /\ EventsComplete

USE NoneAssumption DEF Channels, Statuses, Kinds, Answered, Exited, StartingUp, Serving,
    Announcing, epoch

\* What Append does to a sequence.
LEMMA AppendFacts ==
    ASSUME NEW S, NEW s \in Seq(S), NEW e \in S
    PROVE  /\ Append(s, e) \in Seq(S) /\ Append(s, e) # <<>>
           /\ Len(s) \in Nat /\ Len(Append(s, e)) = Len(s) + 1
           /\ DOMAIN s = 1..Len(s) /\ DOMAIN Append(s, e) = 1..(Len(s) + 1)
           /\ \A i \in 1..Len(s) : Append(s, e)[i] = s[i]
           /\ Append(s, e)[Len(s) + 1] = e
OBVIOUS

\* A step that sends no frame, logs no event and adds nobody to a list keeps
\* what EventsComplete says.
LEMMA EventsKept ==
    ASSUME SubInv, EventsComplete, UNCHANGED <<todo, log, joined, frames>>,
           \A c \in Clients : joined[c] # None => request'[c] = request[c],
           \A ch \in Channels : \A f \in Listed(ch)' : f \in Listed(ch) /\ fds'[f] = fds[f]
    PROVE  EventsComplete'
<1>1. ASSUME NEW c \in Clients, joined[c] # None
      PROVE  Told(c)'
  <2>1. Told(c) /\ request'[c] = request[c] /\ request[c] \in Channels
    BY <1>1 DEF SubInv, EventsComplete
  <2>2. Missed(c)' = Missed(c)
    BY <2>1 DEF Missed
  <2> QED BY <2>1, <2>2 DEF Told
<1> QED BY <1>1 DEF EventsComplete

\* A server that has not started yet has nothing open.
LEMMA InitIInv == Init => IInv
<1> SUFFICES ASSUME Init PROVE IInv OBVIOUS
<1>1. TypeOK
  <2>1. /\ log \in [Channels -> Seq(Clients)] /\ frames \in [Clients -> Seq(Clients)]
        /\ backlog \in Seq(Clients)
    BY DEF Init
  <2>2. /\ signals \in 0..Signals
        /\ fds \in [Fds -> Clients \cup {None}]
        /\ wsClients \in [Channels -> SUBSET Fds]
        /\ restarts \in 0..MaxRestarts
    BY SignalsAssumption DEF Init
  <2> QED BY <2>1, <2>2 DEF TypeOK, Init
<1>2. CallInv BY DEF CallInv, Init
<1>3. OwnedOnce BY DEF OwnedOnce, Init, Loop, Listed, FreeFds
<1>4. ConnInv BY DEF ConnInv, Connected, Queued, Init
<1>5. SubInv BY DEF SubInv, Init, Listed
<1>6. EventsComplete BY DEF EventsComplete, Init
<1> QED BY <1>1, <1>2, <1>3, <1>4, <1>5, <1>6 DEF IInv

\* Steps that move no descriptor, frame or event keep who owns what and who
\* was told what.
LEMMA QuietStep ==
    ASSUME IInv, pc # "broadcast", pc' # "broadcast",
           UNCHANGED <<fds, current, wsClients, todo, active, backlog, client, request,
                       joined, log, frames>>
    PROVE  OwnedOnce' /\ ConnInv' /\ SubInv' /\ EventsComplete'
<1>1. OwnedOnce'
  BY DEF IInv, OwnedOnce, Loop, Listed, FreeFds
<1>2. ConnInv'
  BY DEF IInv, ConnInv, Connected, Queued, Peer
<1>3. SubInv'
  BY DEF IInv, SubInv, Listed
<1>4. EventsComplete'
  <2>1. \A ch \in Channels : Listed(ch)' = Listed(ch)
    BY DEF Listed
  <2> QED BY <2>1, EventsKept DEF IInv
<1> QED BY <1>1, <1>2, <1>3, <1>4

\* So do steps that close the connection in hand, which is in no list.
LEMMA ClosingStep ==
    ASSUME IInv, pc # "broadcast", current # None, CloseCurrent,
           UNCHANGED <<wsClients, todo, active, backlog, client, request, joined, log, frames>>
    PROVE  OwnedOnce' /\ ConnInv' /\ SubInv' /\ EventsComplete'
<1>1. /\ \A ch \in Channels : Listed(ch)' = Listed(ch) /\ current \notin Listed(ch)
      /\ \A ch \in Channels : Listed(ch) \subseteq Fds
      /\ current' = None /\ fds' = [f \in Fds |-> IF f = current THEN None ELSE fds[f]]
  BY DEF IInv, TypeOK, OwnedOnce, Loop, Listed, CloseCurrent, Close
<1>2. OwnedOnce'
  BY <1>1 DEF IInv, OwnedOnce, Loop, FreeFds
<1>3. ConnInv'
  BY <1>1 DEF IInv, TypeOK, ConnInv, Connected, Queued, Peer
<1>4. SubInv'
  BY <1>1 DEF IInv, SubInv, CloseCurrent
<1>5. EventsComplete'
  BY <1>1, EventsKept DEF IInv
<1> QED BY <1>2, <1>3, <1>4, <1>5

\* And so does the end of the process, after which nothing is open.
LEMMA ExitStep ==
    ASSUME IInv, pc \notin Announcing, NEW how \in Exited, Exit(how)
    PROVE  IInv'
<1>1. /\ pc' = how /\ current' = None /\ backlog' = <<>>
      /\ fds' = [f \in Fds |-> None] /\ wsClients' = [ch \in Channels |-> {}]
      /\ UNCHANGED <<event, todo, active, client, request, joined, log, frames>>
  BY DEF Exit, Close, broadcast, history
<1>2. TypeOK'
  BY <1>1 DEF IInv, TypeOK, Exit, history
<1>3. CallInv'
  BY <1>1 DEF IInv, CallInv
<1>4. OwnedOnce'
  BY <1>1 DEF OwnedOnce, Loop, Listed, FreeFds
<1>5. ConnInv'
  BY <1>1 DEF IInv, ConnInv, Connected, Queued
<1>6. SubInv'
  BY <1>1 DEF IInv, SubInv, Listed
<1>7. EventsComplete'
  <2>1. \A ch \in Channels : Listed(ch)' = {}
    BY <1>1 DEF Listed
  <2> QED BY <1>1, <2>1, EventsKept DEF IInv
<1> QED BY <1>2, <1>3, <1>4, <1>5, <1>6, <1>7 DEF IInv

\* socket gives the listening descriptor, which is none of the clients'.
LEMMA SocketKeeps == ASSUME IInv, Socket PROVE IInv'
<1>1. TypeOK'
  BY DEF IInv, TypeOK, Socket, At, broadcast, outside, history
<1>2. CallInv'
  BY DEF IInv, CallInv, Socket, At, broadcast, outside, history, Peer
<1>3. OwnedOnce' /\ ConnInv' /\ SubInv' /\ EventsComplete'
  BY QuietStep DEF IInv, CallInv, Socket, At, broadcast, outside, history
<1> QED BY <1>1, <1>2, <1>3 DEF IInv

\* bind and listen.
LEMMA ListenKeeps == ASSUME IInv, Listen PROVE IInv'
<1>1. TypeOK'
  BY DEF IInv, TypeOK, Listen, At, broadcast, outside, history
<1>2. CallInv'
  BY DEF IInv, CallInv, Listen, At, broadcast, outside, history, Peer
<1>3. OwnedOnce' /\ ConnInv' /\ SubInv' /\ EventsComplete'
  BY QuietStep DEF IInv, CallInv, Listen, At, broadcast, outside, history
<1> QED BY <1>1, <1>2, <1>3 DEF IInv

\* running_ becomes true.
LEMMA SetRunningKeeps == ASSUME IInv, SetRunning PROVE IInv'
<1>1. TypeOK'
  BY DEF IInv, TypeOK, SetRunning, At, broadcast, outside, history
<1>2. CallInv'
  BY DEF IInv, CallInv, SetRunning, At, broadcast, outside, history, Peer
<1>3. OwnedOnce' /\ ConnInv' /\ SubInv' /\ EventsComplete'
  BY QuietStep DEF IInv, CallInv, SetRunning, At, broadcast, outside, history
<1> QED BY <1>1, <1>2, <1>3 DEF IInv

\* The mutex is taken for a new subscriber.
LEMMA LockToPushKeeps == ASSUME IInv, LockToPush PROVE IInv'
<1>1. TypeOK'
  BY DEF IInv, TypeOK, LockToPush, At, broadcast, outside, history
<1>2. CallInv'
  BY DEF IInv, CallInv, LockToPush, At, broadcast, outside, history, Peer
<1>3. OwnedOnce' /\ ConnInv' /\ SubInv' /\ EventsComplete'
  BY QuietStep DEF IInv, CallInv, LockToPush, At, broadcast, outside, history
<1> QED BY <1>1, <1>2, <1>3 DEF IInv

\* Ingest leaves an event of the connection in hand.
LEMMA IngestKeeps == ASSUME IInv, Ingest PROVE IInv'
<1>1. TypeOK'
  BY DEF IInv, TypeOK, CallInv, OwnedOnce, Loop, FreeFds, Peer, Ingest, At, outside, history
<1>2. CallInv'
  BY DEF IInv, CallInv, TypeOK, OwnedOnce, Loop, FreeFds, Peer, Ingest, At, outside, history
<1>3. OwnedOnce' /\ ConnInv' /\ SubInv' /\ EventsComplete'
  BY QuietStep DEF IInv, CallInv, Ingest, At, outside, history
<1> QED BY <1>1, <1>2, <1>3 DEF IInv

\* The 101 answer; the descriptor stays with HandleClient.
LEMMA UpgradeKeeps == ASSUME IInv, Upgrade PROVE IInv'
<1>1. TypeOK'
  BY DEF IInv, TypeOK, CallInv, OwnedOnce, Loop, FreeFds, Peer, Upgrade, At, broadcast, outside
<1>2. CallInv'
  BY DEF IInv, CallInv, TypeOK, OwnedOnce, Loop, FreeFds, Peer, Upgrade, At, broadcast, outside
<1>3. OwnedOnce' /\ ConnInv' /\ SubInv' /\ EventsComplete'
  BY QuietStep DEF IInv, CallInv, Upgrade, At, broadcast, outside
<1> QED BY <1>1, <1>2, <1>3 DEF IInv

\* The descriptor of a client that left is closed: it was in no list.
LEMMA ReadNothingKeeps == ASSUME IInv, ReadNothing PROVE IInv'
<1>1. TypeOK'
  BY DEF IInv, TypeOK, CloseCurrent, Close, ReadNothing, At, broadcast, outside, history
<1>2. CallInv'
  BY DEF IInv, CallInv, CloseCurrent, Close, ReadNothing, At, broadcast, outside, history, Peer
<1>3. OwnedOnce' /\ ConnInv' /\ SubInv' /\ EventsComplete'
  BY ClosingStep DEF IInv, CallInv, ReadNothing, At, broadcast, outside, history
<1> QED BY <1>1, <1>2, <1>3 DEF IInv

\* A plain answer, after which the descriptor is closed.
LEMMA RouteKeeps == ASSUME IInv, Route PROVE IInv'
<1>1. TypeOK'
  BY DEF IInv, TypeOK, CloseCurrent, Close, Route, At, broadcast, outside
<1>2. CallInv'
  BY DEF IInv, CallInv, CloseCurrent, Close, Route, At, broadcast, outside, Peer
<1>3. OwnedOnce' /\ ConnInv' /\ SubInv' /\ EventsComplete'
  BY ClosingStep DEF IInv, CallInv, Route, At, broadcast, outside
<1> QED BY <1>1, <1>2, <1>3 DEF IInv

\* A refused upgrade, after which the descriptor is closed.
LEMMA RefuseUpgradeKeeps == ASSUME IInv, RefuseUpgrade PROVE IInv'
<1>1. TypeOK'
  BY DEF IInv, TypeOK, CloseCurrent, Close, RefuseUpgrade, At, broadcast, outside, history
<1>2. CallInv'
  BY DEF IInv, CallInv, CloseCurrent, Close, RefuseUpgrade, At, broadcast, outside, history, Peer
<1>3. OwnedOnce' /\ ConnInv' /\ SubInv' /\ EventsComplete'
  BY ClosingStep DEF IInv, CallInv, RefuseUpgrade, At, broadcast, outside, history
<1> QED BY <1>1, <1>2, <1>3 DEF IInv

\* The 101 answer could not be sent.
LEMMA UpgradeFailsKeeps == ASSUME IInv, UpgradeFails PROVE IInv'
<1>1. TypeOK'
  BY DEF IInv, TypeOK, CloseCurrent, Close, UpgradeFails, At, broadcast, outside, history
<1>2. CallInv'
  BY DEF IInv, CallInv, CloseCurrent, Close, UpgradeFails, At, broadcast, outside, history, Peer
<1>3. OwnedOnce' /\ ConnInv' /\ SubInv' /\ EventsComplete'
  BY ClosingStep DEF IInv, CallInv, UpgradeFails, At, broadcast, outside, history
<1> QED BY <1>1, <1>2, <1>3 DEF IInv

\* The answer to an ingest, after which the descriptor is closed.
LEMMA RespondKeeps == ASSUME IInv, Respond PROVE IInv'
<1>1. TypeOK'
  BY DEF IInv, TypeOK, CloseCurrent, Close, Respond, At, outside
<1>2. CallInv'
  BY DEF IInv, CallInv, CloseCurrent, Close, Respond, At, outside, Peer
<1>3. OwnedOnce' /\ ConnInv' /\ SubInv' /\ EventsComplete'
  BY ClosingStep DEF IInv, CallInv, Respond, At, outside
<1> QED BY <1>1, <1>2, <1>3 DEF IInv

\* The process ends: nothing is open any more.
LEMMA LoopEndsKeeps == ASSUME IInv, LoopEnds PROVE IInv'
BY ExitStep DEF LoopEnds, At

\* The process ends before it listens.
LEMMA StartThrowsKeeps == ASSUME IInv, StartThrows PROVE IInv'
BY ExitStep DEF StartThrows, At

\* An exception ends the process: nothing is open any more.
LEMMA StorageThrowsKeeps == ASSUME IInv, StorageThrows PROVE IInv'
BY ExitStep DEF StorageThrows, At

\* The descriptor goes from HandleClient to a list; its client has missed nothing.
LEMMA PushKeeps == ASSUME IInv, Push PROVE IInv'
<1>1. TypeOK'
    BY DEF IInv, TypeOK, CallInv, OwnedOnce, Loop, FreeFds, At, broadcast, outside, Peer,
       Push
<1>2. CallInv'
    BY DEF IInv, CallInv, At, broadcast, outside, Peer, Push
<1>3. OwnedOnce'
    BY DEF IInv, TypeOK, CallInv, OwnedOnce, Loop, Listed, FreeFds, At, broadcast,
       outside, Peer, Push
<1>4. ConnInv'
    BY DEF IInv, CallInv, OwnedOnce, ConnInv, Connected, Queued, Loop, At, broadcast,
       outside, Peer, Push
<1>5. SubInv'
    BY DEF IInv, TypeOK, CallInv, OwnedOnce, SubInv, Loop, Listed, FreeFds, At,
       broadcast, outside, Peer, Push
<1>6. EventsComplete'
  <2>1. PICK p \in Clients : p = Peer /\ joined[p] = None /\ request[p] \in Channels
    BY DEF IInv, TypeOK, CallInv, OwnedOnce, ConnInv, Loop, FreeFds, Peer, Push, At
  <2>2. log[request[p]] \in Seq(Clients) /\ Len(log[request[p]]) \in Nat
    BY <2>1 DEF IInv, TypeOK
  <2>3. /\ UNCHANGED <<fds, request, log, frames, todo>> /\ todo = {}
        /\ joined'[p] = Len(log[request[p]])
        /\ \A c \in Clients \ {p} : joined'[c] = joined[c]
    BY <2>1 DEF IInv, TypeOK, SubInv, Push, At, outside, broadcast
  <2>4. frames[p] = <<>>
    BY <2>1 DEF IInv, EventsComplete
  <2>5. Told(p)'
    <3>1. Missed(p)' = 0
      <4>1. Len(frames[p]) = 0
        BY <2>4
      <4> QED BY <2>2, <2>3, <4>1 DEF Missed
    <3> QED BY <2>3, <2>4, <3>1 DEF Told
  <2>6. \A d \in Channels : \A f \in Listed(d)' : f \in Listed(d) \/ f = current
    BY DEF IInv, Push, At, Listed
  <2>7. ASSUME NEW c \in Clients, c # p, joined[c] # None
        PROVE  Told(c)'
    <3>1. Told(c) /\ request[c] \in Channels /\ Missed(c)' = Missed(c)
      BY <2>3, <2>7 DEF IInv, SubInv, EventsComplete, Missed
    <3>2. \A f \in Listed(request[c])' : fds[f] = c => f \in Listed(request[c])
      BY <2>1, <2>3, <2>6, <2>7, <3>1 DEF Peer
    <3> QED BY <2>3, <2>7, <3>1, <3>2 DEF Told
  <2>8. \A c \in Clients : joined'[c] # None => c = p \/ joined[c] # None
    BY <2>3
  <2> QED BY <2>3, <2>4, <2>5, <2>7, <2>8 DEF IInv, EventsComplete
<1> QED BY <1>1, <1>2, <1>3, <1>4, <1>5, <1>6 DEF IInv

\* The event is logged, and every listed client misses it.
LEMMA LockToBroadcastKeeps == ASSUME IInv, LockToBroadcast PROVE IInv'
<1> DEFINE ch == event.channel
           e == event.from
<1>a. /\ ch \in Channels /\ e \in Clients /\ log[ch] \in Seq(Clients)
      /\ log'[ch] = Append(log[ch], e)
      /\ \A d \in Channels \ {ch} : log'[d] = log[d]
    BY DEF IInv, TypeOK, CallInv, LockToBroadcast, At
<1>b. \A d \in Channels : Listed(d)' = wsClients[d] /\ Listed(d) = wsClients[d]
    BY DEF IInv, LockToBroadcast, At, Listed
<1>c. Len(log[ch]) \in Nat /\ Len(log'[ch]) = Len(log[ch]) + 1
    BY <1>a, AppendFacts
<1>1. TypeOK'
    BY DEF IInv, TypeOK, CallInv, At, broadcast, outside, Peer, LockToBroadcast
<1>2. CallInv'
    BY DEF IInv, CallInv, At, broadcast, outside, Peer, LockToBroadcast
<1>3. OwnedOnce'
    BY DEF IInv, OwnedOnce, Loop, Listed, FreeFds, At, broadcast, outside, LockToBroadcast
<1>4. ConnInv'
    BY DEF IInv, ConnInv, Connected, Queued, At, broadcast, outside, Peer, LockToBroadcast
<1>5. SubInv'
  <2>1. log'[ch] # <<>> /\ log'[ch][Len(log'[ch])] = e
    BY <1>a, AppendFacts
  <2> QED BY <1>b, <2>1 DEF IInv, SubInv, At, broadcast, outside, LockToBroadcast
<1>6. EventsComplete'
  <2>1. /\ UNCHANGED <<fds, request, joined, frames>>
        /\ todo = {} /\ todo' = wsClients[ch]
    BY DEF IInv, SubInv, LockToBroadcast, At, outside
  <2>2. ASSUME NEW c \in Clients, joined[c] # None
        PROVE  Told(c)'
    <3>1. /\ Told(c) /\ request[c] \in Channels
          /\ joined[c] \in Nat /\ frames[c] \in Seq(Clients) /\ log[request[c]] \in Seq(Clients)
      BY <2>2 DEF IInv, TypeOK, SubInv, EventsComplete
    <3>2. /\ Len(frames[c]) \in Nat /\ DOMAIN frames[c] = 1..Len(frames[c])
          /\ Len(log[request[c]]) \in Nat
      BY <3>1
    <3>3. CASE request[c] = ch
      <4>1. Missed(c)' = Missed(c) + 1
        BY <1>c, <2>1, <3>1, <3>2, <3>3 DEF Missed
      <4>2. \A i \in DOMAIN frames[c] :
               /\ joined[c] + i \in 1..Len(log[ch])
               /\ log'[ch][joined[c] + i] = log[ch][joined[c] + i]
        BY <1>a, <3>1, <3>2, <3>3, AppendFacts DEF Told, Missed
      <4>3. Missed(c) \in Int
        BY <3>1, <3>2 DEF Missed
      <4> QED BY <1>b, <2>1, <3>1, <3>3, <4>1, <4>2, <4>3 DEF Told
    <3>4. CASE request[c] # ch
      <4>1. Missed(c)' = Missed(c) /\ log'[request[c]] = log[request[c]]
        BY <1>a, <2>1, <3>1, <3>4 DEF Missed
      <4>2. \A f \in Listed(request[c]) : f \notin todo'
        BY <1>a, <1>b, <2>1, <3>1, <3>4 DEF IInv, OwnedOnce
      <4> QED BY <1>b, <2>1, <3>1, <4>1, <4>2 DEF Told
    <3> QED BY <3>3, <3>4
  <2> QED BY <2>1, <2>2 DEF IInv, EventsComplete
<1> QED BY <1>1, <1>2, <1>3, <1>4, <1>5, <1>6 DEF IInv

\* The list becomes what the broadcast kept.
LEMMA SwapClientsKeeps == ASSUME IInv, SwapClients PROVE IInv'
<1>1. TypeOK'
    BY DEF IInv, TypeOK, At, broadcast, outside, history, SwapClients
<1>2. CallInv'
    BY DEF IInv, CallInv, At, broadcast, outside, history, Peer, SwapClients
<1>3. OwnedOnce'
    BY DEF IInv, TypeOK, OwnedOnce, Loop, Listed, FreeFds, At, broadcast, outside,
       history, SwapClients
<1>4. ConnInv'
    BY DEF IInv, ConnInv, Connected, Queued, At, broadcast, outside, history, Peer,
       SwapClients
<1>5. SubInv'
    BY DEF IInv, TypeOK, SubInv, Listed, At, broadcast, outside, history, SwapClients
<1>6. EventsComplete'
  <2>1. \A d \in Clients : joined[d] # None => request'[d] = request[d]
    BY DEF IInv, At, broadcast, outside, history, SwapClients
  <2>2. \A ch \in Channels : \A g \in Listed(ch)' : g \in Listed(ch) /\ fds'[g] = fds[g]
    BY DEF IInv, TypeOK, Listed, At, broadcast, outside, history, SwapClients
  <2> QED BY <2>1, <2>2, EventsKept DEF IInv, At, broadcast, outside, history, SwapClients
<1> QED BY <1>1, <1>2, <1>3, <1>4, <1>5, <1>6 DEF IInv

\* Stop closes what it takes out of the lists, or nothing.
LEMMA HandleSignalKeeps == ASSUME IInv, HandleSignal PROVE IInv'
<1>1. TypeOK'
  <2>1. signals' \in 0..Signals
    BY SignalsAssumption DEF IInv, TypeOK, HandleSignal
  <2>2. fds' \in [Fds -> Clients \cup {None}] /\ wsClients' \in [Channels -> SUBSET Fds]
    BY DEF IInv, TypeOK, HandleSignal, Stop, Close
  <2>3. backlog' \in Seq(Clients) /\ listening' = "none" /\ running' = FALSE
    BY DEF HandleSignal, Stop
  <2>4. /\ handler' \in {"none", "lock"} /\ stopAsked' \in BOOLEAN
        /\ UNCHANGED <<pc, current, event, todo, active, client, request, restarts, answer,
                       log, joined, frames>>
    BY DEF IInv, HandleSignal, Stop, broadcast, history
  <2> QED BY <2>1, <2>2, <2>3, <2>4 DEF IInv, TypeOK
<1>2. CallInv'
    BY DEF IInv, CallInv, OwnedOnce, Loop, Listed, broadcast, history, Peer,
       HandleSignal, Stop, Close, Holding
<1>3. OwnedOnce'
    BY DEF IInv, OwnedOnce, Loop, Listed, FreeFds, broadcast, history, HandleSignal,
       Stop, Close, Holding
<1>4. ConnInv'
  <2>1. /\ \A f \in Fds : fds'[f] = fds[f] \/ fds'[f] = None
        /\ current # None => fds'[current] = fds[current]
    BY DEF IInv, OwnedOnce, Loop, Listed, broadcast, history, HandleSignal, Stop, Close,
       Holding
  <2>2. backlog' = <<>> /\ UNCHANGED <<client, joined, current>>
    BY DEF HandleSignal, Stop, history
  <2> QED BY <2>1, <2>2 DEF IInv, ConnInv, Connected, Queued, Peer
<1>5. SubInv'
    BY DEF IInv, SubInv, Listed, broadcast, history, HandleSignal, Stop, Close, Holding
<1>6. EventsComplete'
  <2>1. \A d \in Clients : joined[d] # None => request'[d] = request[d]
    BY DEF IInv, broadcast, history, HandleSignal, Stop, Close, Holding
  <2>2. \A ch \in Channels : \A g \in Listed(ch)' : g \in Listed(ch) /\ fds'[g] = fds[g]
    BY DEF IInv, Listed, broadcast, history, HandleSignal, Stop, Close, Holding
  <2> QED BY <2>1, <2>2, EventsKept DEF IInv, broadcast, history, HandleSignal, Stop,
     Close, Holding
<1> QED BY <1>1, <1>2, <1>3, <1>4, <1>5, <1>6 DEF IInv

\* The process starts again with nothing open.
LEMMA RestartKeeps == ASSUME IInv, Restart PROVE IInv'
<1>1. /\ pc' = "start" /\ current' = None /\ backlog' = <<>>
      /\ fds' = [f \in Fds |-> None] /\ wsClients' = [ch \in Channels |-> {}]
      /\ event' = None /\ todo' = {} /\ active' = {}
      /\ UNCHANGED <<client, request, joined, log, frames>>
  BY DEF Restart, Close, history
<1>2. TypeOK'
  <2>1. restarts' \in 0..MaxRestarts
    BY SignalsAssumption DEF IInv, TypeOK, Restart
  <2>2. /\ fds' \in [Fds -> Clients \cup {None}] /\ wsClients' \in [Channels -> SUBSET Fds]
        /\ backlog' \in Seq(Clients)
    BY <1>1
  <2>3. /\ running' = FALSE /\ listening' = "none" /\ handler' = "none"
        /\ stopAsked' = FALSE /\ UNCHANGED <<signals, answer>>
    BY DEF Restart, history
  <2> QED BY <1>1, <2>1, <2>2, <2>3 DEF IInv, TypeOK
<1>3. CallInv'
  BY <1>1 DEF IInv, CallInv
<1>4. OwnedOnce'
  BY <1>1 DEF OwnedOnce, Loop, Listed, FreeFds
<1>5. ConnInv'
  BY <1>1 DEF IInv, ConnInv, Connected, Queued
<1>6. SubInv'
  BY <1>1 DEF IInv, SubInv, Listed
<1>7. EventsComplete'
  <2>1. \A c \in Clients : joined[c] # None => Told(c)'
    <3> SUFFICES ASSUME NEW c \in Clients, joined[c] # None PROVE Told(c)'
      OBVIOUS
    <3>1. Told(c) /\ request[c] \in Channels
      BY DEF IInv, SubInv, EventsComplete
    <3>2. Listed(request[c])' = {} /\ Missed(c)' = Missed(c)
      BY <1>1, <3>1 DEF Listed, Missed
    <3> QED BY <1>1, <3>1, <3>2 DEF Told
  <2> QED BY <1>1, <2>1 DEF IInv, EventsComplete
<1> QED BY <1>2, <1>3, <1>4, <1>5, <1>6, <1>7 DEF IInv

\* The first of the queue gets a descriptor that nobody has.
LEMMA AcceptKeeps == ASSUME IInv, NEW f \in Fds, Accept(f) PROVE IInv'
<1>1. TypeOK'
    BY DEF IInv, TypeOK, At, broadcast, history, Accept
<1>2. CallInv'
    BY DEF IInv, CallInv, At, broadcast, history, Peer, Accept
<1>3. OwnedOnce'
    BY DEF IInv, TypeOK, CallInv, OwnedOnce, Loop, Listed, FreeFds, At, broadcast,
       history, Peer, Accept
<1>4. ConnInv'
  <2>1. /\ DOMAIN backlog' = 1..(Len(backlog) - 1)
        /\ \A i \in DOMAIN backlog' : backlog'[i] = backlog[i + 1] /\ i + 1 \in DOMAIN backlog
        /\ 1 \in DOMAIN backlog /\ Head(backlog) = backlog[1]
        /\ \A i \in DOMAIN backlog' : i + 1 # 1
    BY DEF IInv, Accept
  <2>2. /\ \A g \in Fds : fds[g] # Head(backlog)
        /\ \A i \in DOMAIN backlog' : backlog'[i] # Head(backlog)
        /\ joined[Head(backlog)] = None
    BY <2>1 DEF IInv, ConnInv
  <2>3. Head(backlog) \in Clients /\ client[Head(backlog)] # "away"
    BY <2>1 DEF IInv, TypeOK, ConnInv, Connected, Queued
  <2>4. /\ current' = f /\ fds'[f] = Head(backlog) /\ fds[f] = None
        /\ \A g \in Fds \ {f} : fds'[g] = fds[g]
        /\ UNCHANGED <<joined, client>>
    BY DEF IInv, TypeOK, FreeFds, Accept, history
  <2>5. \A c \in Clients : client[c] = "away" => ~Connected(c)'
    BY <2>1, <2>2, <2>3, <2>4 DEF IInv, ConnInv, Connected, Queued
  <2>6. \A i, j \in DOMAIN backlog' : backlog'[i] = backlog'[j] => i = j
    <3> TAKE i, j \in DOMAIN backlog'
    <3>1. i \in Int /\ j \in Int BY <2>1 DEF IInv
    <3> QED BY <2>1, <3>1 DEF IInv, ConnInv
  <2> QED BY <2>1, <2>2, <2>4, <2>5, <2>6 DEF IInv, ConnInv, Peer
<1>5. SubInv'
    BY DEF IInv, OwnedOnce, SubInv, Listed, At, broadcast, history, Accept
<1>6. EventsComplete'
  <2>1. \A d \in Clients : joined[d] # None => request'[d] = request[d]
    BY DEF IInv, At, broadcast, history, Accept
  <2>2. \A ch \in Channels : \A g \in Listed(ch)' : g \in Listed(ch) /\ fds'[g] = fds[g]
    BY DEF IInv, OwnedOnce, Listed, At, broadcast, history, Accept
  <2> QED BY <2>1, <2>2, EventsKept DEF IInv, At, broadcast, history, Accept
<1> QED BY <1>1, <1>2, <1>3, <1>4, <1>5, <1>6 DEF IInv

\* One listed client gets the event that it missed.
LEMMA SendFrameKeeps == ASSUME IInv, NEW f \in Fds, SendFrame(f) PROVE IInv'
<1>a. PICK p \in Clients, ch \in Channels, e \in Clients :
         p = fds[f] /\ ch = event.channel /\ e = event.from /\ f \in Listed(ch)
    BY DEF IInv, TypeOK, CallInv, OwnedOnce, Listed, FreeFds, SendFrame, At
<1>b. /\ frames[p] \in Seq(Clients) /\ log[ch] \in Seq(Clients)
      /\ frames'[p] = Append(frames[p], e)
      /\ \A c \in Clients \ {p} : frames'[c] = frames[c]
    BY <1>a DEF IInv, TypeOK, SendFrame
<1>c. /\ UNCHANGED <<pc, wsClients, event, fds, request, log, joined>>
      /\ todo' = todo \ {f} /\ active' = active \cup {f}
      /\ f \in todo
    BY DEF SendFrame, process, outside
<1>d. \A d \in Channels : Listed(d)' = Listed(d)
    BY <1>c DEF Listed
<1>e. \A g \in Fds : fds[g] = p => g = f
    BY <1>a DEF IInv, ConnInv
<1>1. TypeOK'
    BY DEF IInv, TypeOK, CallInv, OwnedOnce, Listed, FreeFds, At, process, broadcast,
       outside, Peer, SendFrame
<1>2. CallInv'
    BY DEF IInv, CallInv, At, process, broadcast, outside, Peer, SendFrame
<1>3. OwnedOnce'
    BY DEF IInv, OwnedOnce, Loop, Listed, FreeFds, At, process, broadcast, outside,
       SendFrame
<1>4. ConnInv'
    BY DEF IInv, ConnInv, Connected, Queued, At, process, broadcast, outside, Peer,
       SendFrame
<1>5. SubInv'
    BY DEF IInv, SubInv, Listed, At, process, broadcast, outside, SendFrame
<1>6. EventsComplete'
  <2> DEFINE n == Len(frames[p])
  <2>1. /\ Told(p) /\ joined[p] # None /\ joined[p] \in Nat /\ request[p] = ch
        /\ log[ch][Len(log[ch])] = e
    BY <1>a DEF IInv, TypeOK, SubInv, EventsComplete, SendFrame, At
  <2>2. /\ n \in Nat /\ DOMAIN frames[p] = 1..n /\ Len(log[ch]) \in Nat
        /\ Len(frames'[p]) = n + 1 /\ DOMAIN frames'[p] = 1..(n + 1)
        /\ \A i \in 1..n : frames'[p][i] = frames[p][i]
        /\ frames'[p][n + 1] = e
    BY <1>b, AppendFacts
  <2>3. Len(log[ch]) - joined[p] - n = 1
    BY <1>a, <1>c, <2>1 DEF Told, Missed
  <2> HIDE DEF n
  <2>4. Missed(p)' = 0
    <3>1. Missed(p)' = Len(log[ch]) - joined[p] - Len(frames'[p])
      BY <1>c, <2>1 DEF Missed
    <3>2. Len(log[ch]) - joined[p] - (n + 1) = 0
      BY <2>1, <2>2, <2>3
    <3> QED BY <2>2, <3>1, <3>2
  <2>5. \A i \in 1..(n + 1) : frames'[p][i] = log[ch][joined[p] + i]
    <3>1. joined[p] + (n + 1) = Len(log[ch])
      BY <2>1, <2>2, <2>3
    <3>2. \A i \in 1..n : frames'[p][i] = log[ch][joined[p] + i]
      BY <2>1, <2>2 DEF Told
    <3>3. \A i \in 1..(n + 1) : i \in 1..n \/ i = n + 1
      BY <2>2
    <3> QED BY <2>1, <2>2, <3>1, <3>2, <3>3
  <2>6. Told(p)'
    <3>1. \A g \in Listed(ch) : fds[g] = p => g \notin todo'
      BY <1>a, <1>c, <1>e DEF IInv, TypeOK
    <3> QED BY <1>c, <1>d, <2>1, <2>2, <2>4, <2>5, <3>1 DEF Told
  <2>7. ASSUME NEW c \in Clients, c # p, joined[c] # None
        PROVE  Told(c)'
    <3>1. Told(c) /\ request[c] \in Channels /\ Missed(c)' = Missed(c)
      BY <1>b, <1>c, <2>7 DEF IInv, SubInv, EventsComplete, Missed
    <3> QED BY <1>a, <1>b, <1>c, <1>d, <2>7, <3>1 DEF Told
  <2> QED BY <1>b, <1>c, <2>1, <2>6, <2>7 DEF IInv, EventsComplete
<1> QED BY <1>1, <1>2, <1>3, <1>4, <1>5, <1>6 DEF IInv

\* A closed descriptor leaves the list with this broadcast.
LEMMA SendFrameFailsKeeps == ASSUME IInv, NEW f \in Fds, SendFrameFails(f) PROVE IInv'
<1>1. TypeOK'
    BY DEF IInv, TypeOK, At, broadcast, outside, history, SendFrameFails, Close
<1>2. CallInv'
    BY DEF IInv, CallInv, At, broadcast, outside, history, Peer, SendFrameFails, Close
<1>3. OwnedOnce'
    BY DEF IInv, TypeOK, CallInv, OwnedOnce, SubInv, Loop, Listed, FreeFds, At,
       broadcast, outside, history, Peer, SendFrameFails, Close
<1>4. ConnInv'
  <2>1. /\ \A g \in Fds : fds'[g] = fds[g] \/ fds'[g] = None
        /\ current # None => fds'[current] = fds[current]
    BY DEF IInv, TypeOK, CallInv, OwnedOnce, Loop, Listed, At, broadcast, outside,
       history, Peer, SendFrameFails, Close
  <2>2. UNCHANGED <<backlog, client, joined, current>>
    BY DEF SendFrameFails, history, outside
  <2> QED BY <2>1, <2>2 DEF IInv, TypeOK, ConnInv, Connected, Queued, Peer
<1>5. SubInv'
    BY DEF IInv, TypeOK, CallInv, SubInv, Listed, At, broadcast, outside, history, Peer,
       SendFrameFails, Close
<1>6. EventsComplete'
  <2>1. /\ UNCHANGED <<request, log, joined, frames>>
        /\ \A ch \in Channels : \A g \in Listed(ch)' :
              g \in Listed(ch) /\ g # f /\ fds'[g] = fds[g] /\ (g \in todo' <=> g \in todo)
    BY DEF IInv, TypeOK, CallInv, SubInv, Listed, At, broadcast, outside, history, Peer,
       SendFrameFails, Close
  <2>2. ASSUME NEW c \in Clients, joined[c] # None
        PROVE  Told(c)'
    <3>1. Told(c) /\ request[c] \in Channels /\ Missed(c)' = Missed(c)
      BY <2>1, <2>2 DEF IInv, SubInv, EventsComplete, Missed
    <3> QED BY <2>1, <3>1 DEF Told
  <2> QED BY <2>1, <2>2 DEF IInv, EventsComplete
<1> QED BY <1>1, <1>2, <1>3, <1>4, <1>5, <1>6 DEF IInv

\* A client that has no connection gets one.
LEMMA ConnectKeeps == ASSUME IInv, NEW c \in Clients, Connect(c) PROVE IInv'
<1>1. TypeOK'
    BY DEF IInv, TypeOK, process, broadcast, history, Connect
<1>2. CallInv'
    BY DEF IInv, CallInv, process, broadcast, history, Peer, Connect
<1>3. OwnedOnce'
    BY DEF IInv, OwnedOnce, Loop, Listed, FreeFds, process, broadcast, history, Connect
<1>4. ConnInv'
    BY DEF IInv, TypeOK, CallInv, ConnInv, Connected, Queued, process, broadcast,
       history, Peer, Connect
<1>5. SubInv'
    BY DEF IInv, SubInv, Listed, process, broadcast, history, Connect
<1>6. EventsComplete'
  <2>1. \A d \in Clients : joined[d] # None => request'[d] = request[d]
    BY DEF IInv, process, broadcast, history, Connect
  <2>2. \A ch \in Channels : \A g \in Listed(ch)' : g \in Listed(ch) /\ fds'[g] = fds[g]
    BY DEF IInv, Listed, process, broadcast, history, Connect
  <2> QED BY <2>1, <2>2, EventsKept DEF IInv, process, broadcast, history, Connect
<1> QED BY <1>1, <1>2, <1>3, <1>4, <1>5, <1>6 DEF IInv

\* A request, of a client that has asked nothing yet.
LEMMA AskKeeps == ASSUME IInv, NEW c \in Clients, Ask(c) PROVE IInv'
<1>a. PICK r \in Requests : request' = [request EXCEPT ![c] = r]
    BY DEF Ask
<1>b. request[c] = None /\ \A d \in Clients \ {c} : request'[d] = request[d]
    BY <1>a DEF Ask, IInv, CallInv
<1>1. TypeOK'
    BY <1>a DEF IInv, TypeOK, process, broadcast, history, Ask
<1>2. CallInv'
    BY <1>b DEF IInv, CallInv, TypeOK, process, broadcast, history, Peer, Ask
<1>3. OwnedOnce'
    BY DEF IInv, OwnedOnce, Loop, Listed, FreeFds, process, broadcast, history, Ask
<1>4. ConnInv'
    BY DEF IInv, ConnInv, Connected, Queued, process, broadcast, history, Peer, Ask,
       Connected, Queued
<1>5. SubInv'
    BY <1>b DEF IInv, SubInv, Listed, process, broadcast, history, Ask
<1>6. EventsComplete'
  <2>1. \A d \in Clients : joined[d] # None => request'[d] = request[d]
    BY <1>b DEF IInv, SubInv
  <2>2. \A ch \in Channels : \A g \in Listed(ch)' : g \in Listed(ch) /\ fds'[g] = fds[g]
    BY DEF Listed, process, broadcast, history, Ask
  <2> QED BY <2>1, <2>2, EventsKept DEF IInv, process, broadcast, history, Ask
<1> QED BY <1>1, <1>2, <1>3, <1>4, <1>5, <1>6 DEF IInv

\* A client leaves; its descriptor stays as it is.
LEMMA LeaveKeeps == ASSUME IInv, NEW c \in Clients, Leave(c) PROVE IInv'
<1>1. TypeOK'
    BY DEF IInv, TypeOK, process, broadcast, history, Leave
<1>2. CallInv'
    BY DEF IInv, CallInv, process, broadcast, history, Peer, Leave
<1>3. OwnedOnce'
    BY DEF IInv, OwnedOnce, Loop, Listed, FreeFds, process, broadcast, history, Leave
<1>4. ConnInv'
    BY DEF IInv, ConnInv, Connected, Queued, process, broadcast, history, Peer, Leave,
       Connected, Queued
<1>5. SubInv'
    BY DEF IInv, SubInv, Listed, process, broadcast, history, Leave
<1>6. EventsComplete'
  <2>1. \A d \in Clients : joined[d] # None => request'[d] = request[d]
    BY DEF IInv, process, broadcast, history, Leave
  <2>2. \A ch \in Channels : \A g \in Listed(ch)' : g \in Listed(ch) /\ fds'[g] = fds[g]
    BY DEF IInv, Listed, process, broadcast, history, Leave
  <2> QED BY <2>1, <2>2, EventsKept DEF IInv, process, broadcast, history, Leave
<1> QED BY <1>1, <1>2, <1>3, <1>4, <1>5, <1>6 DEF IInv

\* No step of the server, a signal or a client breaks the invariant.
LEMMA StepIInv == IInv /\ [Next]_vars => IInv'
<1> SUFFICES ASSUME IInv, [Next]_vars PROVE IInv'
    OBVIOUS
<1>1. CASE Serve
  <2>1. CASE \/ Socket \/ Listen \/ StartThrows \/ SetRunning \/ LoopEnds
    BY <2>1, SocketKeeps, ListenKeeps, StartThrowsKeeps, SetRunningKeeps, LoopEndsKeeps
  <2>2. CASE \/ ReadNothing \/ Route \/ RefuseUpgrade \/ StorageThrows \/ Ingest \/ Respond
    BY <2>2, ReadNothingKeeps, RouteKeeps, RefuseUpgradeKeeps, StorageThrowsKeeps,
       IngestKeeps, RespondKeeps
  <2>3. CASE \/ Upgrade \/ UpgradeFails \/ LockToPush \/ Push \/ LockToBroadcast \/ SwapClients
    BY <2>3, UpgradeKeeps, UpgradeFailsKeeps, LockToPushKeeps, PushKeeps,
       LockToBroadcastKeeps, SwapClientsKeeps
  <2>4. ASSUME NEW f \in Fds, Accept(f) \/ SendFrame(f) \/ SendFrameFails(f)
        PROVE  IInv'
    BY <2>4, AcceptKeeps, SendFrameKeeps, SendFrameFailsKeeps
  <2> QED
    BY <1>1, <2>1, <2>2, <2>3, <2>4 DEF Serve
<1>2. CASE HandleSignal \/ Restart
  BY <1>2, HandleSignalKeeps, RestartKeeps
<1>3. ASSUME NEW c \in Clients, Connect(c) \/ Ask(c) \/ Leave(c)
      PROVE  IInv'
  BY <1>3, ConnectKeeps, AskKeeps, LeaveKeeps
<1>4. CASE UNCHANGED vars
  <2>1. UNCHANGED <<pc, running, listening, fds, current, wsClients, event, todo, active,
                    handler, signals, backlog, client, request, epoch, answer, log,
                    joined, frames>>
    BY <1>4 DEF vars, process, broadcast, outside, history
  <2>2. TypeOK' /\ CallInv' /\ OwnedOnce'
    BY <2>1 DEF IInv, TypeOK, CallInv, OwnedOnce, Peer, Loop, Listed, FreeFds
  <2>3. ConnInv' /\ SubInv'
    BY <2>1 DEF IInv, ConnInv, SubInv, Connected, Queued, Peer, Listed
  <2>4. EventsComplete'
    BY <2>1, EventsKept DEF IInv, Listed
  <2> QED BY <2>2, <2>3, <2>4 DEF IInv
<1> QED
  BY <1>1, <1>2, <1>3, <1>4 DEF Next

\* The invariant holds in every state of every behaviour.
LEMMA Invariance == Spec => []IInv
BY InitIInv, StepIInv, PTL DEF Spec

\* The types of HttpServer's variables.
THEOREM TypeCorrect == Spec => []TypeOK
<1>1. IInv => TypeOK
  BY DEF IInv
<1> QED BY <1>1, Invariance, PTL

\* Whatever clients and signals do, every descriptor that is open has one owner,
\* the connection in hand or one list, and no owner keeps a closed one.
THEOREM DescriptorsHaveOneOwner == Spec => []OwnedOnce
<1>1. IInv => OwnedOnce
  BY DEF IInv
<1> QED BY <1>1, Invariance, PTL

\* A WebSocket client gets every event of its channel while it is listed, once
\* and in order, and nobody else is ever sent a frame.
THEOREM SubscribersGetEvents == Spec => []EventsComplete
<1>1. IInv => EventsComplete
  BY DEF IInv
<1> QED BY <1>1, Invariance, PTL
================================================================================
