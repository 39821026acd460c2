------------------------------- MODULE ChatHub -------------------------------
(***************************************************************************)
(* The WebSocket hubs of the API's instances (internal/chat/hub.go,        *)
(* redis.go): who is registered, who is subscribed to which conversation,  *)
(* the two pumps of every connection with the buffered channel between     *)
(* them, and the Redis channel by which the instances hear of each other's *)
(* messages.                                                               *)
(*                                                                         *)
(* The hub's mutex makes Register, Subscribe, removeClient and a Broadcast *)
(* one step each.  removeClient is called by both pumps and by every       *)
(* Broadcast that finds a full buffer, whenever those get to it.           *)
(***************************************************************************)
EXTENDS Integers, Sequences

CONSTANTS
  Clients,        \* WebSocket connections
  Conversations,
  Messages,
  Instances,      \* processes of the API, each with its hub
  HomeOf,         \* the instance of a client (and of a session, in SupportChat)
  Buffer,         \* capacity of a client's send channel
  None

ASSUME ChatHubConstants ==
  /\ Buffer \in Nat \ {0}
  /\ None \notin Conversations \cup Messages
  /\ \A c \in Clients : HomeOf[c] \in Instances

VARIABLES
  clients,      \* the registered clients of all hubs
  subscribers,  \* by conversation, of all hubs
  conns,        \* by client: its conversationID, its channel and its pumps
  inflight,     \* what Redis has for the subscriber loop of each instance
  down,         \* the instances that have come to an end
  owed,         \* per message, the clients a Broadcast has dealt with
  cut           \* the messages one of whose Broadcasts ran into a closed channel

hubVars == <<clients, subscribers, conns, inflight, down, owed, cut>>

-----------------------------------------------------------------------------
Pumps == {"read", "write"}

\* heard: what has been written to the socket; removals: calls of removeClient that are
\* due; closes: how often the channel has been closed.
NewConn == [topic |-> None, send |-> <<>>, pumps |-> {}, removals |-> 0, closes |-> 0,
            heard |-> {}]

Relays == [to : Instances, topic : Conversations, message : Messages]

HubTypeOK ==
  /\ clients \subseteq Clients
  /\ subscribers \in [Conversations -> SUBSET Clients]
  /\ conns \in [Clients ->
       [topic : Conversations \cup {None}, send : Seq(Messages \cup {None}),
        pumps : SUBSET Pumps, removals : Nat, closes : Nat, heard : SUBSET Messages]]
  /\ \A c \in Clients : Len(conns[c].send) <= Buffer
  /\ inflight \subseteq Relays
  /\ down \subseteq Instances
  /\ owed \in [Messages -> SUBSET Clients]
  /\ cut \subseteq Messages

HubInit ==
  /\ clients = {}
  /\ subscribers = [v \in Conversations |-> {}]
  /\ conns = [c \in Clients |-> NewConn]
  /\ inflight = {}
  /\ down = {}
  /\ owed = [m \in Messages |-> {}]
  /\ cut = {}

-----------------------------------------------------------------------------
(* A connection *)

\* HandleConnection
Register(c) ==
  /\ conns[c] = NewConn
  /\ HomeOf[c] \notin down
  /\ clients' = clients \cup {c}
  /\ conns' = [conns EXCEPT ![c].pumps = Pumps]
  /\ UNCHANGED <<subscribers, inflight, down, owed, cut>>

\* A "subscribe" frame.  The read pump may still have frames of a client that has been
\* removed; the client stays subscribed to the conversation it was at before.
Subscribe(c, v) ==
  /\ "read" \in conns[c].pumps
  /\ conns' = [conns EXCEPT ![c].topic = v]
  /\ subscribers' = [subscribers EXCEPT ![v] = @ \cup {c}]
  /\ UNCHANGED <<clients, inflight, down, owed, cut>>

\* sendError; what does not fit is dropped.
SendError(c) ==
  /\ "read" \in conns[c].pumps
  /\ conns[c].closes = 0
  /\ Len(conns[c].send) < Buffer
  /\ conns' = [conns EXCEPT ![c].send = Append(@, None)]
  /\ UNCHANGED <<clients, subscribers, inflight, down, owed, cut>>

\* The write pump writes what it takes from the channel.
Write(c) ==
  /\ "write" \in conns[c].pumps
  /\ conns[c].closes = 0
  /\ conns[c].send # <<>>
  /\ conns' = [conns EXCEPT ![c].send = Tail(@),
                            ![c].heard = (@ \cup {Head(conns[c].send)}) \ {None}]
  /\ UNCHANGED <<clients, subscribers, inflight, down, owed, cut>>

\* A pump returns: the peer is gone, a deadline has passed, a write has failed, the
\* channel is closed.  Its deferred removeClient is due.
Return(c, pump) ==
  /\ pump \in conns[c].pumps
  /\ conns' = [conns EXCEPT ![c].pumps = @ \ {pump}, ![c].removals = @ + 1]
  /\ UNCHANGED <<clients, subscribers, inflight, down, owed, cut>>

\* Mutant: no test whether the client is still registered.
RemoveUnchecked(c) ==
  /\ conns[c].removals > 0
  /\ clients' = clients \ {c}
  /\ subscribers' = IF conns[c].topic = None THEN subscribers
                    ELSE [subscribers EXCEPT ![conns[c].topic] = @ \ {c}]
  /\ conns' = [conns EXCEPT ![c].removals = @ - 1, ![c].closes = @ + 1]
  /\ UNCHANGED <<inflight, down, owed, cut>>

RemoveClient(c) ==
  LET v == conns[c].topic
  IN /\ conns[c].removals > 0
     /\ IF c \in clients
        THEN /\ clients' = clients \ {c}
             /\ subscribers' = IF v = None THEN subscribers
                               ELSE [subscribers EXCEPT ![v] = @ \ {c}]
             /\ conns' = [conns EXCEPT ![c].removals = @ - 1, ![c].closes = @ + 1]
        ELSE /\ conns' = [conns EXCEPT ![c].removals = @ - 1]
             /\ UNCHANGED <<clients, subscribers>>
     /\ UNCHANGED <<inflight, down, owed, cut>>

-----------------------------------------------------------------------------
(* Broadcast *)

Audience(i, v) == {c \in subscribers[v] : HomeOf[c] = i}
Closed(i, v) == {c \in Audience(i, v) : conns[c].closes > 0}

\* Mutant: a full buffer only drops the message.
OfferedOrDropped(conn, m) ==
  IF Len(conn.send) < Buffer THEN [conn EXCEPT !.send = Append(@, m)] ELSE conn

\* The select of Broadcast.
Offered(conn, m) ==
  IF Len(conn.send) < Buffer
  THEN [conn EXCEPT !.send = Append(@, m)]
  ELSE [conn EXCEPT !.removals = @ + 1]

Offer(S, m) ==
  /\ conns' = [c \in Clients |-> IF c \in S THEN Offered(conns[c], m) ELSE conns[c]]
  /\ owed' = [owed EXCEPT ![m] = @ \cup S]

\* Broadcast to a hub none of whose subscribers of v has a closed channel.
Broadcast(i, v, m) ==
  /\ Closed(i, v) = {}
  /\ Offer(Audience(i, v), m)
  /\ UNCHANGED <<clients, subscribers, cut>>

\* A send on a closed channel panics, somewhere in the loop over the map.
BroadcastPanics(i, v, m) ==
  /\ Closed(i, v) # {}
  /\ \E S \in SUBSET (Audience(i, v) \ Closed(i, v)) : Offer(S, m)
  /\ cut' = cut \cup {m}
  /\ UNCHANGED <<clients, subscribers>>

\* RedisPublisher.PublishMessage: the own hub, then Redis, which every instance hears,
\* the publishing one too.  Without Redis, or when it fails, nobody else does.
PublishMessage(i, v, m) ==
  /\ i \notin down
  /\ Broadcast(i, v, m)
  /\ \/ inflight' = inflight \cup [to : Instances \ down, topic : {v}, message : {m}]
     \/ UNCHANGED inflight
  /\ UNCHANGED down

\* The panic is recovered by the middleware of the request.
PublishPanics(i, v, m) ==
  /\ i \notin down
  /\ BroadcastPanics(i, v, m)
  /\ UNCHANGED <<inflight, down>>

\* One message of the loop of StartRedisSubscriber.
Relay(r) ==
  /\ r \in inflight
  /\ Broadcast(r.to, r.topic, r.message)
  /\ inflight' = inflight \ {r}
  /\ UNCHANGED down

\* An instance ends, and with it its hub and connections.
Ends(i) ==
  /\ down' = down \cup {i}
  /\ clients' = {c \in clients : HomeOf[c] # i}
  /\ subscribers' = [v \in Conversations |-> {c \in subscribers[v] : HomeOf[c] # i}]
  /\ conns' = [c \in Clients |->
                 IF HomeOf[c] = i /\ conns[c] # NewConn
                 THEN [conns[c] EXCEPT !.pumps = {}, !.removals = 0] ELSE conns[c]]
  /\ inflight' = {r \in inflight : r.to # i}
  /\ UNCHANGED owed

\* Nothing recovers a panic of the subscriber loop: it ends the process.
RelayPanics(r) ==
  /\ r \in inflight
  /\ Closed(r.to, r.topic) # {}
  /\ cut' = cut \cup {r.message}
  /\ Ends(r.to)

InstanceCrash(i) ==
  /\ i \notin down
  /\ Ends(i)
  /\ UNCHANGED cut

\* What connections do on their own.
Connection(c) ==
  \/ Register(c) \/ SendError(c) \/ Write(c) \/ RemoveClient(c)
  \/ \E pump \in Pumps : Return(c, pump)

\* The hubs with any publishers, each message published at most once.
HubNext ==
  \/ \E c \in Clients : Connection(c) \/ \E v \in Conversations : Subscribe(c, v)
  \/ \E i \in Instances, v \in Conversations, m \in Messages :
       /\ owed[m] = {} /\ m \notin cut
       /\ PublishMessage(i, v, m) \/ PublishPanics(i, v, m)
  \/ \E r \in inflight : Relay(r) \/ RelayPanics(r)
  \/ \E i \in Instances : InstanceCrash(i)

HubSpec == HubInit /\ [][HubNext]_hubVars

-----------------------------------------------------------------------------
(* Properties *)

\* A message a Broadcast has dealt with is not silently lost to a subscriber: it has been
\* written, waits in the client's channel, or the client is removed or about to be (so it
\* reconnects and fetches the history), however full buffers, both pumps and the
\* broadcasts of several goroutines come together.
HeardOrDropped ==
  \A m \in Messages : \A c \in owed[m] :
    \/ m \in conns[c].heard
    \/ \E k \in 1 .. Len(conns[c].send) : conns[c].send[k] = m
    \/ conns[c].removals > 0
    \/ c \notin clients

\* No channel is closed twice (which panics), though removeClient is called by both pumps
\* and by every Broadcast that meets a full buffer; a registered client's is open, and it
\* is subscribed to the conversation it is at.
ClosedOnce ==
  \A c \in Clients :
    /\ conns[c].closes <= 1
    /\ c \in clients => /\ conns[c].closes = 0
                        /\ conns[c].topic # None => c \in subscribers[conns[c].topic]

\* "SendMessage publishes message.new to all subscribers (including this client)"
\* (hub.go): no Broadcast is cut short.
\* The code does not keep it: README, section 5.
EverySubscriberIsSent == cut = {}
=============================================================================
