------------------------- MODULE SupportChatProofs -------------------------
(***************************************************************************)
(* What holds of SupportChat, and of the hubs of ChatHub under it, for any *)
(* number of connections, conversations, messages, requests and instances: *)
(* proofs for TLAPS.                                                       *)
(***************************************************************************)
EXTENDS SupportChat, FiniteSetTheorems, TLAPS

-----------------------------------------------------------------------------
(* Channels. *)

Waits(m, q) == \E k \in 1 .. Len(q) : q[k] = m

Payloads == Messages \cup {None}

\* What is put into a channel waits there, and so does what waited before.
LEMMA ChannelGrows ==
  ASSUME NEW q \in Seq(Payloads), NEW x \in Payloads
  PROVE  /\ Append(q, x) \in Seq(Payloads)
         /\ Len(Append(q, x)) = Len(q) + 1
         /\ Waits(x, Append(q, x))
         /\ \A m \in Payloads : Waits(m, q) => Waits(m, Append(q, x))
<1>1. Len(q) \in Nat /\ Append(q, x) \in Seq(Payloads) /\ Len(Append(q, x)) = Len(q) + 1
  OBVIOUS
<1>2. Append(q, x)[Len(q) + 1] = x
  OBVIOUS
<1>3. \A k \in 1 .. Len(q) : Append(q, x)[k] = q[k]
  OBVIOUS
<1> QED BY <1>1, <1>2, <1>3 DEF Waits

\* What waits in a channel is its head or waits behind it.
LEMMA ChannelShrinks ==
  ASSUME NEW q \in Seq(Payloads), q # <<>>
  PROVE  /\ Tail(q) \in Seq(Payloads)
         /\ Len(Tail(q)) = Len(q) - 1
         /\ Head(q) \in Payloads
         /\ \A m \in Payloads : Waits(m, q) => m = Head(q) \/ Waits(m, Tail(q))
<1>1. Len(q) \in Nat \ {0} /\ Tail(q) \in Seq(Payloads) /\ Len(Tail(q)) = Len(q) - 1
  OBVIOUS
<1>2. Head(q) = q[1] /\ Head(q) \in Payloads
  OBVIOUS
<1>3. \A k \in 2 .. Len(q) : Tail(q)[k - 1] = q[k]
  OBVIOUS
<1>4. \A m \in Payloads : Waits(m, q) => m = Head(q) \/ Waits(m, Tail(q))
  <2> SUFFICES ASSUME NEW m \in Payloads, NEW k \in 1 .. Len(q), q[k] = m, m # Head(q)
               PROVE  Waits(m, Tail(q))
    BY DEF Waits
  <2>1. k \in 2 .. Len(q)
    BY <1>1, <1>2
  <2>2. Tail(q)[k - 1] = m /\ k - 1 \in 1 .. Len(Tail(q))
    BY <2>1, <1>1, <1>3
  <2> QED BY <2>2 DEF Waits
<1> QED BY <1>1, <1>2, <1>4

-----------------------------------------------------------------------------
(* The hubs. *)

Conn ==
  [topic : Conversations \cup {None}, send : Seq(Payloads), pumps : SUBSET Pumps,
   removals : Nat, closes : Nat, heard : SUBSET Messages]

\* One connection's share of ClosedOnce and of HeardOrDropped.
Arrives(m, conn) == m \in conn.heard \/ Waits(m, conn.send) \/ conn.removals > 0

Sound(c) ==
  /\ conns[c].closes <= 1
  /\ c \in clients => /\ conns[c].closes = 0
                      /\ conns[c].topic # None => c \in subscribers[conns[c].topic]

\* A connection that has not subscribed yet is in no audience and has been sent nothing,
\* so one that registers starts with nothing owed to it.
Unheard(c) ==
  conns[c].topic = None =>
    /\ \A v \in Conversations : c \notin subscribers[v]
    /\ \A m \in Messages : c \notin owed[m]

HubConns ==
  /\ \A c \in Clients : Sound(c) /\ Unheard(c)
  /\ \A m \in Messages : \A c \in owed[m] : Arrives(m, conns[c]) \/ c \notin clients

HubInv == HubTypeOK /\ HubConns

\* A connection has its type.
LEMMA ConnTypes ==
  ASSUME HubTypeOK, NEW c \in Clients
  PROVE  /\ conns \in [Clients -> Conn]
         /\ conns[c] \in Conn
         /\ conns[c].topic \in Conversations \cup {None}
         /\ conns[c].send \in Seq(Payloads)
         /\ Len(conns[c].send) <= Buffer
         /\ conns[c].pumps \subseteq Pumps
         /\ conns[c].removals \in Nat
         /\ conns[c].closes \in Nat
         /\ conns[c].heard \subseteq Messages
<1>1. conns \in [Clients -> Conn] /\ Len(conns[c].send) <= Buffer
  BY DEF HubTypeOK, Conn, Payloads
<1>2. conns[c] \in Conn
  BY <1>1
<1> QED BY <1>1, <1>2 DEF Conn

\* At the start no connection has been used.
LEMMA InitHub == HubInit => HubInv
<1> SUFFICES ASSUME HubInit PROVE HubInv
  OBVIOUS
<1>1. NewConn \in Conn /\ Len(NewConn.send) = 0
  BY DEF NewConn, Conn
<1>2. \A c \in Clients : conns[c] = NewConn
  BY DEF HubInit
<1>3. HubTypeOK
  BY <1>1, <1>2, ChatHubConstants DEF HubInit, HubTypeOK, Conn, Payloads
<1>4. HubConns
  BY <1>2 DEF HubInit, HubConns, Sound, Unheard, NewConn
<1> QED BY <1>3, <1>4 DEF HubInv

\* A step of one connection that neither moves nor closes it, and keeps what it owes.
LEMMA OneConnection ==
  ASSUME HubInv,
         UNCHANGED <<clients, subscribers, inflight, down, owed, cut>>,
         NEW c \in Clients, NEW conn \in Conn,
         conns' = [conns EXCEPT ![c] = conn],
         Len(conn.send) <= Buffer,
         conn.topic = conns[c].topic,
         conn.closes = conns[c].closes,
         \A m \in Messages : Arrives(m, conns[c]) => Arrives(m, conn)
  PROVE  HubInv'
<1>1. \A d \in Clients : conns'[d] = IF d = c THEN conn ELSE conns[d]
  BY DEF HubInv, HubTypeOK
<1>2. conns' \in [Clients -> Conn]
  BY ConnTypes DEF HubInv
<1>3. HubTypeOK'
  BY <1>1, <1>2 DEF HubInv, HubTypeOK, Conn, Payloads
<1>4. \A d \in Clients : Sound(d)' /\ Unheard(d)'
  BY <1>1 DEF HubInv, HubConns, Sound, Unheard
<1>5. \A m \in Messages : \A d \in owed[m] : d \in Clients
  BY DEF HubInv, HubTypeOK
<1>6. \A m \in Messages : \A d \in owed'[m] : Arrives(m, conns[d])' \/ d \notin clients'
  <2> SUFFICES ASSUME NEW m \in Messages, NEW d \in owed[m], d \in clients
               PROVE  Arrives(m, conns'[d])
    BY DEF Arrives
  <2>1. Arrives(m, conns[d])
    BY DEF HubInv, HubConns
  <2> QED BY <2>1, <1>1, <1>5
<1> QED BY <1>3, <1>4, <1>6 DEF HubInv, HubConns

\* SendError
LEMMA SendErrorKeeps ==
  ASSUME HubInv, NEW c \in Clients, SendError(c) PROVE HubInv'
<1> DEFINE conn == [conns[c] EXCEPT !.send = Append(@, None)]
<1>1. conns' = [conns EXCEPT ![c] = conn]
  BY DEF SendError
<1>2. conns[c].send \in Seq(Payloads) /\ None \in Payloads /\ conns[c] \in Conn
  BY ConnTypes DEF HubInv, Payloads
<1>3. conn.send = Append(conns[c].send, None) /\ conn.send \in Seq(Payloads)
  BY <1>2, ChannelGrows DEF Conn
<1>4. conn \in Conn
  BY <1>2, <1>3 DEF Conn
<1>5. Len(conn.send) <= Buffer
  BY <1>2, <1>3, ChannelGrows, ChatHubConstants DEF SendError
<1>6. \A m \in Messages : Arrives(m, conns[c]) => Arrives(m, conn)
  BY <1>2, <1>3, ChannelGrows DEF Arrives, Payloads, Conn
<1>7. conn.topic = conns[c].topic /\ conn.closes = conns[c].closes
  BY <1>2 DEF Conn
<1> HIDE DEF conn
<1>8. UNCHANGED <<clients, subscribers, inflight, down, owed, cut>>
  BY DEF SendError
<1> QED BY <1>1, <1>4, <1>5, <1>6, <1>7, <1>8, OneConnection

\* Write
LEMMA WriteKeeps ==
  ASSUME HubInv, NEW c \in Clients, Write(c) PROVE HubInv'
<1> DEFINE conn == [conns[c] EXCEPT !.send = Tail(@),
                                    !.heard = (@ \cup {Head(conns[c].send)}) \ {None}]
<1>2. /\ conns[c].send \in Seq(Payloads) /\ conns[c].send # <<>> /\ conns[c] \in Conn
      /\ conns[c].heard \subseteq Messages /\ Len(conns[c].send) <= Buffer
  BY ConnTypes DEF HubInv, Write
<1>1. conns' = [conns EXCEPT ![c] = conn]
  BY <1>2, ConnTypes DEF Write, Conn, HubInv
<1>3. /\ conn.send = Tail(conns[c].send) /\ conn.send \in Seq(Payloads)
      /\ conn.heard = (conns[c].heard \cup {Head(conns[c].send)}) \ {None}
      /\ conn.removals = conns[c].removals
  BY <1>2, ChannelShrinks DEF Conn
<1>4. conn \in Conn
  BY <1>2, <1>3, ChannelShrinks DEF Conn, Payloads
<1>5. Len(conn.send) <= Buffer
  BY <1>2, <1>3, ChannelShrinks, ChatHubConstants
<1>6. \A m \in Messages : Arrives(m, conns[c]) => Arrives(m, conn)
  <2> SUFFICES ASSUME NEW m \in Messages, Arrives(m, conns[c]) PROVE Arrives(m, conn)
    OBVIOUS
  <2>1. m # None /\ m \in Payloads
    BY ChatHubConstants DEF Payloads
  <2>2. CASE m \in conns[c].heard
    BY <2>1, <2>2, <1>3 DEF Arrives
  <2>3. CASE Waits(m, conns[c].send)
    <3>1. m = Head(conns[c].send) \/ Waits(m, Tail(conns[c].send))
      BY <1>2, <2>1, <2>3, ChannelShrinks
    <3> QED BY <3>1, <2>1, <1>3 DEF Arrives
  <2>4. CASE conns[c].removals > 0
    BY <2>4, <1>3 DEF Arrives
  <2> QED BY <2>2, <2>3, <2>4 DEF Arrives
<1>7. conn.topic = conns[c].topic /\ conn.closes = conns[c].closes
  BY <1>2 DEF Conn
<1> HIDE DEF conn
<1>8. UNCHANGED <<clients, subscribers, inflight, down, owed, cut>>
  BY DEF Write
<1> QED BY <1>1, <1>4, <1>5, <1>6, <1>7, <1>8, OneConnection

\* Return
LEMMA ReturnKeeps ==
  ASSUME HubInv, NEW c \in Clients, NEW pump \in Pumps, Return(c, pump) PROVE HubInv'
<1> DEFINE conn == [conns[c] EXCEPT !.pumps = @ \ {pump}, !.removals = @ + 1]
<1>2. /\ conns[c] \in Conn /\ conns[c].removals \in Nat /\ Len(conns[c].send) <= Buffer
  BY ConnTypes DEF HubInv
<1>1. conns' = [conns EXCEPT ![c] = conn]
  BY <1>2, ConnTypes DEF Return, Conn, HubInv
<1>3. /\ conn.removals = conns[c].removals + 1
      /\ conn.send = conns[c].send /\ conn.heard = conns[c].heard
      /\ conn.topic = conns[c].topic /\ conn.closes = conns[c].closes
  BY <1>2 DEF Conn
<1>4. conn \in Conn
  <2>1. conns[c].pumps \ {pump} \in SUBSET Pumps /\ conns[c].removals + 1 \in Nat
    BY <1>2, ConnTypes DEF HubInv
  <2> QED BY <2>1, <1>2 DEF Conn
<1>6. \A m \in Messages : Arrives(m, conns[c]) => Arrives(m, conn)
  BY <1>3, <1>2 DEF Arrives
<1> HIDE DEF conn
<1>8. UNCHANGED <<clients, subscribers, inflight, down, owed, cut>>
  BY DEF Return
<1> QED BY <1>1, <1>2, <1>3, <1>4, <1>6, <1>8, OneConnection

\* Register
LEMMA RegisterKeeps ==
  ASSUME HubInv, NEW c \in Clients, Register(c) PROVE HubInv'
<1> DEFINE conn == [NewConn EXCEPT !.pumps = Pumps]
<1>1. /\ conn \in Conn /\ conn.send = <<>> /\ conn.topic = None /\ conn.closes = 0
      /\ Len(conn.send) <= Buffer
  <2>1. NewConn \in Conn
    BY DEF NewConn, Conn
  <2>2. conn.send = <<>> /\ conn.topic = None /\ conn.closes = 0
    BY DEF NewConn
  <2>3. conn \in Conn
    BY <2>1 DEF Conn
  <2> QED BY <2>2, <2>3, ChatHubConstants
<1>2. conns[c] = NewConn /\ conns[c].topic = None
  BY DEF Register, NewConn
<1>3. conns' = [conns EXCEPT ![c] = conn]
  BY <1>2 DEF Register, HubInv, HubTypeOK
<1> HIDE DEF conn
<1>4. \A d \in Clients : conns'[d] = IF d = c THEN conn ELSE conns[d]
  BY <1>3 DEF HubInv, HubTypeOK
<1>5. /\ clients' = clients \cup {c}
      /\ UNCHANGED <<subscribers, inflight, down, owed, cut>>
  BY DEF Register
<1>6. conns' \in [Clients -> Conn]
  BY <1>1, <1>3, ConnTypes DEF HubInv
<1>7. HubTypeOK'
  BY <1>1, <1>4, <1>5, <1>6 DEF HubInv, HubTypeOK, Conn, Payloads
<1>8. \A v \in Conversations : c \notin subscribers[v]
  BY <1>2 DEF HubInv, HubConns, Unheard
<1>9. \A m \in Messages : c \notin owed[m]
  BY <1>2 DEF HubInv, HubConns, Unheard
<1>10. \A d \in Clients : Sound(d)' /\ Unheard(d)'
  BY <1>1, <1>4, <1>5, <1>8, <1>9 DEF HubInv, HubConns, Sound, Unheard
<1>11. \A m \in Messages : \A d \in owed'[m] : Arrives(m, conns[d])' \/ d \notin clients'
  <2> SUFFICES ASSUME NEW m \in Messages, NEW d \in owed[m], d \in clients'
               PROVE  Arrives(m, conns'[d])
    BY <1>5 DEF Arrives
  <2>1. d # c /\ d \in Clients
    BY <1>9 DEF HubInv, HubTypeOK
  <2> QED BY <2>1, <1>4, <1>5 DEF HubInv, HubConns
<1> QED BY <1>7, <1>10, <1>11 DEF HubInv, HubConns

\* Subscribe
LEMMA SubscribeKeeps ==
  ASSUME HubInv, NEW c \in Clients, NEW v \in Conversations, Subscribe(c, v) PROVE HubInv'
<1> DEFINE conn == [conns[c] EXCEPT !.topic = v]
<1>2. conns[c] \in Conn /\ Len(conns[c].send) <= Buffer
  BY ConnTypes DEF HubInv
<1>3. /\ conn \in Conn /\ conn.send = conns[c].send /\ conn.heard = conns[c].heard
      /\ conn.removals = conns[c].removals /\ conn.closes = conns[c].closes
      /\ conn.topic = v
  BY <1>2 DEF Conn
<1>1. conns' = [conns EXCEPT ![c] = conn]
  BY <1>2, ConnTypes DEF Subscribe, Conn, HubInv
<1> HIDE DEF conn
<1>4. \A d \in Clients : conns'[d] = IF d = c THEN conn ELSE conns[d]
  BY <1>1 DEF HubInv, HubTypeOK
<1>5. /\ subscribers' = [subscribers EXCEPT ![v] = @ \cup {c}]
      /\ UNCHANGED <<clients, inflight, down, owed, cut>>
  BY DEF Subscribe
<1>6. subscribers \in [Conversations -> SUBSET Clients] /\ conns \in [Clients -> Conn]
  BY ConnTypes DEF HubInv, HubTypeOK
<1>7. conns' \in [Clients -> Conn]
  BY <1>1, <1>3, <1>6
<1>8. subscribers' \in [Conversations -> SUBSET Clients]
  BY <1>5, <1>6
<1>9. HubTypeOK'
  BY <1>2, <1>3, <1>4, <1>5, <1>7, <1>8 DEF HubInv, HubTypeOK, Conn, Payloads
<1>10. \A w \in Conversations : subscribers'[w] = IF w = v THEN subscribers[w] \cup {c}
                                                  ELSE subscribers[w]
  BY <1>5, <1>6
<1>11. v # None
  BY ChatHubConstants
<1>12. \A d \in Clients : Sound(d)' /\ Unheard(d)'
  <2> SUFFICES ASSUME NEW d \in Clients PROVE Sound(d)' /\ Unheard(d)'
    OBVIOUS
  <2>1. Sound(d) /\ Unheard(d) /\ conns[d].topic \in Conversations \cup {None}
    BY ConnTypes DEF HubInv, HubConns
  <2>2. CASE d = c
    BY <2>1, <2>2, <1>3, <1>4, <1>5, <1>10, <1>11 DEF Sound, Unheard
  <2>3. CASE d # c
    BY <2>1, <2>3, <1>4, <1>5, <1>10 DEF Sound, Unheard
  <2> QED BY <2>2, <2>3
<1>13. \A m \in Messages : \A d \in owed'[m] : Arrives(m, conns[d])' \/ d \notin clients'
  <2> SUFFICES ASSUME NEW m \in Messages, NEW d \in owed[m], d \in clients
               PROVE  Arrives(m, conns'[d])
    BY <1>5 DEF Arrives
  <2>1. d \in Clients /\ Arrives(m, conns[d])
    BY DEF HubInv, HubTypeOK, HubConns
  <2> QED BY <2>1, <1>3, <1>4 DEF Arrives
<1> QED BY <1>9, <1>12, <1>13 DEF HubInv, HubConns

\* removeClient: the first closes the channel, the others find the client gone.
LEMMA RemoveClientKeeps ==
  ASSUME HubInv, NEW c \in Clients, RemoveClient(c) PROVE HubInv'
<1> DEFINE v == conns[c].topic
           conn == [conns[c] EXCEPT !.removals = @ - 1,
                                    !.closes = IF c \in clients THEN @ + 1 ELSE @]
<1>1. /\ conns[c] \in Conn /\ Len(conns[c].send) <= Buffer /\ Sound(c) /\ Unheard(c)
      /\ conns[c].removals \in Nat /\ conns[c].closes \in Nat
      /\ v \in Conversations \cup {None}
      /\ conns \in [Clients -> Conn] /\ subscribers \in [Conversations -> SUBSET Clients]
  BY ConnTypes DEF HubInv, HubTypeOK, HubConns
<1>2. conns[c].removals > 0
  BY DEF RemoveClient
<1>3. /\ conn.send = conns[c].send /\ conn.heard = conns[c].heard /\ conn.topic = v
      /\ conn.closes = IF c \in clients THEN conns[c].closes + 1 ELSE conns[c].closes
      /\ conn.removals = conns[c].removals - 1
      /\ conn \in Conn
  <2>1. conns[c].removals - 1 \in Nat
    BY <1>1, <1>2
  <2>2. (IF c \in clients THEN conns[c].closes + 1 ELSE conns[c].closes) \in Nat
    BY <1>1
  <2>3. conn \in Conn
    BY <2>1, <2>2, <1>1 DEF Conn
  <2> QED BY <2>3, <1>1 DEF Conn
<1>4. conns' = [conns EXCEPT ![c] = conn]
  BY <1>1 DEF RemoveClient, Conn
<1>5. /\ clients' = clients \ {c}
      /\ UNCHANGED <<inflight, down, owed, cut>>
  BY DEF RemoveClient
<1>6. \A w \in Conversations :
        \/ subscribers'[w] = subscribers[w]
        \/ w = v /\ subscribers'[w] = subscribers[w] \ {c}
  BY <1>1 DEF RemoveClient
<1>7. subscribers' \in [Conversations -> SUBSET Clients]
  BY <1>1 DEF RemoveClient
<1> HIDE DEF conn, v
<1>8. \A d \in Clients : conns'[d] = IF d = c THEN conn ELSE conns[d]
  BY <1>1, <1>4
<1>9. conns' \in [Clients -> Conn]
  BY <1>1, <1>3, <1>4
<1>10. HubTypeOK'
  BY <1>1, <1>3, <1>5, <1>7, <1>8, <1>9 DEF HubInv, HubTypeOK, Conn, Payloads
<1>11. \A d \in Clients : Sound(d)' /\ Unheard(d)'
  <2> SUFFICES ASSUME NEW d \in Clients PROVE Sound(d)' /\ Unheard(d)'
    OBVIOUS
  <2>1. Sound(d) /\ Unheard(d) /\ conns[d].topic \in Conversations \cup {None}
    BY ConnTypes DEF HubInv, HubConns
  <2>2. CASE d = c
    BY <2>1, <2>2, <1>1, <1>3, <1>5, <1>6, <1>8 DEF Sound, Unheard, v
  <2>3. CASE d # c
    BY <2>1, <2>3, <1>5, <1>6, <1>8 DEF Sound, Unheard
  <2> QED BY <2>2, <2>3
<1>12. \A m \in Messages : \A d \in owed'[m] : Arrives(m, conns[d])' \/ d \notin clients'
  <2> SUFFICES ASSUME NEW m \in Messages, NEW d \in owed[m], d \in clients, d # c
               PROVE  Arrives(m, conns'[d])
    BY <1>5 DEF Arrives
  <2>1. d \in Clients /\ Arrives(m, conns[d])
    BY DEF HubInv, HubTypeOK, HubConns
  <2> QED BY <2>1, <1>8
<1> QED BY <1>10, <1>11, <1>12 DEF HubInv, HubConns

\* What a Broadcast offers a connection waits in its channel, or its removal is due.
LEMMA OfferedArrives ==
  ASSUME NEW conn \in Conn, Len(conn.send) <= Buffer, NEW m \in Messages
  PROVE  /\ Offered(conn, m) \in Conn
         /\ Len(Offered(conn, m).send) <= Buffer
         /\ Offered(conn, m).topic = conn.topic
         /\ Offered(conn, m).closes = conn.closes
         /\ Arrives(m, Offered(conn, m))
         /\ \A x \in Messages : Arrives(x, conn) => Arrives(x, Offered(conn, m))
<1>1. /\ conn.send \in Seq(Payloads) /\ conn.removals \in Nat
      /\ Len(conn.send) \in Nat /\ Messages \subseteq Payloads
  BY DEF Conn, Payloads
<1>2. CASE Len(conn.send) < Buffer
  <2> DEFINE new == [conn EXCEPT !.send = Append(@, m)]
  <2>1. Offered(conn, m) = new
    BY <1>2 DEF Offered
  <2>2. /\ new.send = Append(conn.send, m) /\ new.topic = conn.topic
        /\ new.closes = conn.closes /\ new.heard = conn.heard
        /\ new.removals = conn.removals
    BY DEF Conn
  <2>3. Append(conn.send, m) \in Seq(Payloads)
    BY <1>1, ChannelGrows
  <2>4. new \in Conn
    BY <2>3 DEF Conn
  <2>5. Len(new.send) <= Buffer
    BY <1>1, <1>2, <2>2, ChannelGrows, ChatHubConstants
  <2>6. Waits(m, new.send) /\ \A x \in Messages : Waits(x, conn.send) => Waits(x, new.send)
    BY <1>1, <2>2, ChannelGrows
  <2> HIDE DEF new
  <2> QED BY <2>1, <2>2, <2>4, <2>5, <2>6 DEF Arrives
<1>3. CASE ~(Len(conn.send) < Buffer)
  <2> DEFINE new == [conn EXCEPT !.removals = @ + 1]
  <2>1. Offered(conn, m) = new
    BY <1>3 DEF Offered
  <2>2. /\ new.send = conn.send /\ new.topic = conn.topic
        /\ new.closes = conn.closes /\ new.heard = conn.heard
        /\ new.removals = conn.removals + 1
    BY DEF Conn
  <2>3. new \in Conn
    BY <1>1 DEF Conn
  <2> HIDE DEF new
  <2> QED BY <1>1, <2>1, <2>2, <2>3 DEF Arrives
<1> QED BY <1>2, <1>3

\* Broadcast, cut short or not, to connections that have subscribed.
LEMMA OfferKeeps ==
  ASSUME HubInv, NEW S \in SUBSET Clients, NEW m \in Messages, Offer(S, m),
         \A c \in S : conns[c].topic # None,
         UNCHANGED <<clients, subscribers>>,
         inflight' \subseteq Relays, down' \subseteq Instances, cut' \subseteq Messages
  PROVE  HubInv'
<1>1. \A c \in Clients : conns'[c] = IF c \in S THEN Offered(conns[c], m) ELSE conns[c]
  BY DEF Offer
<1>2. \A c \in Clients : conns[c] \in Conn /\ Len(conns[c].send) <= Buffer
  BY ConnTypes DEF HubInv
<1>3. conns' \in [Clients -> Conn]
  BY <1>1, <1>2, OfferedArrives DEF Offer
<1>4. \A c \in Clients :
        /\ Len(conns'[c].send) <= Buffer
        /\ conns'[c].topic = conns[c].topic
        /\ conns'[c].closes = conns[c].closes
        /\ c \in S => Arrives(m, conns'[c])
        /\ \A x \in Messages : Arrives(x, conns[c]) => Arrives(x, conns'[c])
  BY <1>1, <1>2, OfferedArrives
<1>5. /\ owed' \in [Messages -> SUBSET Clients]
      /\ \A x \in Messages : owed'[x] = IF x = m THEN owed[m] \cup S ELSE owed[x]
  BY DEF Offer, HubInv, HubTypeOK
<1>6. HubTypeOK'
  BY <1>3, <1>4, <1>5 DEF HubInv, HubTypeOK, Conn, Payloads
<1>7. \A c \in Clients : Sound(c)' /\ Unheard(c)'
  BY <1>4, <1>5 DEF HubInv, HubConns, Sound, Unheard
<1>8. \A x \in Messages : \A c \in owed'[x] : Arrives(x, conns[c])' \/ c \notin clients'
  <2> SUFFICES ASSUME NEW x \in Messages, NEW c \in owed'[x], c \in clients
               PROVE  Arrives(x, conns'[c])
    BY DEF Arrives
  <2>1. c \in Clients
    BY <1>5
  <2>2. CASE c \in owed[x]
    BY <2>1, <2>2, <1>4 DEF HubInv, HubConns
  <2>3. CASE x = m /\ c \in S
    BY <2>1, <2>3, <1>4
  <2> QED BY <2>2, <2>3, <1>5
<1> QED BY <1>6, <1>7, <1>8 DEF HubInv, HubConns

\* Every subscriber is a connection that has subscribed.
LEMMA AudienceSubscribed ==
  ASSUME HubInv, NEW i, NEW v \in Conversations
  PROVE  /\ Audience(i, v) \in SUBSET Clients
         /\ \A c \in Audience(i, v) : conns[c].topic # None
  BY DEF Audience, HubInv, HubTypeOK, HubConns, Unheard

\* RedisPublisher.PublishMessage
LEMMA PublishKeeps ==
  ASSUME HubInv, NEW i \in Instances, NEW v \in Conversations, NEW m \in Messages,
         PublishMessage(i, v, m) \/ PublishPanics(i, v, m)
  PROVE  HubInv'
<1>1. CASE PublishMessage(i, v, m)
  <2>1. inflight' \subseteq Relays
    BY <1>1 DEF PublishMessage, HubInv, HubTypeOK, Relays
  <2>2. Offer(Audience(i, v), m) /\ UNCHANGED <<clients, subscribers, cut, down>>
    BY <1>1 DEF PublishMessage, Broadcast
  <2>3. down' \subseteq Instances /\ cut' \subseteq Messages
    BY <2>2 DEF HubInv, HubTypeOK
  <2> QED BY <2>1, <2>2, <2>3, AudienceSubscribed, OfferKeeps
<1>2. CASE PublishPanics(i, v, m)
  <2>1. PICK S \in SUBSET (Audience(i, v) \ Closed(i, v)) : Offer(S, m)
    BY <1>2 DEF PublishPanics, BroadcastPanics
  <2>2. S \in SUBSET Clients /\ \A c \in S : conns[c].topic # None
    BY <2>1, AudienceSubscribed
  <2>3. /\ UNCHANGED <<clients, subscribers>>
        /\ inflight' \subseteq Relays /\ down' \subseteq Instances /\ cut' \subseteq Messages
    BY <1>2 DEF PublishPanics, BroadcastPanics, HubInv, HubTypeOK
  <2> QED BY <2>1, <2>2, <2>3, OfferKeeps
<1> QED BY <1>1, <1>2

\* One message of the loop of StartRedisSubscriber
LEMMA RelayKeeps ==
  ASSUME HubInv, NEW r \in inflight, Relay(r) PROVE HubInv'
<1>1. r \in Relays
  BY DEF HubInv, HubTypeOK
<1>2. r.topic \in Conversations /\ r.message \in Messages
  BY <1>1 DEF Relays
<1>3. /\ Offer(Audience(r.to, r.topic), r.message)
      /\ UNCHANGED <<clients, subscribers>>
  BY DEF Relay, Broadcast
<1>4. inflight' \subseteq Relays /\ down' \subseteq Instances /\ cut' \subseteq Messages
  BY DEF Relay, Broadcast, HubInv, HubTypeOK
<1> QED BY <1>2, <1>3, <1>4, AudienceSubscribed, OfferKeeps

\* An instance that ends takes its connections with it and leaves the others alone.
LEMMA EndsKeeps ==
  ASSUME HubInv, NEW i \in Instances, Ends(i), cut' \subseteq Messages
  PROVE  HubInv'
<1>1. \A c \in Clients :
        /\ conns'[c] \in Conn
        /\ Len(conns'[c].send) <= Buffer
        /\ conns'[c].topic = conns[c].topic
        /\ conns'[c].closes = conns[c].closes
        /\ HomeOf[c] # i => conns'[c] = conns[c]
  <2> SUFFICES ASSUME NEW c \in Clients
               PROVE  /\ conns'[c] \in Conn
                      /\ Len(conns'[c].send) <= Buffer
                      /\ conns'[c].topic = conns[c].topic
                      /\ conns'[c].closes = conns[c].closes
                      /\ HomeOf[c] # i => conns'[c] = conns[c]
    OBVIOUS
  <2> DEFINE ended == [conns[c] EXCEPT !.pumps = {}, !.removals = 0]
  <2>1. conns'[c] = ended \/ conns'[c] = conns[c]
    BY DEF Ends
  <2>2. HomeOf[c] # i => conns'[c] = conns[c]
    BY DEF Ends
  <2>3. conns[c] \in Conn /\ Len(conns[c].send) <= Buffer
    BY ConnTypes DEF HubInv
  <2>4. /\ ended.send = conns[c].send /\ ended.topic = conns[c].topic
        /\ ended.closes = conns[c].closes
    BY <2>3 DEF Conn
  <2>5. ended \in Conn
    BY <2>3 DEF Conn
  <2> HIDE DEF ended
  <2> QED BY <2>1, <2>2, <2>3, <2>4, <2>5
<1>2. conns' \in [Clients -> Conn]
  BY <1>1 DEF Ends
<1>3. /\ clients' = {c \in clients : HomeOf[c] # i}
      /\ subscribers' = [v \in Conversations |-> {c \in subscribers[v] : HomeOf[c] # i}]
      /\ inflight' \subseteq inflight /\ down' = down \cup {i} /\ owed' = owed
  BY DEF Ends
<1>4. HubTypeOK'
  BY <1>1, <1>2, <1>3 DEF HubInv, HubTypeOK, Conn, Payloads
<1>5. \A c \in Clients : Sound(c)' /\ Unheard(c)'
  <2> SUFFICES ASSUME NEW c \in Clients PROVE Sound(c)' /\ Unheard(c)'
    OBVIOUS
  <2>1. Sound(c) /\ Unheard(c) /\ conns[c].topic \in Conversations \cup {None}
    BY ConnTypes DEF HubInv, HubConns
  <2>2. Unheard(c)'
    BY <2>1, <1>1, <1>3 DEF Unheard
  <2>3. Sound(c)'
    BY <2>1, <1>1, <1>3 DEF Sound
  <2> QED BY <2>2, <2>3
<1>6. \A m \in Messages : \A c \in owed'[m] : Arrives(m, conns[c])' \/ c \notin clients'
  <2> SUFFICES ASSUME NEW m \in Messages, NEW c \in owed[m], c \in clients, HomeOf[c] # i
               PROVE  Arrives(m, conns'[c])
    BY <1>3 DEF Arrives
  <2>1. c \in Clients /\ Arrives(m, conns[c])
    BY DEF HubInv, HubTypeOK, HubConns
  <2> QED BY <2>1, <1>1
<1> QED BY <1>4, <1>5, <1>6 DEF HubInv, HubConns

\* RelayPanics and InstanceCrash
LEMMA EndingKeeps ==
  ASSUME HubInv,
         \/ \E r \in inflight : RelayPanics(r)
         \/ \E i \in Instances : InstanceCrash(i)
  PROVE  HubInv'
<1>1. ASSUME NEW r \in inflight, RelayPanics(r) PROVE HubInv'
  <2>1. r.to \in Instances /\ r.message \in Messages
    BY DEF HubInv, HubTypeOK, Relays
  <2>2. Ends(r.to) /\ cut' \subseteq Messages
    BY <1>1, <2>1 DEF RelayPanics, HubInv, HubTypeOK
  <2> QED BY <2>1, <2>2, EndsKeeps
<1>2. ASSUME NEW i \in Instances, InstanceCrash(i) PROVE HubInv'
  <2>1. Ends(i) /\ cut' \subseteq Messages
    BY <1>2 DEF InstanceCrash, HubInv, HubTypeOK
  <2> QED BY <2>1, EndsKeeps
<1> QED BY <1>1, <1>2

\* Connection
LEMMA ConnectionKeeps ==
  ASSUME HubInv, NEW c \in Clients, Connection(c) PROVE HubInv'
  BY RegisterKeeps, SendErrorKeeps, WriteKeeps, RemoveClientKeeps, ReturnKeeps DEF Connection

\* A step that leaves the hubs alone.
LEMMA HubStutters ==
  ASSUME HubInv, UNCHANGED hubVars PROVE HubInv'
<1>1. HubTypeOK'
  BY DEF hubVars, HubInv, HubTypeOK
<1>2. HubConns'
  BY DEF hubVars, HubInv, HubConns, Sound, Unheard, Arrives
<1> QED BY <1>1, <1>2 DEF HubInv

\* What the invariant says of the two properties of the hubs.
LEMMA HubGives == HubInv => ClosedOnce /\ HeardOrDropped
  BY DEF HubInv, HubConns, Sound, Arrives, Waits, ClosedOnce, HeardOrDropped

\* HubSpec: the hubs alone, whoever publishes.
THEOREM HubsHold == HubSpec => [](ClosedOnce /\ HeardOrDropped)
<1>1. HubInv /\ [HubNext]_hubVars => HubInv'
  BY ConnectionKeeps, SubscribeKeeps, PublishKeeps, RelayKeeps, EndingKeeps, HubStutters
     DEF HubNext
<1>2. HubInv => ClosedOnce /\ HeardOrDropped
  BY HubGives
<1> QED BY <1>1, <1>2, InitHub, PTL DEF HubSpec

-----------------------------------------------------------------------------
(* Conversations and requests. *)

Labels == {"idle", "create", "link", "save", "mark", "insert", "touch", "publish", "notify"}
Sends == {"insert", "touch", "publish", "notify"}

Job == [id : Identities \cup {None}, conv : Conversations \cup {None},
        row : Conversation, message : Times]

\* A row of conversation v has one owner, who is entitled to it by the openers and the
\* links given.
Holder(row) == IF row.user # None THEN row.user ELSE row.guest

Owned(row, v, openers, links) ==
  /\ row.status # "none"
  /\ (row.user = None) # (row.guest = None)
  /\ Holder(row) = openers[v] \/ <<openers[v], Holder(row)>> \in links

\* What a request at label knows of the tables: the conversation it is about exists, the
\* row it is going to save was right when it was read, the link it makes is recorded.
Ready(label, j, rows, openers, links) ==
  /\ label = "create" => j.id \in Identities
  /\ label = "link" =>
       j.id \in Users /\ j.row.guest \in Guests /\ <<j.row.guest, j.id>> \in links
  /\ label \in Sends \cup {"save", "mark"} =>
       j.conv \in Conversations /\ rows[j.conv].status # "none"
  /\ label = "save" => Owned(j.row, j.conv, openers, links)
  /\ label \in Sends => j.message \in Messages

TablesOK ==
  /\ convs \in [Conversations -> Conversation]
  /\ posted \in [Messages -> Message]
  /\ clock \in Times
  /\ opener \in [Conversations -> Identities \cup {None}]
  /\ linked \subseteq Guests \X Users
  /\ announced \in [Conversations -> Nat]
  /\ interrupted \subseteq Conversations
  /\ \A v \in Conversations :
       convs[v] = NoConversation \/ Owned(convs[v], v, opener, linked)

SessionsOK ==
  /\ pc \in [Sessions -> Labels]
  /\ job \in [Sessions -> Job]
  /\ \A s \in Sessions : Ready(pc[s], job[s], convs, opener, linked)

CountsOK == requests \in 0 .. MaxRequests /\ crashes \in 0 .. MaxCrashes

ChatInv == TablesOK /\ SessionsOK /\ CountsOK

\* No step undoes a link, or the existence or the opener of a conversation.
Grows ==
  /\ linked \subseteq linked'
  /\ \A v \in Conversations : convs[v].status # "none" =>
       convs'[v].status # "none" /\ opener'[v] = opener[v]

LEMMA IdleTypes == NoConversation \in Conversation /\ IdleJob \in Job
<1>1. NoConversation \in Conversation
  BY DEF NoConversation, Conversation, Times
<1> QED BY <1>1 DEF IdleJob, Job, Times

LEMMA JobTypes ==
  ASSUME SessionsOK, NEW s \in Sessions
  PROVE  /\ job[s] \in Job /\ pc[s] \in Labels
         /\ job[s].id \in Identities \cup {None}
         /\ job[s].conv \in Conversations \cup {None}
         /\ job[s].row \in Conversation
         /\ job[s].message \in Times
         /\ Ready(pc[s], job[s], convs, opener, linked)
<1>1. job[s] \in Job /\ pc[s] \in Labels /\ Ready(pc[s], job[s], convs, opener, linked)
  BY DEF SessionsOK
<1> QED BY <1>1 DEF Job

\* The rows of the conversations table.
LEMMA RowTypes ==
  ASSUME TablesOK, NEW v \in Conversations
  PROVE  /\ convs[v] \in Conversation
         /\ convs[v].status \in {"none", "open", "closed"}
         /\ convs[v].user \in Users \cup {None}
         /\ convs[v].guest \in Guests \cup {None}
         /\ convs[v].status = "none" => convs[v] = NoConversation
         /\ convs[v] # NoConversation =>
              convs[v].status # "none" /\ Owned(convs[v], v, opener, linked)
<1>1. convs[v] \in Conversation
  BY DEF TablesOK
<1>2. convs[v] = NoConversation \/ Owned(convs[v], v, opener, linked)
  BY DEF TablesOK
<1> QED BY <1>1, <1>2 DEF Conversation, Owned

\* What a request knows stays true.
LEMMA ReadyPersists ==
  ASSUME Grows, NEW label, NEW j, Ready(label, j, convs, opener, linked)
  PROVE  Ready(label, j, convs', opener', linked')
  BY DEF Grows, Ready, Owned, Sends

LEMMA OwnedPersists ==
  ASSUME Grows, NEW v \in Conversations, convs[v].status # "none",
         NEW row, Owned(row, v, opener, linked)
  PROVE  Owned(row, v, opener', linked')
  BY DEF Grows, Owned

\* One request goes on to label with the record j.
LEMMA SessionStep ==
  ASSUME SessionsOK, Grows, NEW s \in Sessions, NEW label \in Labels, NEW j \in Job,
         At(s, label, j), Ready(label, j, convs', opener', linked')
  PROVE  SessionsOK'
<1>1. pc' \in [Sessions -> Labels] /\ job' \in [Sessions -> Job]
  BY DEF At, SessionsOK
<1>2. \A t \in Sessions :
        /\ pc'[t] = (IF t = s THEN label ELSE pc[t])
        /\ job'[t] = (IF t = s THEN j ELSE job[t])
  BY DEF At, SessionsOK
<1>3. \A t \in Sessions : Ready(pc'[t], job'[t], convs', opener', linked')
  <2> SUFFICES ASSUME NEW t \in Sessions PROVE Ready(pc'[t], job'[t], convs', opener', linked')
    OBVIOUS
  <2>1. CASE t = s
    BY <2>1, <1>2
  <2>2. CASE t # s
    <3>1. Ready(pc[t], job[t], convs, opener, linked)
      BY DEF SessionsOK
    <3> QED BY <3>1, <2>2, <1>2, ReadyPersists
  <2> QED BY <2>1, <2>2
<1> QED BY <1>1, <1>3 DEF SessionsOK

\* A request that has come to its end.
LEMMA FinishStep ==
  ASSUME ChatInv, Grows, NEW s \in Sessions, Finish(s)
  PROVE  SessionsOK' /\ CountsOK'
<1>1. Ready("idle", IdleJob, convs', opener', linked')
  BY DEF Ready, Sends
<1>2. At(s, "idle", IdleJob) /\ CountsOK'
  BY DEF Finish, ChatInv, CountsOK
<1> QED BY <1>1, <1>2, IdleTypes, SessionStep DEF ChatInv, Labels

\* A new request.
LEMMA RequestStep ==
  ASSUME ChatInv, Grows, NEW s \in Sessions, NEW label \in Labels, NEW j \in Job,
         Request(s, label, j), Ready(label, j, convs', opener', linked')
  PROVE  SessionsOK' /\ CountsOK'
<1>1. At(s, label, j)
  BY DEF Request
<1>2. CountsOK'
  BY SupportChatConstants DEF Request, ChatInv, CountsOK
<1> QED BY <1>1, <1>2, SessionStep DEF ChatInv

\* A request that goes on as it is.
LEMMA ContinueStep ==
  ASSUME ChatInv, Grows, NEW s \in Sessions, NEW label \in Sends, pc[s] \in Sends,
         Continue(s, label)
  PROVE  SessionsOK' /\ CountsOK'
<1>1. At(s, label, job[s]) /\ CountsOK'
  BY DEF Continue, ChatInv, CountsOK
<1>2. job[s] \in Job /\ Ready(pc[s], job[s], convs', opener', linked')
  BY JobTypes, ReadyPersists DEF ChatInv
<1>3. Ready(label, job[s], convs', opener', linked')
  BY <1>2 DEF Ready, Sends
<1> QED BY <1>1, <1>2, <1>3, SessionStep DEF ChatInv, Labels, Sends

\* The tables are as they were.
LEMMA SameTables ==
  ASSUME TablesOK, UNCHANGED <<convs, posted, clock, ghosts>>
  PROVE  TablesOK' /\ Grows
  BY DEF TablesOK, Grows, ghosts

-----------------------------------------------------------------------------
(* The steps of a request. *)

LEMMA CreateReadKeeps ==
  ASSUME ChatInv, NEW s \in Sessions, NEW id \in Identities, CreateRead(s, id)
  PROVE  ChatInv'
<1> DEFINE j == [IdleJob EXCEPT !.id = id]
<1>1. j \in Job /\ j.id = id
  BY IdleTypes DEF Job, IdleJob
<1>2. TablesOK' /\ Grows
  BY SameTables DEF CreateRead, ChatInv
<1>3. Ready("create", j, convs', opener', linked')
  BY <1>1 DEF Ready, Sends
<1>4. Request(s, "create", j)
  BY DEF CreateRead
<1> QED BY <1>1, <1>2, <1>3, <1>4, RequestStep DEF ChatInv, Labels

LEMMA CreateInsertKeeps ==
  ASSUME ChatInv, NEW s \in Sessions, NEW v \in Conversations, CreateInsert(s, v)
  PROVE  ChatInv'
<1> DEFINE row == NewConversation(job[s].id)
<1>1. job[s].id \in Users \cup Guests /\ job[s].id # None
  BY JobTypes, SupportChatConstants DEF ChatInv, CreateInsert, Ready, Identities
<1>2. /\ row.status = "open"
      /\ row.user = IF job[s].id \in Users THEN job[s].id ELSE None
      /\ row.guest = IF job[s].id \in Users THEN None ELSE job[s].id
  BY DEF NewConversation, NoConversation
<1>3. row \in Conversation
  BY <1>1, IdleTypes DEF NewConversation, Conversation, ChatInv, TablesOK
<1> HIDE DEF row
<1>4. convs' = [convs EXCEPT ![v] = row] /\ opener' = [opener EXCEPT ![v] = job[s].id]
  BY DEF CreateInsert, row
<1>5. convs[v] = NoConversation /\ convs[v].status = "none"
  BY DEF CreateInsert, NoConversation
<1>6. UNCHANGED <<posted, clock, linked, announced, interrupted>> /\ Finish(s)
  BY DEF CreateInsert
<1>7. convs'[v] = row /\ opener'[v] = job[s].id
  BY <1>4 DEF ChatInv, TablesOK
<1>8. \A w \in Conversations \ {v} : convs'[w] = convs[w] /\ opener'[w] = opener[w]
  BY <1>4 DEF ChatInv, TablesOK
<1>9. Grows
  BY <1>5, <1>6, <1>8 DEF Grows
<1>10. Owned(row, v, opener', linked')
  BY <1>1, <1>2, <1>7 DEF Owned, Holder
<1>11. \A w \in Conversations \ {v} :
         convs'[w] = NoConversation \/ Owned(convs'[w], w, opener', linked')
  <2> SUFFICES ASSUME NEW w \in Conversations \ {v}, convs'[w] # NoConversation
               PROVE  Owned(convs'[w], w, opener', linked')
    OBVIOUS
  <2>1. convs[w].status # "none" /\ Owned(convs[w], w, opener, linked)
    BY <1>8, RowTypes DEF ChatInv
  <2> QED BY <2>1, <1>8, <1>9, OwnedPersists
<1>12. TablesOK'
  <2>1. convs' \in [Conversations -> Conversation]
    BY <1>3, <1>4 DEF ChatInv, TablesOK
  <2>2. opener' \in [Conversations -> Identities \cup {None}]
    BY <1>1, <1>4 DEF ChatInv, TablesOK, Identities
  <2> QED BY <2>1, <2>2, <1>6, <1>7, <1>10, <1>11 DEF ChatInv, TablesOK
<1> QED BY <1>6, <1>9, <1>12, FinishStep DEF ChatInv

LEMMA LinkReadKeeps ==
  ASSUME ChatInv, NEW s \in Sessions, NEW u \in Users, NEW g \in Guests, LinkRead(s, u, g)
  PROVE  ChatInv'
<1> DEFINE j == [IdleJob EXCEPT !.id = u, !.row.guest = g]
<1>1. j.id = u /\ j.row.guest = g
  BY DEF IdleJob, NoConversation
<1>2. j \in Job
  <2>1. [IdleJob.row EXCEPT !.guest = g] \in Conversation
    BY IdleTypes DEF Conversation, IdleJob
  <2> QED BY <2>1, IdleTypes DEF Job, Identities
<1> HIDE DEF j
<1>3. linked' = linked \cup {<<g, u>>} /\ Request(s, "link", j)
  BY DEF LinkRead, j
<1>4. UNCHANGED <<convs, posted, clock, opener, announced, interrupted>>
  BY DEF LinkRead
<1>5. Grows
  BY <1>3, <1>4 DEF Grows
<1>6. Ready("link", j, convs', opener', linked')
  BY <1>1, <1>3 DEF Ready, Sends
<1>7. \A w \in Conversations :
        convs'[w] = NoConversation \/ Owned(convs'[w], w, opener', linked')
  BY <1>3, <1>4 DEF ChatInv, TablesOK, Owned
<1>8. linked' \subseteq Guests \X Users
  BY <1>3 DEF ChatInv, TablesOK
<1>9. TablesOK'
  BY <1>4, <1>7, <1>8 DEF ChatInv, TablesOK
<1> QED BY <1>2, <1>3, <1>5, <1>6, <1>9, RequestStep DEF ChatInv, Labels

\* LinkGuestConversations: the rows the guest has now become the user's.
LEMMA LinkUpdateKeeps ==
  ASSUME ChatInv, NEW s \in Sessions, LinkUpdate(s) PROVE ChatInv'
<1> DEFINE g == job[s].row.guest  u == job[s].id
<1>1. u \in Users /\ g \in Guests /\ <<g, u>> \in linked
  BY JobTypes DEF ChatInv, LinkUpdate, Ready
<1>2. u # None /\ g # None /\ g \notin Users
  BY <1>1, SupportChatConstants
<1> HIDE DEF g, u
<1>3. \A v \in Conversations :
        convs'[v] = IF v \in GuestRows(g) THEN LinkedTo(convs[v], u) ELSE convs[v]
  BY DEF LinkUpdate, g, u
<1>4. UNCHANGED <<posted, clock, ghosts>> /\ Finish(s)
  BY DEF LinkUpdate
<1>5. UNCHANGED <<opener, linked, announced, interrupted>>
  BY <1>4 DEF ghosts
<1>6. \A v \in GuestRows(g) :
        /\ LinkedTo(convs[v], u) \in Conversation
        /\ LinkedTo(convs[v], u).status = convs[v].status
        /\ convs[v].status # "none"
        /\ Owned(LinkedTo(convs[v], u), v, opener, linked)
  <2> SUFFICES ASSUME NEW v \in Conversations, convs[v].guest = g, convs[v].user = None
               PROVE  /\ LinkedTo(convs[v], u) \in Conversation
                      /\ LinkedTo(convs[v], u).status = convs[v].status
                      /\ convs[v].status # "none"
                      /\ Owned(LinkedTo(convs[v], u), v, opener, linked)
    BY DEF GuestRows
  <2> DEFINE new == LinkedTo(convs[v], u)
  <2>1. convs[v] \in Conversation /\ convs[v] # NoConversation
    BY <1>2, RowTypes DEF ChatInv, NoConversation
  <2>2. convs[v].status # "none" /\ Owned(convs[v], v, opener, linked)
    BY <2>1, RowTypes DEF ChatInv
  <2>3. opener[v] = g
    BY <1>2, <2>2, <1>1 DEF Owned, Holder, ChatInv, TablesOK
  <2>4. /\ new \in Conversation /\ new.status = convs[v].status
        /\ new.user = u /\ new.guest = None
    BY <2>1, <1>1 DEF LinkedTo, Conversation
  <2> HIDE DEF new
  <2>5. Owned(new, v, opener, linked)
    BY <2>2, <2>3, <2>4, <1>1, <1>2 DEF Owned, Holder
  <2> QED BY <2>2, <2>4, <2>5 DEF new
<1>7. Grows
  BY <1>3, <1>5, <1>6 DEF Grows
<1>8. TablesOK'
  <2>1. convs' \in [Conversations -> Conversation]
    BY <1>3, <1>6 DEF LinkUpdate, ChatInv, TablesOK
  <2>2. \A v \in Conversations :
          convs'[v] = NoConversation \/ Owned(convs'[v], v, opener', linked')
    BY <1>3, <1>5, <1>6 DEF ChatInv, TablesOK
  <2> QED BY <2>1, <2>2, <1>4, <1>5 DEF ChatInv, TablesOK
<1> QED BY <1>4, <1>7, <1>8, FinishStep DEF ChatInv

\* A row of a conversation that exists is replaced by one as well owned.
LEMMA RowStep ==
  ASSUME TablesOK, NEW v \in Conversations, convs[v].status # "none",
         NEW row \in Conversation, Owned(row, v, opener, linked),
         convs' = [convs EXCEPT ![v] = row],
         UNCHANGED <<posted, clock, ghosts>>
  PROVE  TablesOK' /\ Grows
<1>1. UNCHANGED <<posted, clock, opener, linked, announced, interrupted>>
  BY DEF ghosts
<1>2. \A w \in Conversations : convs'[w] = IF w = v THEN row ELSE convs[w]
  BY DEF TablesOK
<1>3. row.status # "none"
  BY DEF Owned
<1>4. convs' \in [Conversations -> Conversation]
  BY DEF TablesOK
<1>5. \A w \in Conversations :
        convs'[w] = NoConversation \/ Owned(convs'[w], w, opener', linked')
  BY <1>1, <1>2 DEF TablesOK
<1>6. TablesOK'
  BY <1>1, <1>4, <1>5 DEF TablesOK
<1> QED BY <1>1, <1>2, <1>3, <1>6 DEF Grows

\* Another status, cursor or time changes no owner.
LEMMA SameOwner ==
  ASSUME NEW row, NEW new, NEW v, NEW openers, NEW links, Owned(row, v, openers, links),
         new.status # "none", new.user = row.user, new.guest = row.guest
  PROVE  Owned(new, v, openers, links)
  BY DEF Owned, Holder

LEMMA UpdateReadKeeps ==
  ASSUME ChatInv, NEW s \in Sessions, NEW id \in Identities, NEW v \in Conversations,
         NEW close \in BOOLEAN, NEW email \in BOOLEAN, UpdateRead(s, id, v, close, email)
  PROVE  ChatInv'
<1> DEFINE row == [convs[v] EXCEPT !.status = IF close THEN "closed" ELSE @,
                                   !.email = @ \/ email]
           j == [IdleJob EXCEPT !.id = id, !.conv = v, !.row = row]
<1>1. /\ convs[v] \in Conversation /\ convs[v].status # "none"
      /\ Owned(convs[v], v, opener, linked)
  BY RowTypes DEF ChatInv, UpdateRead, CanAccess
<1>2. /\ row.user = convs[v].user /\ row.guest = convs[v].guest
      /\ row.status = IF close THEN "closed" ELSE convs[v].status
  BY <1>1 DEF Conversation
<1>3. row \in Conversation
  <2>1. (IF close THEN "closed" ELSE convs[v].status) \in {"none", "open", "closed"}
    BY <1>1 DEF Conversation
  <2>2. (convs[v].email \/ email) \in BOOLEAN
    OBVIOUS
  <2> HIDE DEF j
  <2> QED BY <1>1, <2>1, <2>2 DEF Conversation
<1>4. Request(s, "save", j)
  BY DEF UpdateRead
<1> HIDE DEF row
<1>5. j.conv = v /\ j.row = row
  BY DEF IdleJob
<1>6. j \in Job
  BY <1>3, IdleTypes DEF Job
<1> HIDE DEF j
<1>7. Owned(row, v, opener, linked)
  BY <1>1, <1>2, SameOwner
<1>8. TablesOK' /\ Grows /\ UNCHANGED <<convs, opener, linked>>
  BY SameTables DEF UpdateRead, ChatInv, ghosts
<1>9. Ready("save", j, convs', opener', linked')
  BY <1>1, <1>5, <1>7, <1>8 DEF Ready, Sends
<1> QED BY <1>4, <1>6, <1>8, <1>9, RequestStep DEF ChatInv, Labels

\* The row that was read is saved: its owner was entitled then, and is still.
LEMMA UpdateSaveKeeps ==
  ASSUME ChatInv, NEW s \in Sessions, UpdateSave(s) PROVE ChatInv'
<1>1. /\ job[s].conv \in Conversations /\ convs[job[s].conv].status # "none"
      /\ job[s].row \in Conversation
      /\ Owned(job[s].row, job[s].conv, opener, linked)
  BY JobTypes DEF ChatInv, UpdateSave, Ready
<1>2. TablesOK' /\ Grows
  BY <1>1, RowStep DEF ChatInv, UpdateSave
<1> QED BY <1>2, FinishStep DEF ChatInv, UpdateSave

LEMMA MarkReadStartKeeps ==
  ASSUME ChatInv, NEW s \in Sessions, NEW id \in Identities, NEW v \in Conversations,
         MarkReadStart(s, id, v)
  PROVE  ChatInv'
<1> DEFINE j == [IdleJob EXCEPT !.id = id, !.conv = v, !.message = clock]
<1>1. convs[v].status # "none"
  BY RowTypes DEF ChatInv, MarkReadStart, CanAccess
<1>2. j \in Job /\ j.conv = v
  BY IdleTypes DEF Job, IdleJob, ChatInv, TablesOK
<1>3. Request(s, "mark", j)
  BY DEF MarkReadStart
<1> HIDE DEF j
<1>4. TablesOK' /\ Grows /\ convs' = convs
  BY SameTables DEF MarkReadStart, ChatInv
<1>5. Ready("mark", j, convs', opener', linked')
  BY <1>1, <1>2, <1>4 DEF Ready, Sends
<1> QED BY <1>2, <1>3, <1>4, <1>5, RequestStep DEF ChatInv, Labels

LEMMA MarkReadUpdateKeeps ==
  ASSUME ChatInv, NEW s \in Sessions, MarkReadUpdate(s) PROVE ChatInv'
<1> DEFINE v == job[s].conv  t == job[s].message
<1>1. v \in Conversations /\ convs[v].status # "none" /\ t \in Times
  BY JobTypes DEF ChatInv, MarkReadUpdate, Ready
<1>2. convs[v] \in Conversation /\ Owned(convs[v], v, opener, linked)
  BY <1>1, RowTypes DEF ChatInv, NoConversation
<1>3. PICK row \in {[convs[v] EXCEPT !.adminRead = t], [convs[v] EXCEPT !.customerRead = t]} :
        convs' = [convs EXCEPT ![v] = row]
  <2>1. CASE job[s].id \in Admins
    <3> DEFINE new == [convs[v] EXCEPT !.adminRead = t]
    <3>1. convs' = [convs EXCEPT ![v] = new]
      BY <1>1, <2>1 DEF MarkReadUpdate, ChatInv, TablesOK
    <3> QED BY <3>1
  <2>2. CASE job[s].id \notin Admins
    <3> DEFINE new == [convs[v] EXCEPT !.customerRead = t]
    <3>1. convs' = [convs EXCEPT ![v] = new]
      BY <1>1, <2>2 DEF MarkReadUpdate, ChatInv, TablesOK
    <3> QED BY <3>1
  <2> QED BY <2>1, <2>2
<1>4. /\ row \in Conversation /\ row.status = convs[v].status
      /\ row.user = convs[v].user /\ row.guest = convs[v].guest
  BY <1>1, <1>2 DEF Conversation
<1>5. UNCHANGED <<posted, clock, ghosts>> /\ Finish(s)
  BY DEF MarkReadUpdate
<1> HIDE DEF v, t
<1>6. Owned(row, v, opener, linked)
  BY <1>1, <1>2, <1>4, SameOwner
<1>7. TablesOK' /\ Grows
  BY <1>1, <1>3, <1>4, <1>5, <1>6, RowStep DEF ChatInv
<1> QED BY <1>5, <1>7, FinishStep DEF ChatInv

LEMMA SendReadKeeps ==
  ASSUME ChatInv, NEW s \in Sessions, NEW id \in Identities, NEW v \in Conversations,
         SendRead(s, id, v)
  PROVE  ChatInv'
<1> DEFINE j == [IdleJob EXCEPT !.id = id, !.conv = v, !.row = convs[v],
                                !.message = clock + 1]
<1>1. convs[v] \in Conversation /\ clock + 1 \in Messages /\ convs[v].status = "open"
  BY RowTypes DEF ChatInv, SendRead
<1>2. j.conv = v /\ j.message = clock + 1
  BY DEF IdleJob
<1>3. j \in Job
  BY <1>1, IdleTypes DEF Job, Times
<1>4. Request(s, "insert", j) /\ clock' = clock + 1 /\ UNCHANGED <<convs, posted, ghosts>>
  BY DEF SendRead
<1> HIDE DEF j
<1>5. UNCHANGED <<opener, linked, announced, interrupted>>
  BY <1>4 DEF ghosts
<1>6. TablesOK' /\ Grows
  BY <1>1, <1>4, <1>5 DEF ChatInv, TablesOK, Times, Grows
<1>7. Ready("insert", j, convs', opener', linked')
  BY <1>1, <1>2, <1>4 DEF Ready, Sends
<1> QED BY <1>3, <1>4, <1>6, <1>7, RequestStep DEF ChatInv, Labels

LEMMA SendInsertKeeps ==
  ASSUME ChatInv, NEW s \in Sessions, SendInsert(s) PROVE ChatInv'
<1>1. /\ job[s].conv \in Conversations \cup {None}
      /\ job[s].id \in Identities \cup {None} /\ pc[s] \in Sends
  BY JobTypes DEF ChatInv, SendInsert, Sends
<1>2. UNCHANGED <<convs, clock, opener, linked, announced, interrupted>>
  BY DEF SendInsert, ghosts
<1>3. posted' \in [Messages -> Message]
  BY <1>1 DEF SendInsert, ChatInv, TablesOK, Message
<1>4. TablesOK' /\ Grows
  BY <1>2, <1>3 DEF ChatInv, TablesOK, Grows
<1> QED BY <1>1, <1>4, ContinueStep DEF ChatInv, SendInsert, Sends

LEMMA SendTouchKeeps ==
  ASSUME ChatInv, NEW s \in Sessions, SendTouch(s) PROVE ChatInv'
<1> DEFINE v == job[s].conv  row == [convs[v] EXCEPT !.last = job[s].message]
<1>1. /\ v \in Conversations /\ convs[v].status # "none" /\ job[s].message \in Times
      /\ pc[s] \in Sends
  BY JobTypes DEF ChatInv, SendTouch, Ready, Sends
<1>2. convs[v] \in Conversation /\ Owned(convs[v], v, opener, linked)
  BY <1>1, RowTypes DEF ChatInv, NoConversation
<1>3. /\ row \in Conversation /\ row.status = convs[v].status
      /\ row.user = convs[v].user /\ row.guest = convs[v].guest
  BY <1>1, <1>2 DEF Conversation
<1>4. convs' = [convs EXCEPT ![v] = row]
  BY <1>1 DEF SendTouch, ChatInv, TablesOK
<1>5. UNCHANGED <<posted, clock, ghosts>> /\ Continue(s, "publish")
  BY DEF SendTouch
<1> HIDE DEF row, v
<1>6. TablesOK' /\ Grows
  BY <1>1, <1>2, <1>3, <1>4, <1>5, SameOwner, RowStep DEF ChatInv
<1> QED BY <1>1, <1>5, <1>6, ContinueStep DEF ChatInv, Sends

LEMMA TouchFailsKeeps ==
  ASSUME ChatInv, NEW s \in Sessions, TouchFails(s) PROVE ChatInv'
<1>1. UNCHANGED <<convs, posted, clock, ghosts, requests>> /\ At(s, "publish", job[s])
  BY DEF TouchFails
<1>2. crashes' \in 0 .. MaxCrashes
  BY SupportChatConstants DEF TouchFails, ChatInv, CountsOK
<1>3. TablesOK' /\ Grows
  BY <1>1 DEF ChatInv, TablesOK, Grows, ghosts
<1>4. job[s] \in Job /\ Ready(pc[s], job[s], convs', opener', linked')
  BY <1>3, JobTypes, ReadyPersists DEF ChatInv
<1>5. Ready("publish", job[s], convs', opener', linked')
  BY <1>4 DEF TouchFails, Ready, Sends
<1>6. SessionsOK' /\ CountsOK'
  BY <1>1, <1>2, <1>3, <1>4, <1>5, SessionStep DEF ChatInv, CountsOK, Labels, Sends
<1> QED BY <1>3, <1>6 DEF ChatInv

LEMMA SendPublishKeeps ==
  ASSUME HubInv, ChatInv, NEW s \in Sessions, SendPublish(s) PROVE HubInv' /\ ChatInv'
<1>1. /\ job[s].conv \in Conversations /\ job[s].message \in Messages
      /\ HomeOf[s] \in Instances /\ pc[s] \in Sends
  BY JobTypes, SupportChatConstants DEF ChatInv, SendPublish, Ready, Sends
<1>2. HubInv'
  BY <1>1, PublishKeeps DEF SendPublish
<1>3. TablesOK' /\ Grows
  BY SameTables DEF ChatInv, SendPublish
<1> QED BY <1>1, <1>2, <1>3, ContinueStep DEF ChatInv, SendPublish, Sends

LEMMA SendPanicsKeeps ==
  ASSUME HubInv, ChatInv, NEW s \in Sessions, SendPanics(s) PROVE HubInv' /\ ChatInv'
<1>1. /\ job[s].conv \in Conversations /\ job[s].message \in Messages
      /\ HomeOf[s] \in Instances
  BY JobTypes, SupportChatConstants DEF ChatInv, SendPanics, Ready, Sends
<1>2. HubInv'
  BY <1>1, PublishKeeps DEF SendPanics
<1>3. TablesOK' /\ Grows
  BY <1>1 DEF ChatInv, SendPanics, TablesOK, Grows
<1> QED BY <1>2, <1>3, FinishStep DEF ChatInv, SendPanics

LEMMA SendNotifyKeeps ==
  ASSUME ChatInv, NEW s \in Sessions, SendNotify(s) PROVE ChatInv'
<1>1. UNCHANGED <<convs, posted, clock, opener, linked, interrupted>> /\ Finish(s)
  BY DEF SendNotify
<1>2. announced' \in [Conversations -> Nat]
  <2>1. \A v \in Conversations : announced[v] \in Nat
    BY DEF ChatInv, TablesOK
  <2>2. PICK n \in {0, 1} : announced' = [announced EXCEPT ![job[s].conv] = @ + n]
    <3>1. CASE job[s].id \notin Admins /\ FirstMessage(job[s].conv)
      BY <3>1 DEF SendNotify
    <3>2. CASE ~(job[s].id \notin Admins /\ FirstMessage(job[s].conv))
      BY <3>2 DEF SendNotify
    <3> QED BY <3>1, <3>2
  <2>3. \A v \in Conversations : announced[v] + n \in Nat
    BY <2>1
  <2>4. announced \in [Conversations -> Nat]
    BY DEF ChatInv, TablesOK
  <2> QED BY <2>2, <2>3, <2>4
<1>3. TablesOK' /\ Grows
  BY <1>1, <1>2 DEF ChatInv, TablesOK, Grows
<1> QED BY <1>1, <1>3, FinishStep DEF ChatInv

\* Requests that are abandoned, by a failed statement or with their instance.
LEMMA AbandonKeeps ==
  ASSUME ChatInv, NEW S \in SUBSET Sessions, Abandon(S), crashes' \in 0 .. MaxCrashes
  PROVE  ChatInv'
<1>1. UNCHANGED <<convs, posted, clock, opener, linked, announced, requests>>
  BY DEF Abandon
<1>2. interrupted' \subseteq Conversations
  <2>1. \A s \in S : Sending(s) => job[s].conv \in Conversations
    BY JobTypes DEF ChatInv, Sending, Ready, Sends
  <2> QED BY <2>1 DEF Abandon, ChatInv, TablesOK
<1>3. TablesOK' /\ Grows
  BY <1>1, <1>2 DEF ChatInv, TablesOK, Grows
<1>4. /\ pc' \in [Sessions -> Labels] /\ job' \in [Sessions -> Job]
      /\ \A s \in Sessions : pc'[s] = "idle" \/ (pc'[s] = pc[s] /\ job'[s] = job[s])
  BY IdleTypes DEF Abandon, ChatInv, SessionsOK, Labels
<1>5. \A s \in Sessions : Ready(pc'[s], job'[s], convs', opener', linked')
  <2> SUFFICES ASSUME NEW s \in Sessions PROVE Ready(pc'[s], job'[s], convs', opener', linked')
    OBVIOUS
  <2>1. CASE pc'[s] = "idle"
    BY <2>1 DEF Ready, Sends
  <2>2. CASE pc'[s] = pc[s] /\ job'[s] = job[s]
    <3>1. Ready(pc[s], job[s], convs, opener, linked)
      BY JobTypes DEF ChatInv
    <3> QED BY <3>1, <2>2, <1>3, ReadyPersists
  <2> QED BY <2>1, <2>2, <1>4
<1> QED BY <1>1, <1>3, <1>4, <1>5 DEF ChatInv, SessionsOK, CountsOK

-----------------------------------------------------------------------------
(* The hubs and the conversations together. *)

Inv == HubInv /\ ChatInv

LEMMA InitInv == Init => Inv
<1> SUFFICES ASSUME Init PROVE Inv
  OBVIOUS
<1>1. HubInv
  BY InitHub DEF Init
<1>2. TablesOK
  <2>1. NoMessage \in Message
    BY DEF NoMessage, Message
  <2> QED BY <2>1, IdleTypes DEF Init, TablesOK, Times
<1>3. SessionsOK
  <2>1. \A s \in Sessions : Ready("idle", IdleJob, convs, opener, linked)
    BY DEF Ready, Sends
  <2> QED BY <2>1, IdleTypes DEF Init, SessionsOK, Labels
<1>4. CountsOK
  BY SupportChatConstants DEF Init, CountsOK
<1> QED BY <1>1, <1>2, <1>3, <1>4 DEF Inv, ChatInv

\* A step that leaves the conversations alone.
LEMMA ChatStutters ==
  ASSUME ChatInv, UNCHANGED chatVars PROVE ChatInv'
<1>1. /\ UNCHANGED <<convs, posted, clock, opener, linked, announced, interrupted>>
      /\ UNCHANGED <<pc, job, requests, crashes>>
  BY DEF chatVars, ghosts
<1>2. TablesOK'
  BY <1>1 DEF ChatInv, TablesOK
<1>3. SessionsOK' /\ CountsOK'
  BY <1>1 DEF ChatInv, SessionsOK, CountsOK
<1> QED BY <1>2, <1>3 DEF ChatInv

\* The steps of a request that publish nothing leave the hubs alone.
LEMMA ServeKeeps ==
  ASSUME Inv, NEW s \in Sessions, Serve(s) PROVE Inv'
<1>1. HubInv /\ ChatInv
  BY DEF Inv
<1>2. ASSUME PostConversation(s) \/ PostLinkGuest(s) PROVE Inv'
  <2>1. UNCHANGED hubVars
    BY <1>2 DEF PostConversation, PostLinkGuest, CreateRead, LinkRead
  <2>2. ChatInv'
    BY <1>1, <1>2, CreateReadKeeps, LinkReadKeeps DEF PostConversation, PostLinkGuest
  <2> QED BY <1>1, <2>1, <2>2, HubStutters DEF Inv
<1>3. ASSUME PatchConversation(s) \/ PatchRead(s) \/ PostMessage(s) PROVE Inv'
  <2>1. UNCHANGED hubVars
    BY <1>3 DEF PatchConversation, PatchRead, PostMessage, UpdateRead, MarkReadStart, SendRead
  <2>2. ChatInv'
    BY <1>1, <1>3, UpdateReadKeeps, MarkReadStartKeeps, SendReadKeeps
       DEF PatchConversation, PatchRead, PostMessage
  <2> QED BY <1>1, <2>1, <2>2, HubStutters DEF Inv
<1>4. ASSUME NEW v \in Conversations, CreateInsert(s, v) PROVE Inv'
  BY <1>1, <1>4, CreateInsertKeeps, HubStutters DEF Inv, CreateInsert
<1>5. CASE LinkUpdate(s)
  BY <1>1, <1>5, LinkUpdateKeeps, HubStutters DEF Inv, LinkUpdate
<1>6. CASE UpdateSave(s)
  BY <1>1, <1>6, UpdateSaveKeeps, HubStutters DEF Inv, UpdateSave
<1>7. CASE MarkReadUpdate(s)
  BY <1>1, <1>7, MarkReadUpdateKeeps, HubStutters DEF Inv, MarkReadUpdate
<1>8. CASE SendInsert(s)
  BY <1>1, <1>8, SendInsertKeeps, HubStutters DEF Inv, SendInsert
<1>9. CASE SendTouch(s)
  BY <1>1, <1>9, SendTouchKeeps, HubStutters DEF Inv, SendTouch
<1>10. CASE SendPublish(s)
  BY <1>1, <1>10, SendPublishKeeps DEF Inv
<1>11. CASE SendPanics(s)
  BY <1>1, <1>11, SendPanicsKeeps DEF Inv
<1>12. CASE SendNotify(s)
  BY <1>1, <1>12, SendNotifyKeeps, HubStutters DEF Inv, SendNotify
<1>14. CASE TouchFails(s)
  BY <1>1, <1>14, TouchFailsKeeps, HubStutters DEF Inv, TouchFails
<1>13. CASE Fails(s)
  <2>1. Abandon({s}) /\ crashes' \in 0 .. MaxCrashes /\ UNCHANGED hubVars
    BY <1>1, <1>13, SupportChatConstants DEF Fails, ChatInv, CountsOK
  <2> QED BY <1>1, <2>1, AbandonKeeps, HubStutters DEF Inv
<1> QED
  BY <1>2, <1>3, <1>4, <1>5, <1>6, <1>7, <1>8, <1>9, <1>10, <1>11, <1>12, <1>13, <1>14
  DEF Serve

LEMMA ConnectionsKeep ==
  ASSUME Inv, NEW c \in Clients, Connects(c) \/ Frames(c) PROVE Inv'
<1>1. HubInv /\ ChatInv
  BY DEF Inv
<1>2. CASE Connects(c)
  BY <1>1, <1>2, ConnectionKeeps, ChatStutters DEF Connects, Inv
<1>3. ASSUME NEW v \in Conversations, SubscribeFrame(c, v) PROVE Inv'
  BY <1>1, <1>3, SubscribeKeeps, ChatStutters DEF SubscribeFrame, Inv
<1>4. ASSUME NEW v \in Conversations, MessageFrame(c, v) PROVE Inv'
  <2>1. PICK s \in Sessions : SendRead(s, IdentityOf[c], v)
    BY <1>4 DEF MessageFrame
  <2>2. IdentityOf[c] \in Identities
    BY SupportChatConstants DEF Identities
  <2>3. UNCHANGED hubVars
    BY <2>1 DEF SendRead
  <2> QED BY <1>1, <2>1, <2>2, <2>3, SendReadKeeps, HubStutters DEF Inv
<1> QED BY <1>2, <1>3, <1>4 DEF Frames

LEMMA InstancesKeep ==
  ASSUME Inv, \/ \E r \in inflight : RelayMessage(r) \/ RelayEndsInstance(r)
              \/ \E i \in Instances : Crash(i)
  PROVE  Inv'
<1>1. HubInv /\ ChatInv
  BY DEF Inv
<1>2. ASSUME NEW r \in inflight, RelayMessage(r) PROVE Inv'
  BY <1>1, <1>2, RelayKeeps, ChatStutters DEF RelayMessage, Inv
<1>3. ASSUME NEW r \in inflight, RelayEndsInstance(r) PROVE Inv'
  <2>1. RelayPanics(r) /\ Abandon(Residents(r.to)) /\ crashes' \in 0 .. MaxCrashes
    BY <1>1, <1>3 DEF RelayEndsInstance, ChatInv, CountsOK
  <2>2. Residents(r.to) \in SUBSET Sessions
    BY DEF Residents
  <2> QED BY <1>1, <2>1, <2>2, EndingKeeps, AbandonKeeps DEF Inv
<1>4. ASSUME NEW i \in Instances, Crash(i) PROVE Inv'
  <2>1. InstanceCrash(i) /\ Abandon(Residents(i)) /\ crashes' \in 0 .. MaxCrashes
    BY <1>1, <1>4, SupportChatConstants DEF Crash, ChatInv, CountsOK
  <2>2. Residents(i) \in SUBSET Sessions
    BY DEF Residents
  <2> QED BY <1>1, <2>1, <2>2, EndingKeeps, AbandonKeeps DEF Inv
<1> QED BY <1>2, <1>3, <1>4

\* What holds of the hubs and of the conversations in every reachable state.
THEOREM InvHolds == Spec => []Inv
<1>1. Inv /\ [Next]_vars => Inv'
  <2> SUFFICES ASSUME Inv, [Next]_vars PROVE Inv'
    OBVIOUS
  <2>1. CASE UNCHANGED vars
    <3>1. UNCHANGED hubVars /\ UNCHANGED chatVars
      BY <2>1 DEF vars
    <3> QED BY <3>1, HubStutters, ChatStutters DEF Inv
  <2>2. CASE Next
    BY <2>2, ServeKeeps, ConnectionsKeep, InstancesKeep DEF Next
  <2> QED BY <2>1, <2>2
<1> QED BY <1>1, InitInv, PTL DEF Spec

\* TypeOK: every variable has its type, and no channel holds more than it can.
THEOREM TypesHold == Spec => []TypeOK
<1>1. Inv => TypeOK
  BY DEF Inv, HubInv, ChatInv, TablesOK, SessionsOK, CountsOK, TypeOK, Job, Labels
<1> QED BY <1>1, InvHolds, PTL

\* ClosedOnce: both pumps and every Broadcast that meets a full buffer call removeClient,
\* and no channel is closed twice; a registered client's is open.
THEOREM ChannelsAreClosedOnce == Spec => []ClosedOnce
<1>1. Inv => ClosedOnce
  BY HubGives DEF Inv
<1> QED BY <1>1, InvHolds, PTL

\* HeardOrDropped: a message a Broadcast has dealt with is written, waits, or its client
\* is removed or about to be.
THEOREM MessagesAreHeardOrClientsDropped == Spec => []HeardOrDropped
<1>1. Inv => HeardOrDropped
  BY HubGives DEF Inv
<1> QED BY <1>1, InvHolds, PTL

\* OwnersAreEntitled: whatever links and whole-row saves cross each other, a conversation
\* has one owner: who it was opened for, or a user that guest was linked to.
THEOREM OwnersStayEntitled == Spec => []OwnersAreEntitled
<1>1. Inv => OwnersAreEntitled
  <2> SUFFICES ASSUME Inv, NEW v \in Conversations, convs[v] # NoConversation
               PROVE  /\ (convs[v].user = None) # (convs[v].guest = None)
                      /\ Entitled(Owner(v), v)
    BY DEF OwnersAreEntitled
  <2>1. Owned(convs[v], v, opener, linked)
    BY DEF Inv, ChatInv, TablesOK
  <2> QED BY <2>1 DEF Owned, Holder, Owner, Entitled
<1> QED BY <1>1, InvHolds, PTL
-----------------------------------------------------------------------------
(* Administrators are told of a conversation once. *)

\* A message is stamped by one request, which stores it once and then names it.
Stamped(s) ==
  pc[s] \in Sends =>
    /\ job[s].message \in 1 .. clock
    /\ pc[s] = "insert" => posted[job[s].message].conv = None
    /\ Sending(s) => /\ posted[job[s].message].conv = job[s].conv
                     /\ posted[job[s].message].sender = "customer" => job[s].id \notin Admins

Stamps ==
  /\ \A m \in Messages : m > clock => posted[m].conv = None
  /\ \A s \in Sessions : Stamped(s)
  /\ \A s, t \in Sessions :
       pc[s] \in Sends /\ pc[t] \in Sends /\ job[s].message = job[t].message => s = t

\* What was announced is a message whose request has come to its end: while another is
\* being sent, the conversation has two.
Told(v) ==
  \/ announced[v] = 0
  \/ /\ announced[v] = 1
     /\ \E m \in MessagesOf(v) : \A s \in Sessions : Sending(s) => job[s].message # m

\* AnnouncedOnce's second half.
Tells(v) ==
  \A m \in Messages :
    MessagesOf(v) = {m} /\ posted[m].sender = "customer" =>
      \/ announced[v] = 1 \/ v \in interrupted
      \/ \E s \in Sessions : Sending(s) /\ job[s].conv = v

ToldInv == Stamps /\ \A v \in Conversations : Told(v) /\ Tells(v)

\* The numbers of the messages.
LEMMA MessageNumbers ==
  /\ IsFiniteSet(Messages) /\ Messages \subseteq Nat \ {0}
  /\ \A m \in Messages : 1 .. m \subseteq Messages
<1>1. Cardinality(Messages) \in Nat
  BY SupportChatConstants, FS_CardinalityType
<1> QED BY <1>1, SupportChatConstants

\* A conversation has its first message when it has one.
LEMMA FirstIsOnly ==
  ASSUME NEW v \in Conversations
  PROVE  /\ \A m \in Messages : MessagesOf(v) = {m} => FirstMessage(v)
         /\ FirstMessage(v) => \E m \in Messages : MessagesOf(v) = {m}
<1>1. IsFiniteSet(MessagesOf(v)) /\ MessagesOf(v) \subseteq Messages
  BY MessageNumbers, FS_Subset DEF MessagesOf
<1>2. \A m \in Messages : Cardinality({m}) = 1
  BY FS_Singleton
<1>3. FirstMessage(v) => \E m : MessagesOf(v) = {m}
  BY <1>1, FS_Singleton DEF FirstMessage
<1> QED BY <1>1, <1>2, <1>3 DEF FirstMessage

\* A step that stores no message and announces nothing.
LEMMA Untold ==
  ASSUME ToldInv, UNCHANGED <<posted, announced, clock>>,
         interrupted \subseteq interrupted',
         \A s \in Sessions : pc'[s] \in Sends =>
           /\ pc[s] \in Sends /\ job'[s] = job[s]
           /\ pc[s] = "insert" <=> pc'[s] = "insert",
         \A s \in Sessions : Sending(s) => Sending(s)' \/ job[s].conv \in interrupted'
  PROVE  ToldInv'
<1>1. \A s \in Sessions : Sending(s)' => Sending(s) /\ job'[s] = job[s]
  BY DEF Sending, Sends
<1>2. Stamps'
  BY <1>1 DEF ToldInv, Stamps, Stamped
<1>3. \A v \in Conversations : MessagesOf(v)' = MessagesOf(v)
  BY DEF MessagesOf
<1>4. ASSUME NEW v \in Conversations PROVE Told(v)'
  <2>1. Told(v)
    BY DEF ToldInv
  <2> QED BY <1>1, <1>3, <2>1 DEF Told
<1>5. ASSUME NEW v \in Conversations PROVE Tells(v)'
  <2>1. Tells(v) /\ MessagesOf(v)' = MessagesOf(v)
    BY <1>3 DEF ToldInv
  <2> QED BY <1>1, <2>1 DEF Tells
<1> QED BY <1>2, <1>4, <1>5 DEF ToldInv

\* A request that comes to its end without having sent a message, or begins without one.
LEMMA UntoldSession ==
  ASSUME Inv, ToldInv, UNCHANGED <<posted, announced, clock, interrupted>>,
         NEW s \in Sessions, NEW label, NEW j, At(s, label, j),
         \/ pc[s] \notin Sends /\ label \notin Sends
         \/ Sending(s) /\ label \in Sends \ {"insert"} /\ j = job[s]
  PROVE  ToldInv'
<1>1. \A t \in Sessions :
        /\ pc'[t] = (IF t = s THEN label ELSE pc[t])
        /\ job'[t] = (IF t = s THEN j ELSE job[t])
  BY DEF At, Inv, ChatInv, SessionsOK
<1>2. \A t \in Sessions : Sending(t) => Sending(t)' \/ job[t].conv \in interrupted'
  BY <1>1 DEF Sending, Sends
<1>3. \A t \in Sessions : pc'[t] \in Sends =>
        /\ pc[t] \in Sends /\ job'[t] = job[t]
        /\ pc[t] = "insert" <=> pc'[t] = "insert"
  BY <1>1 DEF Sending, Sends
<1> QED BY <1>2, <1>3, Untold

LEMMA SendReadTells ==
  ASSUME Inv, ToldInv, NEW s \in Sessions, NEW id \in Identities, NEW v \in Conversations,
         SendRead(s, id, v)
  PROVE  ToldInv'
<1> PICK j : j = [IdleJob EXCEPT !.id = id, !.conv = v, !.row = convs[v], !.message = clock + 1]
  OBVIOUS
<1>1. j.message = clock + 1
  BY DEF IdleJob
<1>2. /\ Request(s, "insert", j) /\ clock' = clock + 1 /\ clock + 1 \in Messages
      /\ UNCHANGED <<posted, announced, interrupted>>
  BY DEF SendRead, ghosts
<1>3. clock \in Nat
  BY MessageNumbers DEF Inv, ChatInv, TablesOK, Times
<1>4. \A t \in Sessions :
        /\ pc'[t] = (IF t = s THEN "insert" ELSE pc[t])
        /\ job'[t] = (IF t = s THEN j ELSE job[t])
  BY <1>2 DEF Request, At, Inv, ChatInv, SessionsOK
<1>5. pc[s] = "idle" /\ pc'[s] = "insert" /\ job'[s] = j
  BY <1>2, <1>4 DEF Request
<1>6. \A t \in Sessions : Sending(t)' <=> Sending(t)
  BY <1>4, <1>5 DEF Sending
<1>7. posted[clock + 1].conv = None
  BY <1>2, <1>3, MessageNumbers DEF ToldInv, Stamps
<1>8. Stamps'
  <2>1. \A m \in Messages : m > clock' => posted'[m].conv = None
    BY <1>2, <1>3, MessageNumbers DEF ToldInv, Stamps
  <2>2. \A t \in Sessions : Stamped(t)'
    <3> SUFFICES ASSUME NEW t \in Sessions PROVE Stamped(t)'
      OBVIOUS
    <3>1. CASE t = s
      BY <3>1, <1>1, <1>2, <1>3, <1>5, <1>7, MessageNumbers DEF Stamped, Sending
    <3>2. CASE t # s
      <4>1. pc'[t] = pc[t] /\ job'[t] = job[t] /\ Stamped(t)
        BY <3>2, <1>4 DEF ToldInv, Stamps
      <4> QED BY <4>1, <1>2, <1>3 DEF Stamped, Sending
    <3> QED BY <3>1, <3>2
  <2>3. \A t \in Sessions : t # s /\ pc[t] \in Sends => job[t].message # clock + 1
    BY <1>3 DEF ToldInv, Stamps, Stamped
  <2>4. \A t, u \in Sessions :
          pc'[t] \in Sends /\ pc'[u] \in Sends /\ job'[t].message = job'[u].message => t = u
    <3> SUFFICES ASSUME NEW t \in Sessions, NEW u \in Sessions, t # u,
                        pc'[t] \in Sends, pc'[u] \in Sends
                 PROVE  job'[t].message # job'[u].message
      OBVIOUS
    <3>1. CASE t = s
      BY <3>1, <2>3, <1>1, <1>4
    <3>2. CASE u = s
      BY <3>2, <2>3, <1>1, <1>4
    <3>3. CASE t # s /\ u # s
      BY <3>3, <1>4 DEF ToldInv, Stamps
    <3> QED BY <3>1, <3>2, <3>3
  <2> QED BY <2>1, <2>2, <2>4 DEF Stamps
<1>9. \A t \in Sessions : Sending(t) => job'[t] = job[t]
  BY <1>4, <1>5 DEF Sending
<1>10. \A w \in Conversations : MessagesOf(w)' = MessagesOf(w)
  BY <1>2 DEF MessagesOf
<1>11. ASSUME NEW w \in Conversations PROVE Told(w)'
  BY <1>2, <1>6, <1>9, <1>10 DEF ToldInv, Told
<1>12. ASSUME NEW w \in Conversations PROVE Tells(w)'
  <2>1. Tells(w) /\ MessagesOf(w)' = MessagesOf(w)
    BY <1>10 DEF ToldInv
  <2> QED BY <1>2, <1>6, <1>9, <2>1 DEF Tells
<1> QED BY <1>8, <1>11, <1>12 DEF ToldInv

LEMMA SendInsertTells ==
  ASSUME Inv, ToldInv, NEW s \in Sessions, SendInsert(s) PROVE ToldInv'
<1> PICK m : m = job[s].message
  OBVIOUS
<1> PICK w : w = job[s].conv
  OBVIOUS
<1>1. m \in Messages /\ w \in Conversations
  BY JobTypes DEF Inv, ChatInv, SendInsert, Ready, Sends
<1> PICK row : row = [conv |-> w, from |-> job[s].id,
                      sender |-> IF job[s].id \in Admins THEN "admin" ELSE "customer"]
  OBVIOUS
<1>2. row.conv = w /\ (row.sender = "customer" => job[s].id \notin Admins)
  OBVIOUS
<1>3. /\ posted' = [posted EXCEPT ![m] = row] /\ pc[s] = "insert"
      /\ UNCHANGED <<clock, announced, interrupted>> /\ At(s, "touch", job[s])
  BY DEF SendInsert, ghosts, Continue
<1>4. \A x \in Messages : posted'[x] = IF x = m THEN row ELSE posted[x]
  BY <1>3 DEF Inv, ChatInv, TablesOK
<1>5. /\ \A t \in Sessions : pc'[t] = IF t = s THEN "touch" ELSE pc[t]
      /\ \A t \in Sessions : job'[t] = job[t]
  BY <1>3 DEF At, Inv, ChatInv, SessionsOK
<1>6. /\ \A t \in Sessions : pc[t] \in Sends /\ t # s => job[t].message # m
      /\ posted[m].conv = None /\ m \in 1 .. clock
  BY <1>3 DEF ToldInv, Stamps, Stamped, Sends
<1>7. clock \in Nat
  BY MessageNumbers DEF Inv, ChatInv, TablesOK, Times
<1>8. \A t \in Sessions : pc[t] \in Sends => job[t].message \in Messages
  BY JobTypes DEF Inv, ChatInv, Ready, Sends
<1>9. Stamps'
  <2>1. \A x \in Messages : x > clock' => posted'[x].conv = None
    BY <1>3, <1>4, <1>6, <1>7, MessageNumbers DEF ToldInv, Stamps
  <2>2. \A t \in Sessions : Stamped(t)'
    <3> SUFFICES ASSUME NEW t \in Sessions PROVE Stamped(t)'
      OBVIOUS
    <3>1. CASE t = s
      BY <3>1, <1>1, <1>2, <1>3, <1>4, <1>5, <1>6 DEF Stamped, Sending
    <3>2. CASE t # s
      <4>1. pc'[t] = pc[t] /\ job'[t] = job[t] /\ Stamped(t)
        BY <3>2, <1>5 DEF ToldInv, Stamps
      <4>2. pc[t] \in Sends => posted'[job[t].message] = posted[job[t].message]
        BY <3>2, <1>4, <1>6, <1>8
      <4> QED BY <4>1, <4>2, <1>3 DEF Stamped, Sending, Sends
    <3> QED BY <3>1, <3>2
  <2>3. \A t, u \in Sessions :
          pc'[t] \in Sends /\ pc'[u] \in Sends /\ job'[t].message = job'[u].message => t = u
    BY <1>3, <1>5 DEF ToldInv, Stamps, Sends
  <2> QED BY <2>1, <2>2, <2>3 DEF Stamps
<1>10. /\ MessagesOf(w)' = MessagesOf(w) \cup {m}
       /\ \A v \in Conversations : v # w => MessagesOf(v)' = MessagesOf(v)
       /\ \A v \in Conversations : m \notin MessagesOf(v)
  <2>1. \A v \in Conversations : v # None
    BY ChatHubConstants
  <2> QED BY <2>1, <1>1, <1>2, <1>4, <1>6 DEF MessagesOf
<1>11. \A t \in Sessions : Sending(t)' <=> Sending(t) \/ t = s
  BY <1>5 DEF Sending
<1>12. ASSUME NEW v \in Conversations PROVE Told(v)'
  <2>1. Told(v) /\ announced'[v] = announced[v]
    BY <1>3 DEF ToldInv
  <2>2. CASE announced[v] = 0
    BY <2>1, <2>2 DEF Told
  <2>3. ASSUME NEW x \in MessagesOf(v), \A t \in Sessions : Sending(t) => job[t].message # x,
               announced[v] = 1
        PROVE  Told(v)'
    <3>1. x \in MessagesOf(v)' /\ x # m
      BY <1>10
    <3>2. \A t \in Sessions : Sending(t)' => job'[t].message # x
      BY <2>3, <3>1, <1>5, <1>11
    <3> QED BY <2>1, <2>3, <3>1, <3>2 DEF Told
  <2> QED BY <2>1, <2>2, <2>3 DEF Told
<1>13. ASSUME NEW v \in Conversations PROVE Tells(v)'
  <2>1. CASE v = w
    BY <2>1, <1>5, <1>11 DEF Tells
  <2>2. CASE v # w
    <3>1. MessagesOf(v)' = MessagesOf(v) /\ m \notin MessagesOf(v) /\ Tells(v)
      BY <2>2, <1>10 DEF ToldInv
    <3>2. \A x \in Messages : MessagesOf(v) = {x} => posted'[x] = posted[x]
      BY <3>1, <1>4
    <3> QED BY <3>1, <3>2, <1>3, <1>5, <1>11 DEF Tells
  <2> QED BY <2>1, <2>2
<1> QED BY <1>9, <1>12, <1>13 DEF ToldInv

LEMMA SendNotifyTells ==
  ASSUME Inv, ToldInv, NEW s \in Sessions, SendNotify(s) PROVE ToldInv'
<1> PICK m : m = job[s].message
  OBVIOUS
<1> PICK w : w = job[s].conv
  OBVIOUS
<1>1. /\ m \in Messages /\ w \in Conversations /\ Sending(s) /\ pc[s] \in Sends
      /\ posted[m].conv = w /\ (posted[m].sender = "customer" => job[s].id \notin Admins)
  <2>1. pc[s] \in Sends /\ Sending(s) /\ Ready(pc[s], job[s], convs, opener, linked)
    BY JobTypes DEF Inv, ChatInv, SendNotify, Sends, Sending
  <2>2. Stamped(s)
    BY DEF ToldInv, Stamps
  <2> QED BY <2>1, <2>2 DEF Ready, Stamped
<1> PICK b \in BOOLEAN : b = (job[s].id \notin Admins /\ FirstMessage(w))
  BY Zenon
<1>2. /\ announced' = [announced EXCEPT ![w] = @ + IF b THEN 1 ELSE 0]
      /\ UNCHANGED <<posted, clock, interrupted>> /\ At(s, "idle", IdleJob)
  BY DEF SendNotify, Finish
<1>3. \A v \in Conversations :
        announced'[v] = IF v = w THEN announced[v] + (IF b THEN 1 ELSE 0) ELSE announced[v]
  BY <1>2 DEF Inv, ChatInv, TablesOK
<1>4. \A t \in Sessions :
        /\ pc'[t] = (IF t = s THEN "idle" ELSE pc[t])
        /\ job'[t] = (IF t = s THEN IdleJob ELSE job[t])
  BY <1>2 DEF At, Inv, ChatInv, SessionsOK
<1>5. \A t \in Sessions : pc'[t] \in Sends => t # s /\ pc[t] = pc'[t] /\ job'[t] = job[t]
  BY <1>4 DEF Sends
<1>6. \A t \in Sessions : Sending(t)' <=> Sending(t) /\ t # s
  BY <1>4 DEF Sending
<1>7. \A t \in Sessions : Sending(t) /\ t # s => job[t].message # m
  BY <1>1 DEF ToldInv, Stamps, Sending, Sends
<1>8. Stamps'
  BY <1>2, <1>5, <1>6 DEF ToldInv, Stamps, Stamped
<1>9. \A v \in Conversations : MessagesOf(v)' = MessagesOf(v)
  BY <1>2 DEF MessagesOf
<1>10. m \in MessagesOf(w)
  BY <1>1 DEF MessagesOf
<1>11. b => announced[w] = 0 /\ MessagesOf(w) = {m}
  <2> SUFFICES ASSUME b PROVE announced[w] = 0 /\ MessagesOf(w) = {m}
    OBVIOUS
  <2>1. MessagesOf(w) = {m}
    BY <1>1, <1>10, FirstIsOnly
  <2>2. Told(w)
    BY <1>1 DEF ToldInv
  <2> QED BY <2>1, <2>2, <1>1 DEF Told
<1>12. ASSUME NEW v \in Conversations PROVE Told(v)'
  <2>1. Told(v) /\ announced[v] \in Nat
    BY DEF ToldInv, Inv, ChatInv, TablesOK
  <2>2. CASE v = w /\ b
    <3>1. announced'[v] = 1
      BY <2>2, <1>3, <1>11
    <3>2. m \in MessagesOf(v)' /\ \A t \in Sessions : Sending(t)' => job'[t].message # m
      BY <2>2, <1>4, <1>6, <1>7, <1>9, <1>10
    <3> QED BY <3>1, <3>2 DEF Told
  <2>3. CASE ~(v = w /\ b)
    <3>1. announced'[v] = announced[v]
      BY <2>1, <2>3, <1>3
    <3>2. \A t \in Sessions : Sending(t)' => Sending(t) /\ job'[t] = job[t]
      BY <1>4, <1>6
    <3> QED BY <2>1, <3>1, <3>2, <1>9 DEF Told
  <2> QED BY <2>2, <2>3
<1>13. ASSUME NEW v \in Conversations PROVE Tells(v)'
  <2> SUFFICES ASSUME NEW x \in Messages, MessagesOf(v) = {x}, posted[x].sender = "customer"
               PROVE  \/ announced'[v] = 1 \/ v \in interrupted
                      \/ \E t \in Sessions : Sending(t)' /\ job'[t].conv = v
    BY <1>2, <1>9 DEF Tells
  <2>1. Tells(v) /\ Told(v)
    BY DEF ToldInv
  <2>2. CASE v = w
    <3>1. x = m /\ FirstMessage(w)
      BY <2>2, <1>1, <1>10, FirstIsOnly
    <3>2. b
      BY <3>1, <1>1
    <3> QED BY <2>2, <3>2, <1>3, <1>11
  <2>3. CASE v # w
    <3>1. announced'[v] = announced[v]
      BY <2>3, <1>3
    <3>2. \A t \in Sessions : Sending(t) /\ job[t].conv = v => Sending(t)' /\ job'[t] = job[t]
      BY <2>3, <1>4, <1>6
    <3> QED BY <2>1, <3>1, <3>2 DEF Tells
  <2> QED BY <2>2, <2>3
<1> QED BY <1>8, <1>12, <1>13 DEF ToldInv

LEMMA AbandonTells ==
  ASSUME Inv, ToldInv, NEW S \in SUBSET Sessions, Abandon(S) PROVE ToldInv'
<1>1. UNCHANGED <<posted, announced, clock>> /\ interrupted \subseteq interrupted'
  BY DEF Abandon
<1>2. \A t \in Sessions :
        /\ pc'[t] = (IF t \in S THEN "idle" ELSE pc[t])
        /\ job'[t] = (IF t \in S THEN IdleJob ELSE job[t])
  BY DEF Abandon
<1>3. \A t \in Sessions : pc'[t] \in Sends =>
        /\ pc[t] \in Sends /\ job'[t] = job[t]
        /\ pc[t] = "insert" <=> pc'[t] = "insert"
  BY <1>2 DEF Sends
<1>4. \A t \in Sessions : Sending(t) => Sending(t)' \/ job[t].conv \in interrupted'
  <2> SUFFICES ASSUME NEW t \in Sessions, Sending(t), ~Sending(t)'
               PROVE  job[t].conv \in interrupted'
    OBVIOUS
  <2>1. t \in S
    BY <1>2 DEF Sending
  <2> QED BY <2>1 DEF Abandon
<1> QED BY <1>1, <1>3, <1>4, Untold

LEMMA SendPanicsTells ==
  ASSUME Inv, ToldInv, NEW s \in Sessions, SendPanics(s) PROVE ToldInv'
<1>1. /\ UNCHANGED <<posted, announced, clock>>
      /\ interrupted' = interrupted \cup {job[s].conv} /\ At(s, "idle", IdleJob)
  BY DEF SendPanics, Finish
<1>2. \A t \in Sessions :
        /\ pc'[t] = (IF t = s THEN "idle" ELSE pc[t])
        /\ job'[t] = (IF t = s THEN IdleJob ELSE job[t])
  BY <1>1 DEF At, Inv, ChatInv, SessionsOK
<1>3. \A t \in Sessions : pc'[t] \in Sends =>
        /\ pc[t] \in Sends /\ job'[t] = job[t]
        /\ pc[t] = "insert" <=> pc'[t] = "insert"
  BY <1>2 DEF Sends
<1>4. \A t \in Sessions : Sending(t) => Sending(t)' \/ job[t].conv \in interrupted'
  BY <1>1, <1>2 DEF Sending
<1> QED BY <1>1, <1>3, <1>4, Untold

\* A step that leaves the conversations alone.
LEMMA ChatStuttersTells ==
  ASSUME ToldInv, UNCHANGED chatVars PROVE ToldInv'
<1>1. UNCHANGED <<posted, announced, clock, interrupted, pc, job>>
  BY DEF chatVars, ghosts
<1>2. \A s \in Sessions : Sending(s)' <=> Sending(s)
  BY <1>1 DEF Sending
<1> QED BY <1>1, <1>2, Untold

LEMMA ServeTells ==
  ASSUME Inv, ToldInv, NEW s \in Sessions, Serve(s) PROVE ToldInv'
<1>1. CASE PostConversation(s) \/ PostLinkGuest(s) \/ PatchConversation(s) \/ PatchRead(s)
  <2>1. UNCHANGED <<posted, announced, clock, interrupted>> /\ pc[s] = "idle"
    BY <1>1 DEF PostConversation, PostLinkGuest, PatchConversation, PatchRead, CreateRead,
                LinkRead, UpdateRead, MarkReadStart, Request, ghosts
  <2>2. \E label \in {"create", "link", "save", "mark"} : \E j : At(s, label, j)
    <3>1. PostConversation(s) => \E j : At(s, "create", j)
      BY DEF PostConversation, CreateRead, Request
    <3>2. PostLinkGuest(s) => \E j : At(s, "link", j)
      BY DEF PostLinkGuest, LinkRead, Request
    <3>3. PatchConversation(s) => \E j : At(s, "save", j)
      BY DEF PatchConversation, UpdateRead, Request
    <3>4. PatchRead(s) => \E j : At(s, "mark", j)
      BY DEF PatchRead, MarkReadStart, Request
    <3> QED BY <1>1, <3>1, <3>2, <3>3, <3>4
  <2>3. PICK label \in {"create", "link", "save", "mark"} : \E j : At(s, label, j)
    BY <2>2
  <2>4. PICK j : At(s, label, j)
    BY <2>3
  <2> QED BY <2>1, <2>4, UntoldSession DEF Sends
<1>2. CASE (\E v \in Conversations : CreateInsert(s, v)) \/ LinkUpdate(s) \/ UpdateSave(s)
             \/ MarkReadUpdate(s)
  <2>1. /\ UNCHANGED <<posted, announced, clock, interrupted>>
        /\ pc[s] \notin Sends /\ At(s, "idle", IdleJob)
    BY <1>2 DEF CreateInsert, LinkUpdate, UpdateSave, MarkReadUpdate, Finish, ghosts, Sends
  <2> QED BY <2>1, UntoldSession DEF Sends
<1>3. CASE SendTouch(s) \/ TouchFails(s) \/ SendPublish(s)
  <2>1. UNCHANGED <<posted, announced, clock, interrupted>> /\ Sending(s)
    BY <1>3 DEF SendTouch, TouchFails, SendPublish, ghosts, Sending
  <2>2. PICK label \in {"publish", "notify"} : At(s, label, job[s])
    BY <1>3 DEF SendTouch, TouchFails, SendPublish, Continue
  <2> QED BY <2>1, <2>2, UntoldSession DEF Sends
<1>4. CASE PostMessage(s)
  BY <1>4, SendReadTells DEF PostMessage
<1>5. CASE Fails(s)
  BY <1>5, AbandonTells DEF Fails
<1> QED
  BY <1>1, <1>2, <1>3, <1>4, <1>5, SendInsertTells, SendNotifyTells, SendPanicsTells DEF Serve

LEMMA NextTells ==
  ASSUME Inv, ToldInv, Next PROVE ToldInv'
<1>1. ASSUME NEW c \in Clients, Connects(c) \/ Frames(c) PROVE ToldInv'
  <2>1. CASE Connects(c)
    BY <2>1, ChatStuttersTells DEF Connects
  <2>2. ASSUME NEW v \in Conversations, SubscribeFrame(c, v) PROVE ToldInv'
    BY <2>2, ChatStuttersTells DEF SubscribeFrame
  <2>3. ASSUME NEW v \in Conversations, MessageFrame(c, v) PROVE ToldInv'
    <3>1. IdentityOf[c] \in Identities
      BY SupportChatConstants DEF Identities
    <3> QED BY <2>3, <3>1, SendReadTells DEF MessageFrame
  <2> QED BY <1>1, <2>1, <2>2, <2>3 DEF Frames
<1>2. ASSUME NEW r \in inflight, RelayMessage(r) \/ RelayEndsInstance(r) PROVE ToldInv'
  <2>1. Residents(r.to) \in SUBSET Sessions
    BY DEF Residents
  <2> QED BY <1>2, <2>1, ChatStuttersTells, AbandonTells DEF RelayMessage, RelayEndsInstance
<1>3. ASSUME NEW i \in Instances, Crash(i) PROVE ToldInv'
  <2>1. Residents(i) \in SUBSET Sessions
    BY DEF Residents
  <2> QED BY <1>3, <2>1, AbandonTells DEF Crash
<1> QED BY <1>1, <1>2, <1>3, ServeTells DEF Next

\* AnnouncedOnce: whatever messages cross each other between the insert and the count,
\* administrators are told of no conversation twice, and of one with a single message of a
\* customer once nothing is left to be done about it.
THEOREM ConversationsAreAnnouncedOnce == Spec => []AnnouncedOnce
<1>1. Init => ToldInv
  <2> SUFFICES ASSUME Init PROVE ToldInv
    OBVIOUS
  <2>1. /\ \A m \in Messages : posted[m].conv = None
        /\ \A s \in Sessions : pc[s] \notin Sends /\ ~Sending(s)
    BY DEF Init, NoMessage, Sends, Sending
  <2>2. \A v \in Conversations : MessagesOf(v) = {} /\ announced[v] = 0
    BY <2>1, ChatHubConstants DEF MessagesOf, Init
  <2> QED BY <2>1, <2>2 DEF ToldInv, Stamps, Stamped, Told, Tells
<1>2. Inv /\ ToldInv /\ [Next]_vars => ToldInv'
  <2>1. UNCHANGED vars => UNCHANGED chatVars
    BY DEF vars
  <2> QED BY <2>1, ChatStuttersTells, NextTells
<1>3. ToldInv => AnnouncedOnce
  BY DEF ToldInv, Told, Tells, AnnouncedOnce
<1> QED BY <1>1, <1>2, <1>3, InvHolds, PTL DEF Spec
=============================================================================
