----------------------------- MODULE SupportChat -----------------------------
(***************************************************************************)
(* Support conversations (chat_service.go, chat_repository.go, their       *)
(* handlers and FlexibleAuth) composed with the hubs of ChatHub, which     *)
(* publish the messages the service stores and ask it who may subscribe.   *)
(*                                                                         *)
(* No statement of the service locks a row and none of its operations is a *)
(* transaction: rows are read, tested, and later inserted, updated column  *)
(* by column, or saved as a whole.                                         *)
(***************************************************************************)
EXTENDS ChatHub, FiniteSets

CONSTANTS
  Sessions,      \* requests under way, each in an instance (HomeOf)
  Users, Admins,
  Guests,        \* guest tokens that are out
  IdentityOf,    \* the user or guest a connection's token names
  MaxRequests,   \* bound: requests
  MaxCrashes     \* bound: requests and instances that come to an early end

ASSUME SupportChatConstants ==
  /\ Admins \subseteq Users
  /\ Users \cap Guests = {}
  /\ None \notin Users \cup Guests
  /\ IsFiniteSet(Messages) /\ Messages = 1 .. Cardinality(Messages)
  /\ \A c \in Clients : IdentityOf[c] \in Users \cup Guests
  /\ \A s \in Sessions : HomeOf[s] \in Instances
  /\ MaxRequests \in Nat /\ MaxCrashes \in Nat

VARIABLES
  convs,        \* the conversations table
  posted,       \* the chat_messages table
  clock,        \* the time, as the number of messages that have been stamped
  opener,       \* who each conversation was created for
  linked,       \* the pairs of a guest and a user that were linked
  announced,    \* how often administrators were told of a conversation
  interrupted,  \* the conversations in which a SendMessage did not come to its end
  pc, job, requests, crashes

ghosts == <<opener, linked, announced, interrupted>>
chatVars == <<convs, posted, clock, ghosts, pc, job, requests, crashes>>
vars == <<hubVars, chatVars>>

-----------------------------------------------------------------------------
Identities == Users \cup Guests
Times == {0} \cup Messages

\* Times are those of the latest message stamped before; the guest's name, the context
\* and the bodies are left out.
Conversation ==
  [status : {"none", "open", "closed"}, user : Users \cup {None}, guest : Guests \cup {None},
   email : BOOLEAN, last : Times, customerRead : Times, adminRead : Times]
NoConversation ==
  [status |-> "none", user |-> None, guest |-> None, email |-> FALSE, last |-> 0,
   customerRead |-> 0, adminRead |-> 0]

Message == [conv : Conversations \cup {None}, from : Identities \cup {None},
            sender : {"customer", "admin", "none"}]
NoMessage == [conv |-> None, from |-> None, sender |-> "none"]

IdleJob == [id |-> None, conv |-> None, row |-> NoConversation, message |-> 0]

TypeOK ==
  /\ HubTypeOK
  /\ convs \in [Conversations -> Conversation]
  /\ posted \in [Messages -> Message]
  /\ clock \in Times
  /\ opener \in [Conversations -> Identities \cup {None}]
  /\ linked \subseteq Guests \X Users
  /\ announced \in [Conversations -> Nat]
  /\ interrupted \subseteq Conversations
  /\ pc \in [Sessions -> {"idle", "create", "link", "save", "mark",
                          "insert", "touch", "publish", "notify"}]
  /\ job \in [Sessions -> [id : Identities \cup {None}, conv : Conversations \cup {None},
                           row : Conversation, message : Times]]
  /\ requests \in 0 .. MaxRequests
  /\ crashes \in 0 .. MaxCrashes

-----------------------------------------------------------------------------
(* Requests.  A token names a user or a guest (FlexibleAuth); a frame of a connection is *)
(* served as a request of the identity the connection's token names.                      *)

At(s, label, j) ==
  /\ pc' = [pc EXCEPT ![s] = label]
  /\ job' = [job EXCEPT ![s] = j]

Request(s, label, j) ==
  /\ pc[s] = "idle"
  /\ HomeOf[s] \notin down
  /\ requests < MaxRequests
  /\ requests' = requests + 1
  /\ At(s, label, j)
  /\ UNCHANGED crashes

Continue(s, label) == At(s, label, job[s]) /\ UNCHANGED <<requests, crashes>>
Finish(s) == At(s, "idle", IdleJob) /\ UNCHANGED <<requests, crashes>>

Owner(v) == IF convs[v].user # None THEN convs[v].user ELSE convs[v].guest

CanAccess(id, v) ==
  /\ convs[v] # NoConversation
  /\ \/ id \in Admins
     \/ id \in Users /\ convs[v].user = id
     \/ id \in Guests /\ convs[v].guest = id

\* GetOpenByUserID and GetOpenByGuestID
Open(id) ==
  {v \in Conversations : /\ convs[v].status = "open"
                         /\ id = IF id \in Users THEN convs[v].user ELSE convs[v].guest}

-----------------------------------------------------------------------------
(* GetOrCreateConversation and LinkGuest *)

CreateRead(s, id) ==
  /\ Open(id) = {}
  /\ Request(s, "create", [IdleJob EXCEPT !.id = id])
  /\ UNCHANGED <<hubVars, convs, posted, clock, ghosts>>

NewConversation(id) ==
  [NoConversation EXCEPT !.status = "open", !.last = clock,
     !.user = IF id \in Users THEN id ELSE None,
     !.guest = IF id \in Users THEN None ELSE id]

\* Nothing refuses a second open one.
CreateInsert(s, v) ==
  /\ pc[s] = "create"
  /\ convs[v] = NoConversation
  /\ convs' = [convs EXCEPT ![v] = NewConversation(job[s].id)]
  /\ opener' = [opener EXCEPT ![v] = job[s].id]
  /\ Finish(s)
  /\ UNCHANGED <<hubVars, posted, clock, linked, announced, interrupted>>

GuestRows(g) == {v \in Conversations : convs[v].guest = g /\ convs[v].user = None}

LinkRead(s, u, g) ==
  /\ GuestRows(g) # {}
  /\ Request(s, "link", [IdleJob EXCEPT !.id = u, !.row.guest = g])
  /\ linked' = linked \cup {<<g, u>>}
  /\ UNCHANGED <<hubVars, convs, posted, clock, opener, announced, interrupted>>

\* Mutant: guest_id is not cleared.
LinkedTwice(row, u) == [row EXCEPT !.user = u]

LinkedTo(row, u) == [row EXCEPT !.user = u, !.guest = None]

\* LinkGuestConversations finds the rows anew.
LinkUpdate(s) ==
  /\ pc[s] = "link"
  /\ convs' = [v \in Conversations |-> IF v \in GuestRows(job[s].row.guest)
                                       THEN LinkedTo(convs[v], job[s].id) ELSE convs[v]]
  /\ Finish(s)
  /\ UNCHANGED <<hubVars, posted, clock, ghosts>>

-----------------------------------------------------------------------------
(* UpdateConversation and MarkRead *)

\* Closing, a guest's email, or both.
UpdateRead(s, id, v, close, email) ==
  /\ close \/ email
  /\ CanAccess(id, v)
  /\ email => id \in Guests
  /\ Request(s, "save", [IdleJob EXCEPT !.id = id, !.conv = v,
       !.row = [convs[v] EXCEPT !.status = IF close THEN "closed" ELSE @,
                                !.email = @ \/ email]])
  /\ UNCHANGED <<hubVars, convs, posted, clock, ghosts>>

\* The row is saved as it was read: a link, a closing or a cursor since then is undone.
UpdateSave(s) ==
  /\ pc[s] = "save"
  /\ convs' = [convs EXCEPT ![job[s].conv] = job[s].row]
  /\ Finish(s)
  /\ UNCHANGED <<hubVars, posted, clock, ghosts>>

\* The time is taken after the access check.
MarkReadStart(s, id, v) ==
  /\ CanAccess(id, v)
  /\ Request(s, "mark", [IdleJob EXCEPT !.id = id, !.conv = v, !.message = clock])
  /\ UNCHANGED <<hubVars, convs, posted, clock, ghosts>>

\* Mutant: the time is counted in messages that are to come.
ReadAhead(s) ==
  /\ pc[s] = "mark"
  /\ convs' = [convs EXCEPT ![job[s].conv].adminRead = job[s].message + Cardinality(Messages)]
  /\ Finish(s)
  /\ UNCHANGED <<hubVars, posted, clock, ghosts>>

MarkReadUpdate(s) ==
  /\ pc[s] = "mark"
  /\ convs' = IF job[s].id \in Admins
              THEN [convs EXCEPT ![job[s].conv].adminRead = job[s].message]
              ELSE [convs EXCEPT ![job[s].conv].customerRead = job[s].message]
  /\ Finish(s)
  /\ UNCHANGED <<hubVars, posted, clock, ghosts>>

-----------------------------------------------------------------------------
(* SendMessage *)

\* The row is read, access and status are tested, and the message is stamped.
SendRead(s, id, v) ==
  /\ CanAccess(id, v)
  /\ convs[v].status = "open"
  /\ clock + 1 \in Messages
  /\ clock' = clock + 1
  /\ Request(s, "insert", [IdleJob EXCEPT !.id = id, !.conv = v, !.row = convs[v],
                                          !.message = clock + 1])
  /\ UNCHANGED <<hubVars, convs, posted, ghosts>>

SendInsert(s) ==
  /\ pc[s] = "insert"
  /\ posted' = [posted EXCEPT ![job[s].message] =
       [conv |-> job[s].conv, from |-> job[s].id,
        sender |-> IF job[s].id \in Admins THEN "admin" ELSE "customer"]]
  /\ Continue(s, "touch")
  /\ UNCHANGED <<hubVars, convs, clock, ghosts>>

\* TouchLastMessageAt
SendTouch(s) ==
  /\ pc[s] = "touch"
  /\ convs' = [convs EXCEPT ![job[s].conv].last = job[s].message]
  /\ Continue(s, "publish")
  /\ UNCHANGED <<hubVars, posted, clock, ghosts>>

\* Its error is ignored, and the request goes on.
TouchFails(s) ==
  /\ pc[s] = "touch"
  /\ crashes < MaxCrashes
  /\ crashes' = crashes + 1
  /\ At(s, "publish", job[s])
  /\ UNCHANGED <<hubVars, convs, posted, clock, ghosts, requests>>

SendPublish(s) ==
  /\ pc[s] = "publish"
  /\ PublishMessage(HomeOf[s], job[s].conv, job[s].message)
  /\ Continue(s, "notify")
  /\ UNCHANGED <<convs, posted, clock, ghosts>>

\* The request ends in a 500, its message is stored, and nobody is notified.
SendPanics(s) ==
  /\ pc[s] = "publish"
  /\ PublishPanics(HomeOf[s], job[s].conv, job[s].message)
  /\ interrupted' = interrupted \cup {job[s].conv}
  /\ Finish(s)
  /\ UNCHANGED <<convs, posted, clock, opener, linked, announced>>

\* CountMessages
MessagesOf(v) == {m \in Messages : posted[m].conv = v}

\* Mutant: every message of a customer is taken for the first.
AnyMessage(v) == MessagesOf(v) # {}

FirstMessage(v) == Cardinality(MessagesOf(v)) = 1

\* dispatchMessageNotifications: administrators are told of a customer's first message,
\* the customer of every reply.
SendNotify(s) ==
  LET v == job[s].conv
  IN /\ pc[s] = "notify"
     /\ announced' = [announced EXCEPT ![v] =
          @ + IF job[s].id \notin Admins /\ FirstMessage(v) THEN 1 ELSE 0]
     /\ Finish(s)
     /\ UNCHANGED <<hubVars, convs, posted, clock, opener, linked, interrupted>>

-----------------------------------------------------------------------------
(* Connections *)

\* The access check of a "subscribe" frame is the only one of a subscription.
SubscribeFrame(c, v) ==
  /\ CanAccess(IdentityOf[c], v)
  /\ Subscribe(c, v)
  /\ UNCHANGED chatVars

\* A "message" frame: the read pump calls SendMessage for the connection's identity.
MessageFrame(c, v) ==
  /\ "read" \in conns[c].pumps
  /\ \E s \in Sessions : HomeOf[s] = HomeOf[c] /\ SendRead(s, IdentityOf[c], v)

Connects(c) == Connection(c) /\ UNCHANGED chatVars

Sending(s) == pc[s] \in {"touch", "publish", "notify"}

\* What happens to the requests S of a process that ends.
Abandon(S) ==
  /\ pc' = [s \in Sessions |-> IF s \in S THEN "idle" ELSE pc[s]]
  /\ job' = [s \in Sessions |-> IF s \in S THEN IdleJob ELSE job[s]]
  /\ interrupted' = interrupted \cup {job[s].conv : s \in {x \in S : Sending(x)}}
  /\ UNCHANGED <<convs, posted, clock, opener, linked, announced, requests>>

Residents(i) == {s \in Sessions : HomeOf[s] = i}

RelayMessage(r) == Relay(r) /\ UNCHANGED chatVars

RelayEndsInstance(r) ==
  /\ RelayPanics(r)
  /\ Abandon(Residents(r.to))
  /\ UNCHANGED crashes

Crash(i) ==
  /\ crashes < MaxCrashes
  /\ crashes' = crashes + 1
  /\ InstanceCrash(i)
  /\ Abandon(Residents(i))

\* A statement of a request fails, and the request ends; the count of messages and the
\* list of administrators among them, whose errors only the log sees.
Fails(s) ==
  /\ pc[s] \notin {"idle", "touch", "publish"}
  /\ crashes < MaxCrashes
  /\ crashes' = crashes + 1
  /\ Abandon({s})
  /\ UNCHANGED hubVars

-----------------------------------------------------------------------------
PostConversation(s) == \E id \in Identities : CreateRead(s, id)
PostLinkGuest(s) == \E u \in Users, g \in Guests : LinkRead(s, u, g)
PatchConversation(s) ==
  \E id \in Identities, v \in Conversations, close, email \in BOOLEAN :
    UpdateRead(s, id, v, close, email)
PatchRead(s) == \E id \in Identities, v \in Conversations : MarkReadStart(s, id, v)
PostMessage(s) == \E id \in Identities, v \in Conversations : SendRead(s, id, v)

Serve(s) ==
  \/ PostConversation(s) \/ PostLinkGuest(s) \/ PatchConversation(s) \/ PatchRead(s)
  \/ PostMessage(s)
  \/ \E v \in Conversations : CreateInsert(s, v)
  \/ LinkUpdate(s) \/ UpdateSave(s) \/ MarkReadUpdate(s)
  \/ SendInsert(s) \/ SendTouch(s) \/ TouchFails(s) \/ SendPublish(s) \/ SendPanics(s) \/ SendNotify(s)
  \/ Fails(s)

Frames(c) == \E v \in Conversations : SubscribeFrame(c, v) \/ MessageFrame(c, v)

Init ==
  /\ HubInit
  /\ convs = [v \in Conversations |-> NoConversation]
  /\ posted = [m \in Messages |-> NoMessage]
  /\ clock = 0
  /\ opener = [v \in Conversations |-> None]
  /\ linked = {}
  /\ announced = [v \in Conversations |-> 0]
  /\ interrupted = {}
  /\ pc = [s \in Sessions |-> "idle"]
  /\ job = [s \in Sessions |-> IdleJob]
  /\ requests = 0
  /\ crashes = 0

Next ==
  \/ \E s \in Sessions : Serve(s)
  \/ \E c \in Clients : Connects(c) \/ Frames(c)
  \/ \E r \in inflight : RelayMessage(r) \/ RelayEndsInstance(r)
  \/ \E i \in Instances : Crash(i)

Spec == Init /\ [][Next]_vars

-----------------------------------------------------------------------------
(* Properties *)

\* Whoever a conversation may belong to: who it was opened for and the users that guest
\* has been linked to.
Entitled(id, v) == id = opener[v] \/ <<opener[v], id>> \in linked

\* "exactly one of user_id or guest_id is non-null" (docs/support-chat.md), and it is
\* somebody entitled, whatever links and whole-row saves cross each other.
OwnersAreEntitled ==
  \A v \in Conversations :
    convs[v] # NoConversation =>
      /\ (convs[v].user = None) # (convs[v].guest = None)
      /\ Entitled(Owner(v), v)

\* "in-app for all admins on first customer message": administrators are told of no
\* conversation twice, and of one with a single message, a customer's, once its request
\* has come to its end.
AnnouncedOnce ==
  \A v \in Conversations :
    /\ announced[v] <= 1
    /\ \A m \in Messages :
         /\ MessagesOf(v) = {m} /\ posted[m].sender = "customer"
         /\ v \notin interrupted
         /\ \A s \in Sessions : ~(Sending(s) /\ job[s].conv = v)
         => announced[v] = 1

\* "at most one status = open conversation per user_id or per guest_id"
\* (docs/support-chat.md).
\* The code does not keep it: README, section 5.
OneOpenConversation == \A id \in Identities : Cardinality(Open(id)) <= 1
=============================================================================
