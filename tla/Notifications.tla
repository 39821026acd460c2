---------------------------- MODULE Notifications ----------------------------
(***************************************************************************)
(* Notifications: the rows Notify writes, the Redis list of emails to      *)
(* send, and the worker process with its two threads, the consumer of the  *)
(* list and the poller of the table (notification_service.go, notifier.go, *)
(* pkg/queue/notification.go, cmd/worker/main.go).                         *)
(*                                                                         *)
(* The list may be down or lose what a crashed consumer had taken, so the  *)
(* poller works on the same rows as the consumer; both read a row, send,   *)
(* and save the whole row.                                                 *)
(***************************************************************************)
EXTENDS Integers, Sequences

CONSTANTS
  Sessions,     \* goroutines of the API that serve requests
  Users,
  Events,       \* what users are told of: a quote, a booking, a stock cycle
  PerUser,      \* the events whose idempotency key names the user too
  MaxRetries,   \* NOTIFICATIONS_MAX_RETRIES
  MaxRequests,  \* bound: requests and Notify calls
  MaxCrashes,   \* bound: crashes of the API or the worker
  MaxFailures,  \* bound: failed sends of one email
  None

ASSUME NotificationsConstants ==
  /\ PerUser \subseteq Events
  /\ None \notin Users
  /\ MaxRetries \in Nat \ {0}
  /\ {MaxRequests, MaxCrashes, MaxFailures} \subseteq Nat

VARIABLES
  rows,      \* the notifications table, by idempotency key and channel
  prefs,     \* notification_preferences, by user
  redis,     \* whether the API was started with a Redis client
  queue,     \* notifications:send, the oldest job first
  emailed,   \* the keys whose email has been sent
  failures,  \* per key, how often its email could not be sent
  pc, job,   \* the API's sessions
  worker,    \* the worker's threads, and the row each of them has read
  todo,      \* the rows the poller still has to process
  requests, crashes

vars == <<rows, prefs, redis, queue, emailed, failures, pc, job, worker, todo,
          requests, crashes>>
worldVars == <<queue, emailed, failures, worker, todo>>

-----------------------------------------------------------------------------
Channels == {"in_app", "email"}
Threads == {"consumer", "poller"}

\* The keys of notifier.go, which all name their subject and some the user as well.
KeyOf(e, u) == <<e, IF e \in PerUser THEN u ELSE None>>
Keys == {KeyOf(e, u) : e \in Events, u \in Users}

Row == [status : {"none", "pending", "queued", "sent", "failed"}, user : Users \cup {None},
        retries : 0 .. MaxRetries + MaxFailures, read : BOOLEAN]
NoRow == [status |-> "none", user |-> None, retries |-> 0, read |-> FALSE]

Preferences == [Channels -> BOOLEAN]
DefaultPreferences == [ch \in Channels |-> TRUE]

IdleJob == [user |-> None, key |-> None, wanted |-> {}, left |-> {},
            prefs |-> DefaultPreferences]
IdleThread == [at |-> "idle", key |-> None, row |-> NoRow]

TypeOK ==
  /\ rows \in [Keys -> [Channels -> Row]]
  /\ prefs \in [Users -> Preferences]
  /\ redis \in BOOLEAN
  /\ queue \in Seq(Keys)
  /\ emailed \subseteq Keys
  /\ failures \in [Keys -> 0 .. MaxFailures]
  /\ pc \in [Sessions -> {"idle", "check", "create", "push", "unqueue", "prefs"}]
  /\ job \in [Sessions ->
        [user : Users \cup {None}, key : Keys \cup {None}, wanted : SUBSET Channels,
         left : SUBSET Channels, prefs : Preferences]]
  /\ worker \in [Threads ->
        [at : {"idle", "read", "send", "sent", "failed", "requeue"},
         key : Keys \cup {None}, row : Row]]
  /\ todo \subseteq Keys
  /\ requests \in 0 .. MaxRequests
  /\ crashes \in 0 .. MaxCrashes

-----------------------------------------------------------------------------
(* Notify *)

Begin(s, label, j) ==
  /\ pc[s] = "idle"
  /\ requests < MaxRequests
  /\ requests' = requests + 1
  /\ pc' = [pc EXCEPT ![s] = label]
  /\ job' = [job EXCEPT ![s] = j]
  /\ UNCHANGED crashes

Goto(s, label) ==
  /\ pc' = [pc EXCEPT ![s] = label]
  /\ UNCHANGED <<requests, crashes>>

DefaultChannels(u) == {ch \in Channels : prefs[u][ch]}

NotifyStart(s, e, u) ==
  /\ Begin(s, "check", [IdleJob EXCEPT !.user = u, !.key = KeyOf(e, u),
                          !.wanted = DefaultChannels(u), !.left = DefaultChannels(u)])
  /\ UNCHANGED <<rows, prefs, redis, worldVars>>

\* The channel the loop is at, in the order defaultChannels lists them.
Channel(s) == IF "in_app" \in job[s].left THEN "in_app" ELSE "email"

NextChannel(s) == job' = [job EXCEPT ![s].left = @ \ {Channel(s)}]

\* GetByIdempotencyKey
Known(k, ch) == rows[k][ch] # NoRow

NotifyCheck(s) ==
  /\ pc[s] = "check"
  /\ \/ /\ job[s].left = {}
        /\ job' = [job EXCEPT ![s] = IdleJob]
        /\ Goto(s, "idle")
     \/ /\ job[s].left # {}
        /\ Known(job[s].key, Channel(s))
        /\ NextChannel(s)
        /\ Goto(s, "check")
     \/ /\ job[s].left # {}
        /\ ~Known(job[s].key, Channel(s))
        /\ UNCHANGED job
        /\ Goto(s, "create")
  /\ UNCHANGED <<rows, prefs, redis, worldVars>>

\* Mutant: the channel in the place of the status.
SwappedRow(u, ch) == [NoRow EXCEPT !.user = u, !.status = ch]

NewRow(u, ch) ==
  [NoRow EXCEPT !.user = u, !.status = IF ch = "in_app" THEN "sent" ELSE "queued"]

\* The unique index refuses a row of the same key.  Its error is not translated to
\* gorm.ErrDuplicatedKey, so Notify returns it and leaves the other channels out.
NotifyCreate(s) ==
  LET k == job[s].key  ch == Channel(s)
  IN /\ pc[s] = "create"
     /\ IF rows[k][ch] = NoRow
        THEN /\ rows' = [rows EXCEPT ![k][ch] = NewRow(job[s].user, ch)]
             /\ IF ch = "in_app" THEN NextChannel(s) /\ Goto(s, "check")
                                 ELSE UNCHANGED job /\ Goto(s, "push")
        ELSE /\ job' = [job EXCEPT ![s] = IdleJob]
             /\ Goto(s, "idle")
             /\ UNCHANGED rows
     /\ UNCHANGED <<prefs, redis, worldVars>>

\* EnqueueNotification; a list that cannot be reached is logged.
NotifyPush(s) ==
  /\ pc[s] = "push"
  /\ \/ redis /\ queue' = Append(queue, job[s].key) /\ NextChannel(s) /\ Goto(s, "check")
     \/ redis /\ UNCHANGED queue /\ NextChannel(s) /\ Goto(s, "check")
     \/ ~redis /\ UNCHANGED <<queue, job>> /\ Goto(s, "unqueue")
  /\ UNCHANGED <<rows, prefs, redis, emailed, failures, worker, todo>>

\* Without a client the row is saved as it was created, but pending.
NotifyUnqueue(s) ==
  /\ pc[s] = "unqueue"
  /\ rows' = [rows EXCEPT ![job[s].key]["email"] =
                [NewRow(job[s].user, "email") EXCEPT !.status = "pending"]]
  /\ NextChannel(s)
  /\ Goto(s, "check")
  /\ UNCHANGED <<prefs, redis, worldVars>>

-----------------------------------------------------------------------------
(* What users do with their notifications and preferences *)

\* The row is read and the flags of the request are set, and it is saved as a whole.
ReadPreferences(s, u, ch, enabled) ==
  /\ Begin(s, "prefs", [IdleJob EXCEPT !.user = u, !.prefs = [prefs[u] EXCEPT ![ch] = enabled]])
  /\ UNCHANGED <<rows, prefs, redis, worldVars>>

SavePreferences(s) ==
  /\ pc[s] = "prefs"
  /\ prefs' = [prefs EXCEPT ![job[s].user] = job[s].prefs]
  /\ job' = [job EXCEPT ![s] = IdleJob]
  /\ Goto(s, "idle")
  /\ UNCHANGED <<rows, redis, worldVars>>

\* MarkRead and MarkAllRead: one column of the user's own in-app rows.
MarkRead(s, u, keys) ==
  /\ pc[s] = "idle"
  /\ requests < MaxRequests
  /\ requests' = requests + 1
  /\ keys # {}
  /\ \A k \in keys : rows[k]["in_app"].user = u /\ ~rows[k]["in_app"].read
  /\ rows' = [k \in Keys |-> IF k \in keys THEN [rows[k] EXCEPT !["in_app"].read = TRUE]
                                           ELSE rows[k]]
  /\ UNCHANGED <<prefs, redis, worldVars, pc, job, crashes>>

-----------------------------------------------------------------------------
(* The worker *)

apiVars == <<prefs, redis, pc, job, requests, crashes>>

Work(t, at, k, row) ==
  worker' = [worker EXCEPT ![t] = [at |-> at, key |-> k, row |-> row]]

\* BRPop: the job is gone from the list before it is done.
Dequeue ==
  /\ worker["consumer"].at = "idle"
  /\ queue # <<>>
  /\ Work("consumer", "read", Head(queue), NoRow)
  /\ queue' = Tail(queue)
  /\ UNCHANGED <<apiVars, rows, emailed, failures, todo>>

\* Mutant: rows that were left queued are not listed.
PendingOnly == {k \in Keys : rows[k]["email"].status = "pending"}

\* ListPendingExternal, whose limit of 50 exceeds the rows there are.
PendingExternal == {k \in Keys : rows[k]["email"].status \in {"pending", "queued"}}

PollTick ==
  /\ worker["poller"].at = "idle"
  /\ todo = {}
  /\ todo' = PendingExternal
  /\ UNCHANGED <<apiVars, rows, queue, emailed, failures, worker>>

PollNext(k) ==
  /\ worker["poller"].at = "idle"
  /\ k \in todo
  /\ todo' = todo \ {k}
  /\ Work("poller", "read", k, NoRow)
  /\ UNCHANGED <<apiVars, rows, queue, emailed, failures>>

\* ProcessDelivery: only a row that is sent is left alone, one that failed is not.
ReadRow(t) ==
  LET row == rows[worker[t].key]["email"]
  IN /\ worker[t].at = "read"
     /\ IF row.status = "sent" THEN Work(t, "idle", None, NoRow)
                               ELSE Work(t, "send", worker[t].key, row)
     /\ UNCHANGED <<apiVars, rows, queue, emailed, failures, todo>>

Send(t) ==
  /\ worker[t].at = "send"
  /\ emailed' = emailed \cup {worker[t].key}
  /\ Work(t, "sent", worker[t].key, worker[t].row)
  /\ UNCHANGED <<apiVars, rows, queue, failures, todo>>

SendFails(t) ==
  /\ worker[t].at = "send"
  /\ failures[worker[t].key] < MaxFailures
  /\ failures' = [failures EXCEPT ![worker[t].key] = @ + 1]
  /\ Work(t, "failed", worker[t].key, worker[t].row)
  /\ UNCHANGED <<apiVars, rows, queue, emailed, todo>>

SaveSent(t) ==
  /\ worker[t].at = "sent"
  /\ rows' = [rows EXCEPT ![worker[t].key]["email"] = [worker[t].row EXCEPT !.status = "sent"]]
  /\ Work(t, "idle", None, NoRow)
  /\ UNCHANGED <<apiVars, queue, emailed, failures, todo>>

\* Mutant: the limit is compared with the count after one more.
FailedTooSoon(row) ==
  [row EXCEPT !.retries = @ + 1,
              !.status = IF row.retries + 2 >= MaxRetries THEN "failed" ELSE "pending"]

\* markFailed
Failed(row) ==
  [row EXCEPT !.retries = @ + 1,
              !.status = IF row.retries + 1 >= MaxRetries THEN "failed" ELSE "pending"]

SaveFailed(t) ==
  LET row == Failed(worker[t].row)
  IN /\ worker[t].at = "failed"
     /\ rows' = [rows EXCEPT ![worker[t].key]["email"] = row]
     /\ IF row.status = "failed" THEN Work(t, "idle", None, NoRow)
                                 ELSE Work(t, "requeue", worker[t].key, NoRow)
     /\ UNCHANGED <<apiVars, queue, emailed, failures, todo>>

\* RequeuePending, whose error is ignored.
Requeue(t) ==
  /\ worker[t].at = "requeue"
  /\ queue' \in {Append(queue, worker[t].key), queue}
  /\ Work(t, "idle", None, NoRow)
  /\ UNCHANGED <<apiVars, rows, emailed, failures, todo>>

-----------------------------------------------------------------------------
(* Crashes: what was in memory is gone, the job a consumer had taken included. *)

Crash == crashes < MaxCrashes /\ crashes' = crashes + 1

WorkerCrashes ==
  /\ Crash
  /\ worker' = [t \in Threads |-> IdleThread]
  /\ todo' = {}
  /\ UNCHANGED <<rows, prefs, redis, queue, emailed, failures, pc, job, requests>>

ApiCrashes ==
  /\ Crash
  /\ \E s \in Sessions : pc[s] # "idle"
  /\ pc' = [s \in Sessions |-> "idle"]
  /\ job' = [s \in Sessions |-> IdleJob]
  /\ UNCHANGED <<rows, prefs, redis, worldVars, requests>>

-----------------------------------------------------------------------------
Init ==
  /\ rows = [k \in Keys |-> [ch \in Channels |-> NoRow]]
  /\ prefs = [u \in Users |-> DefaultPreferences]
  /\ redis \in BOOLEAN
  /\ queue = <<>>
  /\ emailed = {}
  /\ failures = [k \in Keys |-> 0]
  /\ pc = [s \in Sessions |-> "idle"]
  /\ job = [s \in Sessions |-> IdleJob]
  /\ worker = [t \in Threads |-> IdleThread]
  /\ todo = {}
  /\ requests = 0
  /\ crashes = 0

Api(s) ==
  \/ \E e \in Events, u \in Users : NotifyStart(s, e, u)
  \/ NotifyCheck(s) \/ NotifyCreate(s) \/ NotifyPush(s) \/ NotifyUnqueue(s)
  \/ \E u \in Users, ch \in Channels, enabled \in BOOLEAN : ReadPreferences(s, u, ch, enabled)
  \/ SavePreferences(s)
  \/ \E u \in Users, keys \in SUBSET Keys : MarkRead(s, u, keys)

Process(t) ==
  ReadRow(t) \/ Send(t) \/ SendFails(t) \/ SaveSent(t) \/ SaveFailed(t) \/ Requeue(t)

Consume == Dequeue \/ Process("consumer")
Poll == PollTick \/ (\E k \in todo : PollNext(k)) \/ Process("poller")

Next ==
  \/ \E s \in Sessions : Api(s)
  \/ Consume \/ Poll
  \/ WorkerCrashes \/ ApiCrashes

Spec == Init /\ [][Next]_vars

\* The poller ticks for as long as the process runs, and the process is restarted; the
\* consumer need not run, as the list may be out of reach for good.
LiveSpec == Spec /\ WF_vars(Poll)

-----------------------------------------------------------------------------
(* Properties *)

\* A row's status is what happened to its email, although two threads save whole rows
\* they read before the other's: a row that says sent was sent, one that says failed was
\* tried as often as configured.
StatusIsTrue ==
  \A k \in Keys :
    /\ rows[k]["email"].status = "sent" => k \in emailed
    /\ rows[k]["email"].status = "failed" => failures[k] >= MaxRetries

\* What has become of an email: with its row it is accepted.
Outcome(k) ==
  IF k \in emailed THEN "delivered"
  ELSE IF rows[k]["email"].status = "failed" THEN "failed"
  ELSE IF rows[k]["email"] # NoRow THEN "accepted" ELSE "none"

D == INSTANCE Delivery WITH Mails <- Keys, outcome <- [k \in Keys |-> Outcome(k)]

\* Every email whose row was made is sent, or given up after its retries: "If Redis is
\* down, rows stay pending/queued; the worker polls the DB every 60s"
\* (docs/notifications.md), with crashes of the API between the row and the list, and of
\* the worker between the list and the row.
ImplementsDelivery == D!Spec

\* "Low-stock alerts notify all admins and the product vendor" (docs/endpoints.md): a call
\* that got past a channel leaves a row of that channel for the user it was made for.
\* The code does not keep it: README, section 5.
EveryRecipientNotified ==
  \A s \in Sessions :
    pc[s] = "check" =>
      \A ch \in job[s].wanted \ job[s].left : rows[job[s].key][ch].user = job[s].user
=============================================================================
