------------------------ MODULE NotificationsProofs ------------------------
(***************************************************************************)
(* What holds of Notifications for any number of users, events, sessions,  *)
(* retries, failures and crashes: proofs for TLAPS.  The rows of the table *)
(* are followed through both threads of the worker, and every step of the  *)
(* program is shown to be a step of Delivery or none.                      *)
(***************************************************************************)
EXTENDS Notifications, TLAPS

-----------------------------------------------------------------------------
(* The inductive invariant. *)

Job == [user : Users \cup {None}, key : Keys \cup {None}, wanted : SUBSET Channels,
        left : SUBSET Channels, prefs : Preferences]

Thread == [at : {"idle", "read", "send", "sent", "failed", "requeue"},
           key : Keys \cup {None}, row : Row]

\* The emails whose row was made, which is what the worker may come to hold.
Made == {k \in Keys : rows[k]["email"] # NoRow}

\* The API knows the key it notifies under, and puts it on the list after its row.
SessionReady(label, j) ==
  /\ label \in {"check", "create", "push", "unqueue"} => j.key \in Keys
  /\ label \in {"push", "unqueue"} => j.key \in Made

\* What a thread will save is true of the email by the time it saves it.
ThreadReady(w) ==
  /\ w.at # "idle" => w.key \in Made
  /\ w.at \in {"send", "sent"} => w.row.retries <= failures[w.key]
  /\ w.at = "sent" => w.key \in emailed
  /\ w.at = "failed" => w.row.retries + 1 <= failures[w.key]

SessionsReady == \A s \in Sessions : SessionReady(pc[s], job[s])
ThreadsReady == \A t \in Threads : ThreadReady(worker[t])
ListsReady == queue \in Seq(Made) /\ todo \subseteq Made
RetriesAreFailures == \A k \in Keys : rows[k]["email"].retries <= failures[k]

Inv ==
  /\ TypeOK
  /\ SessionsReady
  /\ ThreadsReady
  /\ ListsReady
  /\ RetriesAreFailures
  /\ StatusIsTrue

-----------------------------------------------------------------------------
(* Rows, jobs and threads. *)

LEMMA RowTypes ==
  /\ NoRow \in Row
  /\ \A u \in Users \cup {None}, ch \in Channels :
       /\ NewRow(u, ch) \in Row
       /\ NewRow(u, ch).retries = 0
       /\ NewRow(u, ch).status \in {"sent", "queued"}
       /\ ch = "email" => NewRow(u, ch).status = "queued"
<1>1. 0 \in 0 .. MaxRetries + MaxFailures
  BY NotificationsConstants
<1> QED BY <1>1 DEF NoRow, NewRow, Row

LEMMA KeyTypes == \A e \in Events, u \in Users : KeyOf(e, u) \in Keys
  BY DEF Keys

\* One row of the table is replaced.
LEMMA RowStep ==
  ASSUME TypeOK, NEW k \in Keys, NEW ch \in Channels, NEW r \in Row,
         rows' = [rows EXCEPT ![k][ch] = r]
  PROVE  /\ rows' \in [Keys -> [Channels -> Row]]
         /\ rows'[k][ch] = r
         /\ \A x \in Keys, c \in Channels : x # k \/ c # ch => rows'[x][c] = rows[x][c]
<1>1. rows \in [Keys -> [Channels -> Row]]
  BY DEF TypeOK
<1>2. rows[k] \in [Channels -> Row]
  BY <1>1
<1>3. [rows[k] EXCEPT ![ch] = r] \in [Channels -> Row]
  BY <1>2
<1>4. rows' = [rows EXCEPT ![k] = [rows[k] EXCEPT ![ch] = r]]
  BY <1>1, <1>2
<1> QED BY <1>1, <1>2, <1>3, <1>4

\* Nothing that the threads, the list and the sessions rely on is undone by a change of
\* rows that leaves every row that was made in the table.
LEMMA RowsGrow ==
  ASSUME Inv, \A k \in Made : rows'[k]["email"] # NoRow
  PROVE  /\ Made \subseteq Made'
         /\ Seq(Made) \subseteq Seq(Made')
<1>1. Made \subseteq Made'
  BY DEF Made
<1> QED BY <1>1

LEMMA JobStep ==
  ASSUME TypeOK, NEW s \in Sessions, NEW label, NEW j \in Job,
         label \in {"idle", "check", "create", "push", "unqueue", "prefs"},
         pc' = [pc EXCEPT ![s] = label],
         job' = [job EXCEPT ![s] = j],
         SessionsReady, Made \subseteq Made',
         SessionReady(label, j)'
  PROVE  /\ pc' \in [Sessions -> {"idle", "check", "create", "push", "unqueue", "prefs"}]
         /\ job' \in [Sessions -> Job]
         /\ SessionsReady'
<1>1. pc \in [Sessions -> {"idle", "check", "create", "push", "unqueue", "prefs"}]
  BY DEF TypeOK
<1>2. job \in [Sessions -> Job]
  BY DEF TypeOK, Job
<1>3. \A x \in Sessions : x # s => pc'[x] = pc[x] /\ job'[x] = job[x]
  BY <1>1, <1>2
<1>4. pc'[s] = label /\ job'[s] = j
  BY <1>1, <1>2
<1>5. SessionsReady'
  BY <1>3, <1>4 DEF SessionsReady, SessionReady
<1> QED BY <1>1, <1>2, <1>5

LEMMA ThreadStep ==
  ASSUME TypeOK, ThreadsReady, NEW t \in Threads, NEW at, NEW k \in Keys \cup {None},
         NEW row \in Row,
         at \in {"idle", "read", "send", "sent", "failed", "requeue"},
         Work(t, at, k, row),
         Made \subseteq Made', emailed \subseteq emailed',
         \A x \in Keys : failures[x] <= failures'[x],
         failures' \in [Keys -> 0 .. MaxFailures],
         ThreadReady([at |-> at, key |-> k, row |-> row])'
  PROVE  /\ worker' \in [Threads -> Thread]
         /\ ThreadsReady'
<1>1. worker \in [Threads -> Thread] /\ failures \in [Keys -> 0 .. MaxFailures]
  BY DEF TypeOK, Thread
<1> DEFINE w == [at |-> at, key |-> k, row |-> row]
<1>2. w \in Thread
  BY DEF Thread
<1>3. worker' = [worker EXCEPT ![t] = w]
  BY DEF Work
<1>4. \A x \in Threads : worker'[x] = IF x = t THEN w ELSE worker[x]
  BY <1>1, <1>3
<1>5. ASSUME NEW x \in Threads, x # t PROVE ThreadReady(worker[x])'
  <2>1. ThreadReady(worker[x]) /\ worker'[x] = worker[x] /\ worker[x] \in Thread
    BY <1>1, <1>4, <1>5 DEF ThreadsReady
  <2>2. worker[x].row.retries \in Nat
    BY <2>1, NotificationsConstants DEF Thread, Row
  <2>3. worker[x].at # "idle" => worker[x].key \in Keys
    BY <2>1 DEF ThreadReady, Made
  <2>4. \A y \in Keys : failures[y] \in Nat /\ failures'[y] \in Nat
    BY <1>1, NotificationsConstants
  <2> QED BY <2>1, <2>2, <2>3, <2>4 DEF ThreadReady
<1>6. ThreadReady(worker[t])'
  BY <1>4
<1>7. ThreadsReady'
  BY <1>5, <1>6 DEF ThreadsReady
<1> QED BY <1>1, <1>2, <1>3, <1>7

\* The threads while nothing happens to them.
LEMMA ThreadsRest ==
  ASSUME TypeOK, ThreadsReady, UNCHANGED <<worker, emailed, failures>>, Made \subseteq Made'
  PROVE  ThreadsReady'
  BY DEF ThreadsReady, ThreadReady

-----------------------------------------------------------------------------
(* Steps of Delivery. *)

Outcomes == [k \in Keys |-> Outcome(k)]

\* What may become of one email in a step.
Moves(before, after) ==
  \/ before = after
  \/ before = "none" /\ after = "accepted"
  \/ before \in {"accepted", "failed"} /\ after = "delivered"
  \/ before = "accepted" /\ after = "failed"
  \/ before = "failed" /\ after = "accepted"

\* A step of the program: the invariant stays, and Delivery makes a step or none.
Keeps == Inv' /\ [D!Next]_Outcomes

LEMMA OneOutcome ==
  ASSUME NEW k \in Keys,
         \A x \in Keys : x # k => Outcome(x)' = Outcome(x),
         Moves(Outcome(k), Outcome(k)')
  PROVE  [D!Next]_Outcomes
<1>1. CASE Outcome(k)' = Outcome(k)
  BY <1>1 DEF Outcomes
<1>2. CASE Outcome(k)' # Outcome(k)
  <2>1. Outcomes' = [Outcomes EXCEPT ![k] = Outcome(k)']
    BY DEF Outcomes
  <2>2. Outcomes[k] = Outcome(k)
    BY DEF Outcomes
  <2>3. \/ Outcomes[k] = "none" /\ Outcome(k)' = "accepted"
        \/ Outcomes[k] \in {"accepted", "failed"} /\ Outcome(k)' = "delivered"
        \/ Outcomes[k] = "accepted" /\ Outcome(k)' = "failed"
        \/ Outcomes[k] = "failed" /\ Outcome(k)' = "accepted"
    BY <1>2, <2>2 DEF Moves
  <2>4. D!Accept(k) \/ D!Settle(k) \/ D!TakeUp(k)
    BY <2>1, <2>3 DEF D!Accept, D!Settle, D!Deliver, D!GiveUp, D!TakeUp, Outcomes
  <2> QED BY <2>4 DEF D!Next
<1> QED BY <1>1, <1>2

\* Nothing happens to an email while no row of one, nor what was sent, changes.
LEMMA OutcomesRest ==
  ASSUME emailed' = emailed, \A k \in Keys : rows'[k]["email"] = rows[k]["email"]
  PROVE  [D!Next]_Outcomes
  BY DEF Outcomes, Outcome

\* A step that leaves the emails' rows and counts alone keeps what was said of them.
LEMMA EmailsRest ==
  ASSUME Inv, failures' = failures, emailed' = emailed,
         \A k \in Keys : rows'[k]["email"] = rows[k]["email"]
  PROVE  /\ RetriesAreFailures'
         /\ StatusIsTrue'
         /\ Made' = Made
         /\ [D!Next]_Outcomes
<1>1. Made' = Made
  BY DEF Made
<1>2. RetriesAreFailures' /\ StatusIsTrue'
  BY DEF Inv, RetriesAreFailures, StatusIsTrue
<1> QED BY <1>1, <1>2, OutcomesRest

\* A request's step that touches no row, and puts on the list only what has its row.
LEMMA SessionKeeps ==
  ASSUME Inv, UNCHANGED <<rows, redis, emailed, failures, worker, todo>>,
         NEW s \in Sessions, NEW label, NEW j \in Job,
         label \in {"idle", "check", "create", "push", "unqueue", "prefs"},
         pc' = [pc EXCEPT ![s] = label],
         job' = [job EXCEPT ![s] = j],
         SessionReady(label, j),
         prefs' \in [Users -> Preferences],
         queue' \in Seq(Made),
         requests' \in 0 .. MaxRequests,
         crashes' \in 0 .. MaxCrashes
  PROVE  Keeps
<1>1. RetriesAreFailures' /\ StatusIsTrue' /\ Made' = Made /\ [D!Next]_Outcomes
  BY EmailsRest
<1>2. SessionReady(label, j)'
  BY <1>1 DEF SessionReady
<1>3. SessionsReady' /\ job' \in [Sessions -> Job]
      /\ pc' \in [Sessions -> {"idle", "check", "create", "push", "unqueue", "prefs"}]
  BY <1>1, <1>2, JobStep DEF Inv
<1>4. ThreadsReady'
  BY <1>1, ThreadsRest DEF Inv
<1>5. queue' \in Seq(Keys)
  BY DEF Made
<1>6. ListsReady'
  BY <1>1 DEF Inv, ListsReady
<1>7. TypeOK'
  BY <1>3, <1>5 DEF Inv, TypeOK, Job
<1> QED BY <1>1, <1>3, <1>4, <1>6, <1>7 DEF Keeps, Inv

-----------------------------------------------------------------------------
(* Requests. *)

LEMMA JobTypes ==
  ASSUME TypeOK, NEW s \in Sessions
  PROVE  /\ job[s] \in Job /\ IdleJob \in Job
         /\ job[s].user \in Users \cup {None} /\ job[s].key \in Keys \cup {None}
         /\ job[s].left \in SUBSET Channels /\ job[s].prefs \in Preferences
         /\ DefaultPreferences \in Preferences
<1>1. DefaultPreferences \in Preferences
  BY DEF DefaultPreferences, Preferences
<1>2. IdleJob \in Job
  BY <1>1 DEF IdleJob, Job
<1>3. job[s] \in Job
  BY DEF TypeOK, Job
<1> QED BY <1>1, <1>2, <1>3 DEF Job

LEMMA NotifyStartKeeps ==
  ASSUME Inv, NEW s \in Sessions, NEW e \in Events, NEW u \in Users, NotifyStart(s, e, u)
  PROVE  Keeps
<1> DEFINE j == [IdleJob EXCEPT !.user = u, !.key = KeyOf(e, u),
                                !.wanted = DefaultChannels(u), !.left = DefaultChannels(u)]
<1>a. IdleJob \in Job /\ KeyOf(e, u) \in Keys
  BY KeyTypes, JobTypes DEF Inv
<1>b. DefaultChannels(u) \in SUBSET Channels
  BY DEF DefaultChannels
<1>1. j \in Job /\ j.key \in Keys
  BY <1>a, <1>b DEF Job
<1>2. SessionReady("check", j)
  BY <1>1 DEF SessionReady
<1>3. /\ pc' = [pc EXCEPT ![s] = "check"] /\ job' = [job EXCEPT ![s] = j]
      /\ UNCHANGED <<rows, redis, emailed, failures, worker, todo, prefs, queue, crashes>>
      /\ requests' \in 0 .. MaxRequests
  BY NotificationsConstants DEF NotifyStart, Begin, worldVars, Inv, TypeOK
<1> HIDE DEF j
<1> QED BY <1>1, <1>2, <1>3, SessionKeeps DEF Inv, TypeOK, ListsReady

LEMMA ReadPreferencesKeeps ==
  ASSUME Inv, NEW s \in Sessions, NEW u \in Users, NEW ch \in Channels,
         NEW enabled \in BOOLEAN, ReadPreferences(s, u, ch, enabled)
  PROVE  Keeps
<1> DEFINE p == [prefs[u] EXCEPT ![ch] = enabled]
           j == [IdleJob EXCEPT !.user = u, !.prefs = p]
<1>1. p \in Preferences
  BY DEF Inv, TypeOK, Preferences
<1>2. j \in Job
  BY <1>1, JobTypes DEF Inv, IdleJob, Job
<1>3. SessionReady("prefs", j)
  BY DEF SessionReady
<1>4. /\ pc' = [pc EXCEPT ![s] = "prefs"] /\ job' = [job EXCEPT ![s] = j]
      /\ UNCHANGED <<rows, redis, emailed, failures, worker, todo, prefs, queue, crashes>>
      /\ requests' \in 0 .. MaxRequests
  BY NotificationsConstants DEF ReadPreferences, Begin, worldVars, Inv, TypeOK
<1> HIDE DEF j
<1> QED BY <1>2, <1>3, <1>4, SessionKeeps DEF Inv, TypeOK, ListsReady

LEMMA SavePreferencesKeeps ==
  ASSUME Inv, NEW s \in Sessions, SavePreferences(s)
  PROVE  Keeps
<1>1. prefs' \in [Users -> Preferences]
  BY JobTypes DEF Inv, TypeOK, SavePreferences
<1>2. SessionReady("idle", IdleJob) /\ IdleJob \in Job
  BY JobTypes DEF SessionReady, Inv
<1>3. /\ pc' = [pc EXCEPT ![s] = "idle"] /\ job' = [job EXCEPT ![s] = IdleJob]
      /\ UNCHANGED <<rows, redis, emailed, failures, worker, todo, queue, requests, crashes>>
  BY DEF SavePreferences, Goto, worldVars
<1> QED BY <1>1, <1>2, <1>3, SessionKeeps DEF Inv, TypeOK, ListsReady

\* The job once a channel is done with.
LEMMA NextJob ==
  ASSUME Inv, NEW s \in Sessions, NextChannel(s)
  PROVE  \E j \in Job : j.key = job[s].key /\ job' = [job EXCEPT ![s] = j]
<1> DEFINE j == [job[s] EXCEPT !.left = @ \ {Channel(s)}]
<1>1. j \in Job /\ j.key = job[s].key
  BY JobTypes DEF Inv, Job
<1>2. job' = [job EXCEPT ![s] = j]
  BY DEF NextChannel
<1> QED BY <1>1, <1>2

LEMMA NotifyCheckKeeps ==
  ASSUME Inv, NEW s \in Sessions, NotifyCheck(s)
  PROVE  Keeps
<1>1. /\ UNCHANGED <<rows, redis, emailed, failures, worker, todo, prefs, queue>>
      /\ UNCHANGED <<requests, crashes>>
      /\ pc[s] = "check"
  BY DEF NotifyCheck, Goto, worldVars
<1>2. job[s].key \in Keys
  BY <1>1 DEF Inv, SessionsReady, SessionReady
<1>3. CASE /\ job' = [job EXCEPT ![s] = IdleJob]
           /\ Goto(s, "idle")
  <2>1. SessionReady("idle", IdleJob) /\ IdleJob \in Job
    BY JobTypes DEF SessionReady, Inv
  <2> QED BY <1>1, <1>3, <2>1, SessionKeeps DEF Inv, TypeOK, ListsReady, Goto
<1>4. CASE NextChannel(s) /\ Goto(s, "check")
  <2>1. PICK j \in Job : j.key = job[s].key /\ job' = [job EXCEPT ![s] = j]
    BY <1>4, NextJob
  <2>2. SessionReady("check", j)
    BY <1>2, <2>1 DEF SessionReady
  <2> QED BY <1>1, <1>4, <2>1, <2>2, SessionKeeps DEF Inv, TypeOK, ListsReady, Goto
<1>5. CASE UNCHANGED job /\ Goto(s, "create")
  <2>1. job' = [job EXCEPT ![s] = job[s]] /\ job[s] \in Job
    BY <1>5, JobTypes DEF Inv, TypeOK
  <2>2. SessionReady("create", job[s])
    BY <1>2 DEF SessionReady
  <2>3. pc' = [pc EXCEPT ![s] = "create"]
    BY <1>5 DEF Goto
  <2>4. /\ prefs' \in [Users -> Preferences] /\ queue' \in Seq(Made)
        /\ requests' \in 0 .. MaxRequests /\ crashes' \in 0 .. MaxCrashes
    BY <1>1 DEF Inv, TypeOK, ListsReady
  <2> QED BY <1>1, <2>1, <2>2, <2>3, <2>4, SessionKeeps
<1> QED BY <1>3, <1>4, <1>5 DEF NotifyCheck

LEMMA NotifyPushKeeps ==
  ASSUME Inv, NEW s \in Sessions, NotifyPush(s)
  PROVE  Keeps
<1>1. /\ UNCHANGED <<rows, redis, emailed, failures, worker, todo, prefs>>
      /\ UNCHANGED <<requests, crashes>>
      /\ pc[s] = "push"
  BY DEF NotifyPush, Goto
<1>2. job[s].key \in Keys /\ job[s].key \in Made
  BY <1>1 DEF Inv, SessionsReady, SessionReady
<1>3. queue' \in Seq(Made)
  BY <1>2 DEF NotifyPush, Inv, ListsReady
<1>4. CASE NextChannel(s) /\ Goto(s, "check")
  <2>1. PICK j \in Job : j.key = job[s].key /\ job' = [job EXCEPT ![s] = j]
    BY <1>4, NextJob
  <2>2. SessionReady("check", j)
    BY <1>2, <2>1 DEF SessionReady
  <2> QED BY <1>1, <1>3, <1>4, <2>1, <2>2, SessionKeeps DEF Inv, TypeOK, Goto
<1>5. CASE UNCHANGED job /\ Goto(s, "unqueue")
  <2>1. job' = [job EXCEPT ![s] = job[s]] /\ job[s] \in Job
    BY <1>5, JobTypes DEF Inv, TypeOK
  <2>2. SessionReady("unqueue", job[s])
    BY <1>2 DEF SessionReady
  <2>3. pc' = [pc EXCEPT ![s] = "unqueue"]
    BY <1>5 DEF Goto
  <2>4. /\ prefs' \in [Users -> Preferences] /\ queue' \in Seq(Made)
        /\ requests' \in 0 .. MaxRequests /\ crashes' \in 0 .. MaxCrashes
    BY <1>1, <1>3 DEF Inv, TypeOK
  <2> QED BY <1>1, <2>1, <2>2, <2>3, <2>4, SessionKeeps
<1> QED BY <1>4, <1>5 DEF NotifyPush

\* One row of an email is written while the worker rests; what is written is known of it.
LEMMA EmailWritten ==
  ASSUME Inv, NEW k \in Keys, NEW r \in Row,
         rows' = [rows EXCEPT ![k]["email"] = r],
         emailed' = emailed, failures' = failures,
         r.status # "none",
         r.retries <= failures[k],
         r.status = "sent" => k \in emailed,
         r.status = "failed" => failures[k] >= MaxRetries
  PROVE  /\ rows' \in [Keys -> [Channels -> Row]]
         /\ k \in Made' /\ Made \subseteq Made' /\ Seq(Made) \subseteq Seq(Made')
         /\ RetriesAreFailures' /\ StatusIsTrue'
         /\ \A x \in Keys : x # k => Outcome(x)' = Outcome(x)
         /\ Outcome(k)' \in {"delivered", "failed", "accepted"}
         /\ (Outcome(k)' = "delivered") = (Outcome(k) = "delivered")
         /\ Outcome(k)' = "failed" => r.status = "failed"
<1>1. "email" \in Channels
  BY DEF Channels
<1>2. /\ rows' \in [Keys -> [Channels -> Row]]
      /\ rows'[k]["email"] = r
      /\ \A x \in Keys : x # k => rows'[x]["email"] = rows[x]["email"]
  BY <1>1, RowStep DEF Inv
<1>3. r # NoRow
  BY DEF NoRow
<1>4. k \in Made' /\ Made \subseteq Made'
  BY <1>2, <1>3 DEF Made
<1>5. RetriesAreFailures'
  BY <1>2 DEF RetriesAreFailures, Inv
<1>6. StatusIsTrue'
  BY <1>2 DEF StatusIsTrue, Inv
<1>7. \A x \in Keys : x # k => Outcome(x)' = Outcome(x)
  BY <1>2 DEF Outcome
<1>8. /\ Outcome(k)' \in {"delivered", "failed", "accepted"}
      /\ (Outcome(k)' = "delivered") = (Outcome(k) = "delivered")
      /\ Outcome(k)' = "failed" => r.status = "failed"
  BY <1>2, <1>3 DEF Outcome
<1> QED BY <1>2, <1>4, <1>5, <1>6, <1>7, <1>8

LEMMA OutcomeTypes ==
  \A k \in Keys : Outcome(k) \in {"none", "accepted", "failed", "delivered"}
  BY DEF Outcome

\* What creates a row: nothing for an in-app row, acceptance for an email.
LEMMA NotifyCreateKeeps ==
  ASSUME Inv, NEW s \in Sessions, NotifyCreate(s)
  PROVE  Keeps
<1> DEFINE ch == Channel(s)
           r == NewRow(job[s].user, ch)
<1>1. /\ UNCHANGED <<redis, emailed, failures, worker, todo, prefs, queue>>
      /\ UNCHANGED <<requests, crashes>>
      /\ pc[s] = "create"
  BY DEF NotifyCreate, Goto, worldVars
<1>2. ch \in Channels
  BY DEF Channel, Channels
<1>k. PICK k \in Keys : k = job[s].key
  BY <1>1 DEF Inv, SessionsReady, SessionReady
<1>3. CASE /\ job' = [job EXCEPT ![s] = IdleJob] /\ Goto(s, "idle") /\ UNCHANGED rows
  <2>1. SessionReady("idle", IdleJob) /\ IdleJob \in Job
    BY JobTypes DEF SessionReady, Inv
  <2> QED BY <1>1, <1>3, <2>1, SessionKeeps DEF Inv, TypeOK, ListsReady, Goto
<1>4. CASE /\ rows[k][ch] = NoRow
           /\ rows' = [rows EXCEPT ![k][ch] = r]
           /\ IF ch = "in_app" THEN NextChannel(s) /\ Goto(s, "check")
                               ELSE UNCHANGED job /\ Goto(s, "push")
  <2>1. job[s].user \in Users \cup {None} /\ job[s] \in Job
    BY JobTypes DEF Inv
  <2>2. r \in Row /\ r.retries = 0 /\ r.status \in {"sent", "queued"}
        /\ (ch = "email" => r.status = "queued")
    BY <1>2, <2>1, RowTypes
  <2>3. /\ rows' \in [Keys -> [Channels -> Row]]
        /\ \A x \in Keys, c \in Channels : x # k \/ c # ch => rows'[x][c] = rows[x][c]
    BY <1>2, <1>4, <2>2, RowStep DEF Inv
  <2>4. /\ Made \subseteq Made' /\ Seq(Made) \subseteq Seq(Made')
        /\ RetriesAreFailures' /\ StatusIsTrue' /\ [D!Next]_Outcomes
        /\ ch = "email" => k \in Made'
    <3>1. CASE ch = "in_app"
      <4>1. \A x \in Keys : rows'[x]["email"] = rows[x]["email"]
        BY <2>3, <3>1 DEF Channels
      <4> QED BY <1>1, <3>1, <4>1, EmailsRest
    <3>2. CASE ch = "email"
      <4>1. failures[k] \in Nat
        BY <1>2, NotificationsConstants DEF Inv, TypeOK
      <4>2. rows' = [rows EXCEPT ![k]["email"] = r]
        BY <1>4, <3>2
      <4>3. Outcome(k) \in {"none", "delivered"}
        BY <1>4, <3>2 DEF Outcome, NoRow
      <4> HIDE DEF r
      <4>4. r.status # "none" /\ r.retries <= failures[k] /\ r.status # "sent"
            /\ r.status # "failed"
        BY <2>2, <3>2, <4>1
      <4>5. Moves(Outcome(k), Outcome(k)')
        BY <1>1, <1>2, <2>2, <4>2, <4>3, <4>4, EmailWritten DEF Moves
      <4> QED BY <1>1, <1>2, <2>2, <4>2, <4>4, <4>5, EmailWritten, OneOutcome
    <3> QED BY <1>2, <3>1, <3>2 DEF Channels
  <2>5. PICK j \in Job, label \in {"check", "push"} :
          /\ pc' = [pc EXCEPT ![s] = label]
          /\ job' = [job EXCEPT ![s] = j]
          /\ j.key = k
          /\ label = "push" => ch = "email"
    <3>1. CASE ch = "in_app"
      BY <1>k, <1>4, <3>1, NextJob DEF Goto
    <3>2. CASE ch = "email"
      <4>1. job' = [job EXCEPT ![s] = job[s]]
        BY <1>4, <3>2 DEF Inv, TypeOK
      <4> QED BY <1>k, <1>4, <2>1, <3>2, <4>1 DEF Goto
    <3> QED BY <1>2, <3>1, <3>2 DEF Channels
  <2> HIDE DEF ch, r
  <2>6. SessionReady(label, j)'
    BY <1>2, <2>4, <2>5 DEF SessionReady
  <2>7. /\ pc' \in [Sessions -> {"idle", "check", "create", "push", "unqueue", "prefs"}]
        /\ job' \in [Sessions -> Job]
        /\ SessionsReady'
    BY <2>4, <2>5, <2>6, JobStep DEF Inv
  <2>8. ThreadsReady'
    BY <1>1, <2>4, ThreadsRest DEF Inv
  <2>9. ListsReady'
    BY <1>1, <2>4 DEF Inv, ListsReady
  <2>10. TypeOK'
    BY <1>1, <2>3, <2>7 DEF Inv, TypeOK, Job
  <2> QED BY <2>4, <2>7, <2>8, <2>9, <2>10 DEF Keeps, Inv
<1> QED BY <1>3, <1>4, <1>k DEF NotifyCreate

LEMMA NotifyUnqueueKeeps ==
  ASSUME Inv, NEW s \in Sessions, NotifyUnqueue(s)
  PROVE  Keeps
<1> DEFINE r == [NewRow(job[s].user, "email") EXCEPT !.status = "pending"]
<1>k. PICK k \in Keys : k = job[s].key
  BY DEF NotifyUnqueue, Inv, SessionsReady, SessionReady
<1>1. /\ UNCHANGED <<redis, emailed, failures, worker, todo, prefs, queue>>
      /\ UNCHANGED <<requests, crashes>>
      /\ pc[s] = "unqueue"
      /\ rows' = [rows EXCEPT ![k]["email"] = r]
      /\ NextChannel(s)
      /\ pc' = [pc EXCEPT ![s] = "check"]
  BY <1>k DEF NotifyUnqueue, Goto, worldVars
<1>3. job[s].user \in Users \cup {None}
  BY JobTypes DEF Inv
<1>4. r \in Row /\ r.retries = 0 /\ r.status = "pending"
  <2>1. NewRow(job[s].user, "email") \in Row /\ NewRow(job[s].user, "email").retries = 0
    BY <1>3, RowTypes DEF Channels
  <2>2. r.retries = 0 /\ r.status = "pending"
    BY <2>1 DEF Row
  <2>3. r \in Row
    BY <2>1 DEF Row
  <2> QED BY <2>2, <2>3
<1>5. failures[k] \in Nat
  BY NotificationsConstants DEF Inv, TypeOK
<1>6. PICK j \in Job : j.key = job[s].key /\ job' = [job EXCEPT ![s] = j]
  BY <1>1, NextJob
<1> HIDE DEF r
<1>h. /\ r.status # "none" /\ r.status # "sent" /\ r.status # "failed"
      /\ r.retries <= failures[k]
  BY <1>4, <1>5
<1>7. /\ rows' \in [Keys -> [Channels -> Row]]
      /\ Made \subseteq Made' /\ Seq(Made) \subseteq Seq(Made')
      /\ RetriesAreFailures' /\ StatusIsTrue'
      /\ \A x \in Keys : x # k => Outcome(x)' = Outcome(x)
      /\ Outcome(k)' \in {"delivered", "accepted"}
      /\ (Outcome(k)' = "delivered") = (Outcome(k) = "delivered")
  BY <1>1, <1>4, <1>h, EmailWritten
<1>8. Moves(Outcome(k), Outcome(k)')
  BY <1>7, OutcomeTypes DEF Moves
<1>9. [D!Next]_Outcomes
  BY <1>7, <1>8, OneOutcome
<1>10. SessionReady("check", j)'
  BY <1>k, <1>6 DEF SessionReady
<1>11. /\ pc' \in [Sessions -> {"idle", "check", "create", "push", "unqueue", "prefs"}]
       /\ job' \in [Sessions -> Job]
       /\ SessionsReady'
  BY <1>1, <1>6, <1>7, <1>10, JobStep DEF Inv
<1>12. ThreadsReady'
  BY <1>1, <1>7, ThreadsRest DEF Inv
<1>13. ListsReady'
  BY <1>1, <1>7 DEF Inv, ListsReady
<1>14. TypeOK'
  BY <1>1, <1>7, <1>11 DEF Inv, TypeOK, Job
<1> QED BY <1>7, <1>9, <1>11, <1>12, <1>13, <1>14 DEF Keeps, Inv

LEMMA MarkReadKeeps ==
  ASSUME Inv, NEW s \in Sessions, NEW u \in Users, NEW keys \in SUBSET Keys,
         MarkRead(s, u, keys)
  PROVE  Keeps
<1>1. /\ UNCHANGED <<redis, emailed, failures, worker, todo, prefs, queue, pc, job, crashes>>
      /\ rows' = [k \in Keys |-> IF k \in keys THEN [rows[k] EXCEPT !["in_app"].read = TRUE]
                                               ELSE rows[k]]
      /\ requests' \in 0 .. MaxRequests
  BY NotificationsConstants DEF MarkRead, worldVars, Inv, TypeOK
<1>2. \A k \in Keys : rows'[k] \in [Channels -> Row] /\ rows'[k]["email"] = rows[k]["email"]
  <2> SUFFICES ASSUME NEW k \in Keys
               PROVE  rows'[k] \in [Channels -> Row] /\ rows'[k]["email"] = rows[k]["email"]
    OBVIOUS
  <2>1. rows[k] \in [Channels -> Row] /\ "in_app" \in Channels /\ "email" \in Channels
    BY DEF Inv, TypeOK, Channels
  <2>2. rows[k]["in_app"] \in Row
    BY <2>1
  <2>3. [rows[k]["in_app"] EXCEPT !.read = TRUE] \in Row
    BY <2>2 DEF Row
  <2>4. CASE k \in keys
    <3>1. rows'[k] = [rows[k] EXCEPT !["in_app"] = [rows[k]["in_app"] EXCEPT !.read = TRUE]]
      BY <1>1, <2>1, <2>4
    <3> QED BY <2>1, <2>3, <3>1
  <2>5. CASE k \notin keys
    BY <1>1, <2>1, <2>5
  <2> QED BY <2>4, <2>5
<1>3. rows' \in [Keys -> [Channels -> Row]]
  BY <1>1, <1>2
<1>4. RetriesAreFailures' /\ StatusIsTrue' /\ Made' = Made /\ [D!Next]_Outcomes
  BY <1>1, <1>2, EmailsRest
<1>5. SessionsReady' /\ ThreadsReady' /\ ListsReady'
  BY <1>1, <1>4, ThreadsRest DEF Inv, SessionsReady, SessionReady, ListsReady
<1>6. TypeOK'
  BY <1>1, <1>3 DEF Inv, TypeOK
<1> QED BY <1>4, <1>5, <1>6 DEF Keeps, Inv

-----------------------------------------------------------------------------
(* The worker. *)

LEMMA ThreadTypes ==
  ASSUME Inv, NEW t \in Threads
  PROVE  /\ worker[t] \in Thread
         /\ worker[t].key \in Keys \cup {None}
         /\ worker[t].row \in Row
         /\ worker[t].row.retries \in Nat
         /\ worker[t].at # "idle" => worker[t].key \in Keys /\ worker[t].key \in Made
         /\ ThreadReady(worker[t])
<1>1. worker[t] \in Thread
  BY DEF Inv, TypeOK, Thread
<1>2. worker[t].row \in Row /\ worker[t].key \in Keys \cup {None}
  BY <1>1 DEF Thread
<1>3. worker[t].row.retries \in Nat
  BY <1>2, NotificationsConstants DEF Row
<1>4. ThreadReady(worker[t])
  BY DEF Inv, ThreadsReady
<1> QED BY <1>1, <1>2, <1>3, <1>4 DEF ThreadReady, Made

\* A step of the worker between its statements: lists, counts and threads, no row.
LEMMA WorkerKeeps ==
  ASSUME Inv, UNCHANGED <<rows, prefs, redis, emailed, failures, pc, job, requests, crashes>>,
         queue' \in Seq(Made),
         todo' \subseteq Made,
         worker' \in [Threads -> Thread],
         ThreadsReady'
  PROVE  Keeps
<1>1. RetriesAreFailures' /\ StatusIsTrue' /\ Made' = Made /\ [D!Next]_Outcomes
  BY EmailsRest
<1>2. SessionsReady'
  BY <1>1 DEF Inv, SessionsReady, SessionReady
<1>3. queue' \in Seq(Keys) /\ todo' \subseteq Keys
  BY DEF Made
<1>4. TypeOK'
  BY <1>3 DEF Inv, TypeOK, Thread
<1> QED BY <1>1, <1>2, <1>4 DEF Keeps, Inv, ListsReady

\* A thread's step that touches neither a row nor the counts.
LEMMA StepKeeps ==
  ASSUME Inv, UNCHANGED <<rows, prefs, redis, emailed, failures, pc, job, requests, crashes>>,
         queue' \in Seq(Made),
         todo' \subseteq Made,
         NEW t \in Threads, NEW at, NEW k \in Keys \cup {None}, NEW row \in Row,
         at \in {"idle", "read", "send", "requeue"},
         Work(t, at, k, row),
         at # "idle" => k \in Made,
         at = "send" => row.retries <= failures[k]
  PROVE  Keeps
<1>1. failures \in [Keys -> 0 .. MaxFailures] /\ Made' = Made
  BY DEF Inv, TypeOK, Made
<1>2. \A x \in Keys : failures[x] <= failures'[x]
  BY <1>1, NotificationsConstants
<1>3. ThreadReady([at |-> at, key |-> k, row |-> row])'
  BY <1>1 DEF ThreadReady
<1>4. worker' \in [Threads -> Thread] /\ ThreadsReady'
  BY <1>1, <1>2, <1>3, ThreadStep DEF Inv
<1> QED BY <1>4, WorkerKeeps

LEMMA DequeueKeeps ==
  ASSUME Inv, Dequeue
  PROVE  Keeps
<1>1. queue \in Seq(Made) /\ queue # <<>>
  BY DEF Dequeue, Inv, ListsReady
<1>2. Head(queue) \in Made /\ Head(queue) \in Keys /\ Tail(queue) \in Seq(Made)
  BY <1>1 DEF Made
<1>3. /\ UNCHANGED <<rows, prefs, redis, emailed, failures, pc, job, requests, crashes>>
      /\ queue' = Tail(queue) /\ todo' = todo
      /\ Work("consumer", "read", Head(queue), NoRow)
  BY DEF Dequeue, apiVars
<1>4. "consumer" \in Threads /\ NoRow \in Row
  BY RowTypes DEF Threads
<1>5. todo' \subseteq Made
  BY <1>3 DEF Inv, ListsReady
<1> QED BY <1>2, <1>3, <1>4, <1>5, StepKeeps

LEMMA PollTickKeeps ==
  ASSUME Inv, PollTick
  PROVE  Keeps
<1>1. /\ UNCHANGED <<rows, prefs, redis, emailed, failures, pc, job, requests, crashes>>
      /\ UNCHANGED <<queue, worker>>
      /\ todo' = PendingExternal
  BY DEF PollTick, apiVars
<1>2. todo' \subseteq Made
  BY <1>1 DEF PendingExternal, Made, NoRow
<1>3. Made \subseteq Made'
  BY <1>1 DEF Made
<1>4. worker' \in [Threads -> Thread] /\ ThreadsReady' /\ queue' \in Seq(Made)
  BY <1>1, <1>3, ThreadsRest DEF Inv, TypeOK, Thread, ListsReady
<1> QED BY <1>1, <1>2, <1>4, WorkerKeeps

LEMMA PollNextKeeps ==
  ASSUME Inv, NEW k \in todo, PollNext(k)
  PROVE  Keeps
<1>1. k \in Made /\ k \in Keys /\ todo \subseteq Made /\ queue \in Seq(Made)
  BY DEF Inv, ListsReady, Made
<1>2. /\ UNCHANGED <<rows, prefs, redis, emailed, failures, pc, job, requests, crashes>>
      /\ queue' = queue /\ todo' = todo \ {k}
      /\ Work("poller", "read", k, NoRow)
  BY DEF PollNext, apiVars
<1>3. "poller" \in Threads /\ NoRow \in Row
  BY RowTypes DEF Threads
<1> QED BY <1>1, <1>2, <1>3, StepKeeps

LEMMA ReadRowKeeps ==
  ASSUME Inv, NEW t \in Threads, ReadRow(t)
  PROVE  Keeps
<1> DEFINE k == worker[t].key
           row == rows[k]["email"]
<1>1. /\ UNCHANGED <<rows, prefs, redis, emailed, failures, pc, job, requests, crashes>>
      /\ UNCHANGED <<queue, todo>>
      /\ worker[t].at = "read"
  BY DEF ReadRow, apiVars
<1>2. queue' \in Seq(Made) /\ todo' \subseteq Made
  BY <1>1 DEF Inv, ListsReady
<1>3. k \in Keys /\ k \in Made /\ NoRow \in Row
  BY <1>1, ThreadTypes, RowTypes
<1>4. row \in Row /\ row.retries <= failures[k]
  BY <1>3 DEF Inv, TypeOK, Channels, RetriesAreFailures
<1>5. Work(t, "idle", None, NoRow) \/ Work(t, "send", k, row)
  BY DEF ReadRow
<1> HIDE DEF k, row
<1> QED BY <1>1, <1>2, <1>3, <1>4, <1>5, StepKeeps

LEMMA RequeueKeeps ==
  ASSUME Inv, NEW t \in Threads, Requeue(t)
  PROVE  Keeps
<1>1. /\ UNCHANGED <<rows, prefs, redis, emailed, failures, pc, job, requests, crashes>>
      /\ todo' = todo
      /\ worker[t].at = "requeue"
      /\ queue' \in {Append(queue, worker[t].key), queue}
      /\ Work(t, "idle", None, NoRow)
  BY DEF Requeue, apiVars
<1>2. worker[t].key \in Made /\ NoRow \in Row
  BY <1>1, ThreadTypes, RowTypes
<1>3. queue' \in Seq(Made) /\ todo' \subseteq Made
  BY <1>1, <1>2 DEF Inv, ListsReady
<1> QED BY <1>1, <1>2, <1>3, StepKeeps

\* The email goes out: an accepted or failed one is delivered.
LEMMA SendKeeps ==
  ASSUME Inv, NEW t \in Threads, Send(t)
  PROVE  Keeps
<1>k. PICK k \in Keys : k = worker[t].key /\ k \in Made
  BY ThreadTypes DEF Send
<1>r. PICK row \in Row : row = worker[t].row
  BY ThreadTypes
<1>1. /\ UNCHANGED <<rows, prefs, redis, failures, pc, job, requests, crashes, queue, todo>>
      /\ worker[t].at = "send"
      /\ emailed' = emailed \cup {k}
      /\ Work(t, "sent", k, row)
  BY <1>k, <1>r DEF Send, apiVars
<1>2. Made' = Made /\ emailed' \subseteq Keys /\ failures \in [Keys -> 0 .. MaxFailures]
  BY <1>1 DEF Made, Inv, TypeOK
<1>3. \A x \in Keys : failures[x] <= failures'[x]
  BY <1>1, <1>2, NotificationsConstants
<1>4. ThreadReady([at |-> "sent", key |-> k, row |-> row])'
  BY <1>1, <1>2, <1>k, <1>r, ThreadTypes DEF ThreadReady
<1>5. worker' \in [Threads -> Thread] /\ ThreadsReady'
  BY <1>1, <1>2, <1>3, <1>4, ThreadStep, ThreadTypes DEF Inv
<1>6. SessionsReady' /\ ListsReady' /\ RetriesAreFailures' /\ StatusIsTrue'
  BY <1>1, <1>2
     DEF Inv, SessionsReady, SessionReady, ListsReady, RetriesAreFailures, StatusIsTrue
<1>7. TypeOK'
  BY <1>1, <1>2, <1>5 DEF Inv, TypeOK, Thread
<1>8. \A x \in Keys : x # k => Outcome(x)' = Outcome(x)
  BY <1>1 DEF Outcome
<1>9. Outcome(k)' = "delivered" /\ Outcome(k) # "none"
  BY <1>1, <1>k DEF Outcome, Made
<1>10. Moves(Outcome(k), Outcome(k)')
  BY <1>9, OutcomeTypes DEF Moves
<1> QED BY <1>5, <1>6, <1>7, <1>8, <1>10, OneOutcome DEF Keeps, Inv

LEMMA SendFailsKeeps ==
  ASSUME Inv, NEW t \in Threads, SendFails(t)
  PROVE  Keeps
<1>k. PICK k \in Keys : k = worker[t].key /\ k \in Made
  BY ThreadTypes DEF SendFails
<1>r. PICK row \in Row : row = worker[t].row
  BY ThreadTypes
<1>1. /\ UNCHANGED <<rows, prefs, redis, emailed, pc, job, requests, crashes, queue, todo>>
      /\ worker[t].at = "send"
      /\ failures[k] < MaxFailures
      /\ failures' = [failures EXCEPT ![k] = @ + 1]
      /\ Work(t, "failed", k, row)
  BY <1>k, <1>r DEF SendFails, apiVars
<1>2. Made' = Made /\ failures \in [Keys -> 0 .. MaxFailures]
  BY <1>1 DEF Made, Inv, TypeOK
<1>3. /\ failures' \in [Keys -> 0 .. MaxFailures]
      /\ failures'[k] = failures[k] + 1
      /\ \A x \in Keys : failures[x] <= failures'[x]
  BY <1>1, <1>2, NotificationsConstants
<1>4. row.retries <= failures[k] /\ row.retries \in Nat
  BY <1>1, <1>k, <1>r, ThreadTypes DEF ThreadReady
<1>5. failures[k] \in Nat
  BY <1>2, NotificationsConstants
<1>6. row.retries + 1 <= failures'[k]
  BY <1>3, <1>4, <1>5
<1>7. ThreadReady([at |-> "failed", key |-> k, row |-> row])'
  BY <1>1, <1>2, <1>6, <1>k DEF ThreadReady
<1>8. worker' \in [Threads -> Thread] /\ ThreadsReady'
  BY <1>1, <1>2, <1>3, <1>7, ThreadStep, ThreadTypes DEF Inv
<1>9. \A x \in Keys : rows[x]["email"].retries \in Nat /\ failures[x] \in Nat
                      /\ failures'[x] \in Nat
  BY <1>2, <1>3, NotificationsConstants DEF Inv, TypeOK, Row, Channels
<1>10. RetriesAreFailures' /\ StatusIsTrue'
  BY <1>1, <1>3, <1>9, NotificationsConstants DEF Inv, RetriesAreFailures, StatusIsTrue
<1>11. SessionsReady' /\ ListsReady'
  BY <1>1, <1>2 DEF Inv, SessionsReady, SessionReady, ListsReady
<1>12. TypeOK'
  BY <1>1, <1>3, <1>8 DEF Inv, TypeOK, Thread
<1>13. [D!Next]_Outcomes
  BY <1>1, OutcomesRest
<1> QED BY <1>8, <1>10, <1>11, <1>12, <1>13 DEF Keeps, Inv

\* A thread saves the row it read, whatever the other has saved meanwhile.
LEMMA SaveKeeps ==
  ASSUME Inv, NEW t \in Threads, NEW k \in Made, NEW r \in Row, NEW at, NEW key,
         UNCHANGED <<prefs, redis, emailed, failures, pc, job, requests, crashes, queue, todo>>,
         rows' = [rows EXCEPT ![k]["email"] = r],
         Work(t, at, key, NoRow),
         at \in {"idle", "requeue"}, key \in {k, None}, at # "idle" => key = k,
         r.status \in {"sent", "failed", "pending"},
         r.retries <= failures[k],
         r.status = "sent" => k \in emailed,
         r.status = "failed" => failures[k] >= MaxRetries
  PROVE  Keeps
<1>1. k \in Keys /\ failures \in [Keys -> 0 .. MaxFailures] /\ NoRow \in Row
  BY RowTypes DEF Made, Inv, TypeOK
<1>2. r.status # "none"
  OBVIOUS
<1>3. /\ rows' \in [Keys -> [Channels -> Row]]
      /\ k \in Made' /\ Made \subseteq Made' /\ Seq(Made) \subseteq Seq(Made')
      /\ RetriesAreFailures' /\ StatusIsTrue'
      /\ \A x \in Keys : x # k => Outcome(x)' = Outcome(x)
      /\ Outcome(k)' \in {"delivered", "failed", "accepted"}
      /\ (Outcome(k)' = "delivered") = (Outcome(k) = "delivered")
  BY <1>1, <1>2, EmailWritten
<1>4. Outcome(k) # "none"
  BY DEF Made, Outcome
<1>5. Moves(Outcome(k), Outcome(k)')
  BY <1>1, <1>3, <1>4, OutcomeTypes DEF Moves
<1>6. [D!Next]_Outcomes
  BY <1>1, <1>3, <1>5, OneOutcome
<1>7. \A x \in Keys : failures[x] <= failures'[x]
  BY <1>1, NotificationsConstants
<1>8. ThreadReady([at |-> at, key |-> key, row |-> NoRow])'
  BY <1>3 DEF ThreadReady
<1>9. worker' \in [Threads -> Thread] /\ ThreadsReady'
  BY <1>1, <1>3, <1>7, <1>8, ThreadStep DEF Inv
<1>10. SessionsReady' /\ ListsReady'
  BY <1>3 DEF Inv, SessionsReady, SessionReady, ListsReady
<1>11. TypeOK'
  BY <1>3, <1>9 DEF Inv, TypeOK, Thread
<1> QED BY <1>3, <1>6, <1>9, <1>10, <1>11 DEF Keeps, Inv

LEMMA SaveSentKeeps ==
  ASSUME Inv, NEW t \in Threads, SaveSent(t)
  PROVE  Keeps
<1> DEFINE r == [worker[t].row EXCEPT !.status = "sent"]
<1>1. PICK k \in Made : k = worker[t].key
  BY ThreadTypes DEF SaveSent
<1>2. k \in emailed /\ worker[t].row.retries <= failures[k]
  BY <1>1, ThreadTypes DEF SaveSent, ThreadReady
<1>3. /\ UNCHANGED <<prefs, redis, emailed, failures, pc, job, requests, crashes, queue, todo>>
      /\ rows' = [rows EXCEPT ![k]["email"] = r]
      /\ Work(t, "idle", None, NoRow)
  BY <1>1 DEF SaveSent, apiVars
<1>4. r \in Row /\ r.status = "sent" /\ r.retries = worker[t].row.retries
  BY ThreadTypes DEF Row
<1> HIDE DEF r
<1> QED BY <1>1, <1>2, <1>3, <1>4, SaveKeeps

LEMMA SaveFailedKeeps ==
  ASSUME Inv, NEW t \in Threads, SaveFailed(t)
  PROVE  Keeps
<1> DEFINE old == worker[t].row
           r == Failed(old)
<1>1. PICK k \in Made : k = worker[t].key
  BY ThreadTypes DEF SaveFailed
<1>2. old \in Row /\ old.retries \in Nat /\ old.retries + 1 <= failures[k]
  BY <1>1, ThreadTypes DEF SaveFailed, ThreadReady
<1>3. failures[k] \in 0 .. MaxFailures
  BY <1>1 DEF Made, Inv, TypeOK
<1>4. old.retries + 1 \in 0 .. MaxRetries + MaxFailures
  BY <1>2, <1>3, NotificationsConstants
<1>5. /\ r.retries = old.retries + 1
      /\ r.status \in {"failed", "pending"}
      /\ r.status = "failed" => old.retries + 1 >= MaxRetries
  BY <1>2 DEF Failed, Row
<1>6. r \in Row
  BY <1>2, <1>4 DEF Failed, Row
<1>7. /\ UNCHANGED <<prefs, redis, emailed, failures, pc, job, requests, crashes, queue, todo>>
      /\ rows' = [rows EXCEPT ![k]["email"] = r]
      /\ Work(t, "idle", None, NoRow) \/ Work(t, "requeue", k, NoRow)
  BY <1>1 DEF SaveFailed, apiVars
<1>8. r.retries <= failures[k] /\ (r.status = "failed" => failures[k] >= MaxRetries)
  BY <1>2, <1>3, <1>5, NotificationsConstants
<1> HIDE DEF r, old
<1> QED BY <1>1, <1>5, <1>6, <1>7, <1>8, SaveKeeps

-----------------------------------------------------------------------------
(* Crashes, and the whole program. *)

LEMMA WorkerCrashKeeps ==
  ASSUME Inv, WorkerCrashes
  PROVE  Keeps
<1>1. /\ UNCHANGED <<rows, prefs, redis, queue, emailed, failures, pc, job, requests>>
      /\ worker' = [t \in Threads |-> IdleThread]
      /\ todo' = {}
      /\ crashes' \in 0 .. MaxCrashes
  BY NotificationsConstants DEF WorkerCrashes, Crash, Inv, TypeOK
<1>2. RetriesAreFailures' /\ StatusIsTrue' /\ Made' = Made /\ [D!Next]_Outcomes
  BY <1>1, EmailsRest
<1>3. IdleThread \in Thread /\ ThreadsReady'
  BY <1>1, RowTypes DEF IdleThread, Thread, ThreadsReady, ThreadReady
<1>4. SessionsReady' /\ ListsReady'
  BY <1>1, <1>2 DEF Inv, SessionsReady, SessionReady, ListsReady
<1>5. TypeOK'
  BY <1>1, <1>3 DEF Inv, TypeOK, Thread
<1> QED BY <1>2, <1>3, <1>4, <1>5 DEF Keeps, Inv

LEMMA ApiCrashKeeps ==
  ASSUME Inv, ApiCrashes
  PROVE  Keeps
<1>1. /\ UNCHANGED <<rows, prefs, redis, queue, emailed, failures, worker, todo, requests>>
      /\ pc' = [s \in Sessions |-> "idle"]
      /\ job' = [s \in Sessions |-> IdleJob]
      /\ crashes' \in 0 .. MaxCrashes
  BY NotificationsConstants DEF ApiCrashes, Crash, worldVars, Inv, TypeOK
<1>2. RetriesAreFailures' /\ StatusIsTrue' /\ Made' = Made /\ [D!Next]_Outcomes
  BY <1>1, EmailsRest
<1>3. \A s \in Sessions : IdleJob \in Job
  BY JobTypes DEF Inv
<1>4. SessionsReady' /\ ListsReady' /\ ThreadsReady'
  BY <1>1, <1>2, ThreadsRest DEF Inv, SessionsReady, SessionReady, ListsReady
<1>5. TypeOK'
  BY <1>1, <1>3 DEF Inv, TypeOK, Job
<1> QED BY <1>2, <1>4, <1>5 DEF Keeps, Inv

LEMMA InitInv == Init => Inv /\ D!Init
<1> SUFFICES ASSUME Init PROVE Inv /\ D!Init
  OBVIOUS
<1>1. \A k \in Keys, ch \in Channels : rows[k][ch] = NoRow
  BY DEF Init
<1>2. "email" \in Channels /\ 0 \in 0 .. MaxFailures /\ 0 \in 0 .. MaxRequests
      /\ 0 \in 0 .. MaxCrashes
  BY NotificationsConstants DEF Channels
<1>3. DefaultPreferences \in Preferences
  BY DEF DefaultPreferences, Preferences
<1>4. TypeOK
  BY <1>2, <1>3, RowTypes DEF Init, TypeOK, IdleJob, IdleThread
<1>5. SessionsReady /\ ThreadsReady /\ ListsReady
  BY DEF Init, SessionsReady, SessionReady, ThreadsReady, ThreadReady, ListsReady, IdleThread
<1>6. RetriesAreFailures /\ StatusIsTrue
  BY <1>1, <1>2 DEF Init, RetriesAreFailures, StatusIsTrue, NoRow
<1>7. \A k \in Keys : Outcome(k) = "none"
  BY <1>1, <1>2 DEF Init, Outcome, NoRow
<1>8. D!Init
  BY <1>7 DEF D!Init
<1> QED BY <1>4, <1>5, <1>6, <1>8 DEF Inv

LEMMA StepsKeep == ASSUME Inv, [Next]_vars PROVE Keeps
<1>1. CASE UNCHANGED vars
  <2>1. RetriesAreFailures' /\ StatusIsTrue' /\ Made' = Made /\ [D!Next]_Outcomes
    BY <1>1, EmailsRest DEF vars
  <2>2. SessionsReady' /\ ListsReady' /\ ThreadsReady' /\ TypeOK'
    BY <1>1, <2>1, ThreadsRest
       DEF vars, Inv, SessionsReady, SessionReady, ListsReady, TypeOK
  <2> QED BY <2>1, <2>2 DEF Keeps, Inv
<1>2. ASSUME NEW s \in Sessions, Api(s) PROVE Keeps
  BY <1>2, NotifyStartKeeps, NotifyCheckKeeps, NotifyCreateKeeps, NotifyPushKeeps,
     NotifyUnqueueKeeps, ReadPreferencesKeeps, SavePreferencesKeeps, MarkReadKeeps DEF Api
<1>3. ASSUME NEW t \in Threads, Process(t) PROVE Keeps
  BY <1>3, ReadRowKeeps, SendKeeps, SendFailsKeeps, SaveSentKeeps, SaveFailedKeeps,
     RequeueKeeps DEF Process
<1>4. CASE Consume
  BY <1>3, <1>4, DequeueKeeps DEF Consume, Threads
<1>5. CASE Poll
  BY <1>3, <1>5, PollTickKeeps, PollNextKeeps DEF Poll, Threads
<1> QED BY <1>1, <1>2, <1>4, <1>5, WorkerCrashKeeps, ApiCrashKeeps DEF Next

\* What holds of rows, lists, threads and sessions in every reachable state.
THEOREM InvHolds == Spec => []Inv
<1>1. Inv /\ [Next]_vars => Inv'
  BY StepsKeep DEF Keeps
<1> QED BY <1>1, InitInv, PTL DEF Spec

\* TypeOK: every variable has its type; above all no row counts more retries than its
\* email had failed sends, two threads or not.
THEOREM TypesHold == Spec => []TypeOK
<1>1. Inv => TypeOK
  BY DEF Inv
<1> QED BY <1>1, InvHolds, PTL

\* StatusIsTrue: a row that says sent was sent, one that says failed was tried as often
\* as configured, however the consumer's and the poller's whole-row saves cross.
THEOREM StatusesAreTrue == Spec => []StatusIsTrue
<1>1. Inv => StatusIsTrue
  BY DEF Inv
<1> QED BY <1>1, InvHolds, PTL

\* The program implements the safety of Delivery: nothing is emailed that has no row, an
\* email once sent is never again pending or given up, and it is given up only from a row.
THEOREM ImplementsSafely == Spec => D!Safe
<1>1. Init => D!Init
  BY InitInv
<1>2. Inv /\ [Next]_vars => [D!Next]_[k \in Keys |-> Outcome(k)]
  BY StepsKeep DEF Keeps, Outcomes
<1> QED BY <1>1, <1>2, InvHolds, PTL DEF Spec, D!Safe
=============================================================================
