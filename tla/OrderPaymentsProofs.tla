------------------------ MODULE OrderPaymentsProofs ------------------------
(***************************************************************************)
(* What holds of OrderPayments for any number of sessions, orders,         *)
(* references and refunds: proofs for TLAPS.                               *)
(***************************************************************************)
EXTENDS OrderPayments, FiniteSetTheorems, TLAPS

USE DEF history

-----------------------------------------------------------------------------
(* Types. *)

Job ==
  [kind : Jobs \cup {"none"}, order : Orders \cup {None},
   reference : References \cup {None}, refund : RefundIds \cup {None},
   amount : Amounts \cup {"none"}, row : OrderRow]

Charge == [order : Orders \cup {None}, paid : BOOLEAN]

Refund ==
  [reference : References \cup {None}, amount : Amounts \cup {"none"},
   state : {"none", "queued", "processed", "failed"}]

\* A session that has work to do knows what kind it is and which order it is about:
\* only a refund webhook may have found none.
JobShape(s) ==
  /\ job[s].kind \in Jobs
  /\ job[s].kind # "refund hook" => job[s].order \in Orders

\* What has been paid was paid for an order, and a working session has its shape.
Shape ==
  /\ \A ref \in References : charges[ref].paid => charges[ref].order \in Orders
  /\ \A s \in Sessions : pc[s] # "idle" => JobShape(s)

TypeInv == TypeOK /\ Shape

\* The row of a new order, and the record of an idle session, have their types.
LEMMA NewOrderType == NewOrder \in OrderRow
  BY DEF NewOrder, OrderRow, OrderStatus

LEMMA IdleJobType == IdleJob \in Job
  BY NewOrderType DEF IdleJob, Job

\* The fields of a session's record have their types.
LEMMA JobTypes ==
  ASSUME TypeInv, NEW s \in Sessions
  PROVE  /\ job[s] \in Job
         /\ job[s].kind \in Jobs \cup {"none"}
         /\ job[s].order \in Orders \cup {None}
         /\ job[s].reference \in References \cup {None}
         /\ job[s].refund \in RefundIds \cup {None}
         /\ job[s].amount \in Amounts \cup {"none"}
         /\ job[s].row \in OrderRow
  BY DEF TypeInv, TypeOK, Job

\* The sessions have their types and their shape.
SessionsTyped ==
  /\ job \in [Sessions -> Job]
  /\ pc \in [Sessions -> {"idle", "call", "read", "save"}]
  /\ \A t \in Sessions : pc[t] # "idle" => JobShape(t)

\* When the record of one session is replaced by one of the right type and shape, the
\* records keep theirs.
LEMMA JobUpdate ==
  ASSUME TypeInv, NEW s \in Sessions, NEW j \in Job,
         NEW next \in {"idle", "call", "read", "save"},
         next # "idle" => /\ j.kind \in Jobs
                          /\ j.kind # "refund hook" => j.order \in Orders,
         job' = [job EXCEPT ![s] = j], pc' = [pc EXCEPT ![s] = next]
  PROVE  SessionsTyped'
<1>1. job' \in [Sessions -> Job] /\ pc' \in [Sessions -> {"idle", "call", "read", "save"}]
  BY DEF TypeInv, TypeOK, Job
<1>2. ASSUME NEW t \in Sessions, pc'[t] # "idle" PROVE JobShape(t)'
  <2>1. CASE t = s
    BY <1>2, <2>1 DEF TypeInv, TypeOK, JobShape
  <2>2. CASE t # s
    BY <1>2, <2>2 DEF TypeInv, TypeOK, JobShape, Shape
  <2> QED BY <2>1, <2>2
<1> QED
  BY <1>1, <1>2 DEF SessionsTyped

\* What each handler makes of a row is a row.
LEMMA ChangedRowTypes ==
  ASSUME NEW row \in OrderRow, NEW ref \in References \cup {None},
         NEW id \in RefundIds \cup {None}, NEW status \in OrderStatus
  PROVE  /\ InitializedRow(row, ref) \in OrderRow
         /\ PaidRow(row, ref) \in OrderRow
         /\ MarkedRefunded(row, id) \in OrderRow
         /\ HookRefunded(row, id) \in OrderRow
         /\ [row EXCEPT !.status = status] \in OrderRow
<1>1. InitializedRow(row, ref) \in OrderRow
  BY DEF InitializedRow, OrderRow, OrderStatus
<1>2. PaidRow(row, ref) \in OrderRow
  BY DEF PaidRow, OrderRow, OrderStatus
<1>3. MarkedRefunded(row, id) \in OrderRow
  BY DEF MarkedRefunded, OrderRow, OrderStatus
<1>4. HookRefunded(row, id) \in OrderRow
  BY DEF HookRefunded, OrderRow, OrderStatus
<1>5. [row EXCEPT !.status = status] \in OrderRow
  BY DEF OrderRow, OrderStatus
<1> QED BY <1>1, <1>2, <1>3, <1>4, <1>5

\* The row a handler saves is a row.
LEMMA SavedRowType ==
  ASSUME TypeInv, NEW s \in Sessions, NEW status \in OrderStatus, pc[s] # "idle"
  PROVE  SavedRow(s, status) \in OrderRow
<1>1. job[s].kind \in Jobs
  BY DEF TypeInv, Shape, JobShape
<1>2. /\ job[s].row \in OrderRow
      /\ job[s].reference \in References \cup {None}
      /\ job[s].refund \in RefundIds \cup {None}
  BY JobTypes
<1>3. "cancelled" \in OrderStatus
  BY DEF OrderStatus
<1>4. /\ InitializedRow(job[s].row, job[s].reference) \in OrderRow
      /\ PaidRow(job[s].row, job[s].reference) \in OrderRow
      /\ MarkedRefunded(job[s].row, job[s].refund) \in OrderRow
      /\ HookRefunded(job[s].row, job[s].refund) \in OrderRow
      /\ [job[s].row EXCEPT !.status = status] \in OrderRow
      /\ [job[s].row EXCEPT !.status = "cancelled"] \in OrderRow
  BY <1>2, <1>3, ChangedRowTypes
<1> QED
  BY <1>1, <1>4 DEF SavedRow, Jobs

\* The types hold at the start.
LEMMA InitTypes == Init => TypeInv
<1> SUFFICES ASSUME Init PROVE TypeInv
  OBVIOUS
<1>1. TypeOK
  BY PaymentConstants, NewOrderType, IdleJobType
  DEF Init, TypeOK, Job, NoCharge, NoRefund
<1>2. Shape
  BY DEF Init, Shape, NoCharge
<1> QED
  BY <1>1, <1>2 DEF TypeInv

\* A handler that returns leaves its session idle, and events are only taken away.
LEMMA FinishTypes ==
  ASSUME TypeInv, NEW s \in Sessions, Finish(s)
  PROVE  /\ SessionsTyped'
         /\ unacked' \subseteq Events
  BY IdleJobType, JobUpdate DEF Finish, TypeInv, TypeOK

\* The types are preserved by a client's request that has read its row.
LEMMA BeginTypes ==
  ASSUME TypeInv, NEW s \in Sessions, NEW next \in {"call", "save"}, NEW kind \in Jobs,
         NEW o \in Orders, NEW amount \in Amounts \cup {"none"},
         Begin(s, next, kind, o, amount)
  PROVE  TypeInv'
<1> DEFINE j == [IdleJob EXCEPT !.kind = kind, !.order = o, !.amount = amount,
                                !.row = orders[o]]
<1>1. j \in Job /\ j.kind \in Jobs /\ j.order \in Orders
  BY IdleJobType DEF Job, TypeInv, TypeOK, IdleJob
<1>2. job' = [job EXCEPT ![s] = j] /\ pc' = [pc EXCEPT ![s] = next]
  BY DEF Begin
<1> HIDE DEF j
<1>3. SessionsTyped'
  BY <1>1, <1>2, JobUpdate
<1> QED
  BY <1>3 DEF TypeInv, TypeOK, Shape, SessionsTyped, Job, Begin, Request

\* A counter that goes up by one is still a natural number.
LEMMA CountTypes == \A n \in Nat : n + 1 \in Nat
  OBVIOUS

\* The types are preserved when a request takes up a new record and changes nothing
\* else but the count of requests.
LEMMA TakenTypes ==
  ASSUME TypeInv, NEW s \in Sessions, NEW j \in Job, j.kind \in Jobs,
         j.kind # "refund hook" => j.order \in Orders,
         job' = [job EXCEPT ![s] = j], pc' = [pc EXCEPT ![s] = "read"],
         UNCHANGED <<orders, restocked, charges, refunds, unacked, crashes, history>>,
         requests' \in {requests, requests + 1}
  PROVE  TypeInv'
<1>1. SessionsTyped'
  BY JobUpdate
<1>2. requests' \in Nat
  <2>1. requests \in Nat
    BY DEF TypeInv, TypeOK
  <2> QED BY <2>1, CountTypes, Zenon
<1>3. TypeOK'
  BY <1>1, <1>2 DEF TypeInv, TypeOK, SessionsTyped, Job
<1>4. Shape'
  BY <1>1 DEF TypeInv, Shape, SessionsTyped
<1> QED
  BY <1>3, <1>4 DEF TypeInv

\* The types are preserved by the clients.
LEMMA ClientTypes ==
  ASSUME TypeInv, NEW s \in Sessions, Client(s)
  PROVE  TypeInv'
<1>1. ASSUME NEW o \in Orders, InitializeRead(s, o) PROVE TypeInv'
  BY <1>1, BeginTypes DEF InitializeRead, Jobs
<1>2. ASSUME NEW ref \in References, Verify(s, ref) PROVE TypeInv'
  <2> DEFINE j == [IdleJob EXCEPT !.kind = "verify", !.reference = ref,
                                  !.order = charges[ref].order]
  <2>1. j \in Job /\ j.kind \in Jobs /\ j.order \in Orders
    BY <1>2, IdleJobType DEF Verify, Job, Jobs, TypeInv, TypeOK, Shape, IdleJob
  <2>2. /\ job' = [job EXCEPT ![s] = j]
        /\ pc' = [pc EXCEPT ![s] = "read"]
        /\ UNCHANGED <<orders, restocked, charges, refunds, unacked, crashes, history>>
        /\ requests' = requests + 1
    BY <1>2 DEF Verify, Request
  <2> HIDE DEF j
  <2> QED BY <2>1, <2>2, TakenTypes
<1>3. ASSUME NEW o \in Orders, NEW amount \in Amounts, RefundRead(s, o, amount)
      PROVE  TypeInv'
  BY <1>3, BeginTypes DEF RefundRead, Jobs
<1>4. ASSUME NEW o \in Orders, CancelRead(s, o) PROVE TypeInv'
  BY <1>4, BeginTypes DEF CancelRead, Jobs
<1>5. ASSUME NEW o \in Orders, StatusRead(s, o) PROVE TypeInv'
  BY <1>5, BeginTypes DEF StatusRead, Jobs
<1> QED
  BY <1>1, <1>2, <1>3, <1>4, <1>5 DEF Client

\* The types are preserved by the webhooks.
LEMMA WebhookTypes ==
  ASSUME TypeInv, NEW s \in Sessions, Webhook(s)
  PROVE  TypeInv'
<1>1. ASSUME NEW ref \in References, ChargeHook(s, ref) PROVE TypeInv'
  <2> DEFINE j == [IdleJob EXCEPT !.kind = "charge hook", !.reference = ref,
                                  !.order = charges[ref].order]
  <2>1. j \in Job /\ j.kind \in Jobs /\ j.order \in Orders
    BY <1>1, IdleJobType DEF ChargeHook, Job, Jobs, TypeInv, TypeOK, Shape, IdleJob
  <2>2. /\ job' = [job EXCEPT ![s] = j]
        /\ pc' = [pc EXCEPT ![s] = "read"]
        /\ UNCHANGED <<orders, restocked, charges, refunds, unacked, crashes, history>>
        /\ requests' \in {requests, requests + 1}
    BY <1>1 DEF ChargeHook, Hook, Delivery, Request
  <2> HIDE DEF j
  <2> QED BY <2>1, <2>2, TakenTypes
<1>2. ASSUME NEW id \in RefundIds, RefundHook(s, id) PROVE TypeInv'
  <2> DEFINE found == {o \in Orders : orders[o].reference = refunds[id].reference}
             order == IF found = {} THEN None ELSE CHOOSE o \in found : TRUE
             j == [IdleJob EXCEPT !.kind = "refund hook", !.refund = id,
                                  !.order = order]
  <2>1. order \in Orders \cup {None}
    OBVIOUS
  <2>2. /\ job' = [job EXCEPT ![s] = j]
        /\ pc' = [pc EXCEPT ![s] = "read"]
        /\ UNCHANGED <<orders, restocked, charges, refunds, unacked, crashes, history>>
        /\ requests' \in {requests, requests + 1}
    BY <1>2 DEF RefundHook, Hook, Delivery, Request
  <2> HIDE DEF order
  <2>3. j \in Job /\ j.kind \in Jobs /\ j.kind = "refund hook"
    BY <2>1, IdleJobType DEF Job, Jobs, IdleJob
  <2> HIDE DEF j
  <2> QED BY <2>2, <2>3, TakenTypes
<1> QED
  BY <1>1, <1>2 DEF Webhook

\* The types are preserved by a Save.
LEMMA SaveTypes ==
  ASSUME TypeInv, NEW s \in Sessions, NEW status \in OrderStatus, Save(s, status)
  PROVE  TypeInv'
<1>1. pc[s] # "idle"
  BY DEF Save
<1>2. SavedRow(s, status) \in OrderRow
  BY <1>1, SavedRowType
<1>3. orders' \in [Orders -> OrderRow]
  BY <1>2 DEF Save, TypeInv, TypeOK
<1>4. restocked' \in [Orders -> Nat]
  <2>1. restocked \in [Orders -> Nat]
    BY DEF TypeInv, TypeOK
  <2>2. CASE job[s].order \in Orders
    <3>1. [restocked EXCEPT ![job[s].order] = restocked[job[s].order] + 1]
             \in [Orders -> Nat]
      BY <2>1, <2>2
    <3> QED BY <2>1, <3>1 DEF Save
  <2>3. CASE job[s].order \notin Orders
    <3>1. [restocked EXCEPT ![job[s].order] = @ + 1] = restocked
      BY <2>1, <2>3
    <3> QED BY <2>1, <3>1 DEF Save
  <2> QED BY <2>2, <2>3
<1>5. /\ SessionsTyped'
      /\ unacked' \subseteq Events
  BY FinishTypes DEF Save
<1> QED
  BY <1>3, <1>4, <1>5 DEF TypeInv, TypeOK, Shape, SessionsTyped, Job, Save

\* The types are preserved by a handler that returns without a Save.
LEMMA NothingTypes ==
  ASSUME TypeInv, NEW s \in Sessions, NothingToDo(s)
  PROVE  TypeInv'
<1>1. /\ SessionsTyped'
      /\ unacked' \subseteq Events
  BY FinishTypes DEF NothingToDo
<1> QED
  BY <1>1 DEF TypeInv, TypeOK, Shape, SessionsTyped, Job, NothingToDo

\* The types are preserved by reading the row again.
LEMMA ReadRowTypes ==
  ASSUME TypeInv, NEW s \in Sessions, ReadRow(s), job[s].order \in Orders,
         pc[s] # "idle"
  PROVE  TypeInv'
<1> DEFINE j == [job[s] EXCEPT !.row = orders[job[s].order]]
<1>1. j \in Job /\ j.kind = job[s].kind /\ j.order = job[s].order
  BY JobTypes DEF Job, TypeInv, TypeOK
<1>2. job' = [job EXCEPT ![s] = j] /\ pc' = [pc EXCEPT ![s] = "save"]
  BY DEF ReadRow, TypeInv, TypeOK
<1>3. job[s].kind \in Jobs
  BY DEF TypeInv, Shape, JobShape
<1> HIDE DEF j
<1>4. SessionsTyped'
  BY <1>1, <1>2, <1>3, JobUpdate
<1> QED
  BY <1>4 DEF TypeInv, TypeOK, Shape, SessionsTyped, Job, ReadRow

\* The types are preserved by a Paystack call that takes up a reference or a refund.
LEMMA CallTypes ==
  ASSUME TypeInv, NEW s \in Sessions, NEW j \in Job,
         NEW next \in {"read", "save"}, pc[s] # "idle",
         j.kind = job[s].kind, j.order = job[s].order,
         job' = [job EXCEPT ![s] = j], pc' = [pc EXCEPT ![s] = next]
  PROVE  SessionsTyped'
<1>1. JobShape(s)
  BY DEF TypeInv, Shape
<1> QED
  BY <1>1, JobUpdate DEF JobShape

\* The types are preserved by the sessions.
LEMMA ServeTypes ==
  ASSUME TypeInv, NEW s \in Sessions, Serve(s)
  PROVE  TypeInv'
<1>1. ASSUME NEW ref \in References, InitializeCall(s, ref) PROVE TypeInv'
  <2> DEFINE j == [job[s] EXCEPT !.reference = ref]
  <2>1. j \in Job /\ j.kind = job[s].kind /\ j.order = job[s].order
    BY JobTypes DEF Job
  <2>2. job' = [job EXCEPT ![s] = j] /\ pc' = [pc EXCEPT ![s] = "save"] /\ pc[s] = "call"
    BY <1>1 DEF InitializeCall, Opens, TypeInv, TypeOK
  <2> HIDE DEF j
  <2>3. SessionsTyped'
    BY <2>1, <2>2, CallTypes
  <2>4. job[s].order \in Orders
    BY <1>1 DEF InitializeCall, Opens, TypeInv, Shape, JobShape
  <2>5. /\ charges' \in [References -> Charge]
        /\ \A r \in References : charges'[r].paid => charges'[r].order \in Orders
    BY <1>1, <2>4 DEF InitializeCall, Opens, TypeInv, TypeOK, Shape, Charge
  <2> QED
    BY <1>1, <2>3, <2>5 DEF InitializeCall, Opens, TypeInv, TypeOK, Shape, SessionsTyped, Job,
                            Charge
<1>2. ASSUME NEW id \in RefundIds, RefundCall(s, id) PROVE TypeInv'
  <2> DEFINE j == [job[s] EXCEPT !.refund = id]
  <2>1. j \in Job /\ j.kind = job[s].kind /\ j.order = job[s].order
    BY JobTypes DEF Job
  <2>2. job' = [job EXCEPT ![s] = j] /\ pc' = [pc EXCEPT ![s] = "read"] /\ pc[s] = "call"
    BY <1>2 DEF RefundCall, Accepts, TypeInv, TypeOK
  <2> HIDE DEF j
  <2>3. SessionsTyped'
    BY <2>1, <2>2, CallTypes
  <2>4. job[s].row.reference \in References \cup {None} /\ job[s].amount \in Amounts \cup {"none"}
    BY JobTypes DEF OrderRow
  <2>5. refunds' \in [RefundIds -> Refund]
    BY <1>2, <2>4 DEF RefundCall, Accepts, TypeInv, TypeOK, Refund
  <2> QED
    BY <1>2, <2>3, <2>5 DEF RefundCall, Accepts, TypeInv, TypeOK, Shape, SessionsTyped, Job, Refund
<1>3. CASE CallFails(s)
  BY <1>3, NothingTypes DEF CallFails
<1>4. ASSUME pc[s] = "read", ReadRow(s), job[s].kind # "refund hook" \/ job[s].order \in Orders
      PROVE  TypeInv'
  <2>1. job[s].order \in Orders
    BY <1>4 DEF TypeInv, Shape, JobShape
  <2> QED BY <1>4, <2>1, ReadRowTypes
<1>5. CASE PaidRead(s)
  BY <1>4, <1>5, NothingTypes DEF PaidRead
<1>6. CASE MarkRead(s)
  BY <1>4, <1>6 DEF MarkRead
<1>7. CASE RefundHookRead(s)
  BY <1>4, <1>7, NothingTypes, JobTypes DEF RefundHookRead
<1>8. ASSUME NEW status \in Statuses \cup {"pending"}, Save(s, status) PROVE TypeInv'
  BY <1>8, SaveTypes, PaymentConstants DEF OrderStatus
<1> QED
  BY <1>1, <1>2, <1>3, <1>5, <1>6, <1>7, <1>8 DEF Serve

\* The types are preserved by Paystack.
LEMMA PaystackTypes ==
  ASSUME TypeInv, Paystack
  PROVE  TypeInv'
<1>1. ASSUME NEW ref \in References, CustomerPays(ref) PROVE TypeInv'
  <2>1. charges[ref].order \in Orders
    BY <1>1 DEF CustomerPays, TypeInv, TypeOK, NoCharge
  <2> DEFINE paid == [charges[ref] EXCEPT !.paid = TRUE]
  <2>2. /\ charges \in [References -> Charge]
        /\ charges' = [charges EXCEPT ![ref] = paid]
    BY <1>1 DEF CustomerPays, TypeInv, TypeOK, Charge
  <2>6. paid \in Charge /\ paid.order = charges[ref].order
    BY <2>2 DEF Charge
  <2> HIDE DEF paid
  <2>7. /\ charges' \in [References -> Charge]
        /\ \A r \in References : charges'[r].order = charges[r].order
        /\ \A r \in References \ {ref} : charges'[r] = charges[r]
    BY <2>2, <2>6
  <2>3. unacked' \subseteq Events
    BY <1>1 DEF CustomerPays, TypeInv, TypeOK, Events, ChargeEvent
  <2>4. TypeOK'
    BY <1>1, <2>3, <2>7 DEF CustomerPays, TypeInv, TypeOK, Charge
  <2>5. Shape'
    BY <1>1, <2>1, <2>7 DEF CustomerPays, TypeInv, Shape, JobShape
  <2> QED BY <2>4, <2>5 DEF TypeInv
<1>2. ASSUME NEW id \in RefundIds, NEW outcome \in {"processed", "failed"},
             RefundSettles(id, outcome)
      PROVE  TypeInv'
  <2>1. refunds' \in [RefundIds -> Refund]
    <3>1. /\ refunds \in [RefundIds -> Refund]
          /\ refunds' = [refunds EXCEPT ![id].state = outcome]
      BY <1>2 DEF RefundSettles, TypeInv, TypeOK, Refund
    <3>2. [refunds[id] EXCEPT !.state = outcome] \in Refund
      BY <3>1 DEF Refund
    <3> QED BY <3>1, <3>2
  <2>2. unacked' \subseteq Events
    BY <1>2 DEF RefundSettles, TypeInv, TypeOK, Events, RefundEvent
  <2>3. TypeOK'
    BY <1>2, <2>1, <2>2 DEF RefundSettles, TypeInv, TypeOK, Refund
  <2>4. Shape'
    BY <1>2 DEF RefundSettles, TypeInv, TypeOK, Shape, JobShape
  <2> QED BY <2>3, <2>4 DEF TypeInv
<1> QED
  BY <1>1, <1>2 DEF Paystack

\* A handler that gives up leaves its session idle.
LEMMA GiveUpTypes ==
  ASSUME TypeInv, NEW s \in Sessions, GiveUp(s)
  PROVE  SessionsTyped' /\ crashes' \in Nat
<1>1. SessionsTyped'
  BY IdleJobType, JobUpdate DEF GiveUp
<1>2. crashes' \in Nat
  <2>1. crashes \in Nat /\ crashes' = crashes + 1
    BY DEF GiveUp, TypeInv, TypeOK
  <2> QED BY <2>1
<1> QED BY <1>1, <1>2

\* The types are preserved by what goes wrong.
LEMMA FailureTypes ==
  ASSUME TypeInv, NEW s \in Sessions, Failure(s)
  PROVE  TypeInv'
<1>1. ASSUME StatementFails(s) PROVE TypeInv'
  <2>1. SessionsTyped' /\ crashes' \in Nat
    BY <1>1, GiveUpTypes DEF StatementFails
  <2>2. unmarked' \subseteq RefundIds
    BY <1>1 DEF StatementFails, CutOff, TypeInv, TypeOK
  <2> QED
    BY <1>1, <2>1, <2>2 DEF StatementFails, TypeInv, TypeOK, Shape, SessionsTyped, Job
<1>2. ASSUME NEW ref \in References, InitializeUnanswered(s, ref) PROVE TypeInv'
  <2>1. SessionsTyped' /\ crashes' \in Nat
    BY <1>2, GiveUpTypes DEF InitializeUnanswered
  <2>2. job[s].order \in Orders
    BY <1>2 DEF InitializeUnanswered, Opens, TypeInv, Shape, JobShape
  <2>3. /\ charges' \in [References -> Charge]
        /\ \A r \in References : charges'[r].paid => charges'[r].order \in Orders
    BY <1>2, <2>2 DEF InitializeUnanswered, Opens, TypeInv, TypeOK, Shape, Charge
  <2> QED
    BY <1>2, <2>1, <2>3
    DEF InitializeUnanswered, TypeInv, TypeOK, Shape, SessionsTyped, Job, Charge
<1>3. ASSUME NEW id \in RefundIds, RefundUnanswered(s, id) PROVE TypeInv'
  <2>1. SessionsTyped' /\ crashes' \in Nat
    BY <1>3, GiveUpTypes DEF RefundUnanswered
  <2>2. /\ job[s].row.reference \in References \cup {None}
        /\ job[s].amount \in Amounts \cup {"none"}
    BY JobTypes DEF OrderRow
  <2>3. refunds' \in [RefundIds -> Refund]
    BY <1>3, <2>2 DEF RefundUnanswered, Accepts, TypeInv, TypeOK, Refund
  <2>4. unmarked' \subseteq RefundIds
    BY <1>3 DEF RefundUnanswered, TypeInv, TypeOK
  <2> QED
    BY <1>3, <2>1, <2>3, <2>4
    DEF RefundUnanswered, TypeInv, TypeOK, Shape, SessionsTyped, Job, Refund
<1>4. ASSUME NEW id \in RefundIds, LookupFails(s, id) PROVE TypeInv'
  <2>1. crashes' \in Nat /\ requests' \in Nat
    <3>1. crashes \in Nat /\ requests \in Nat
      BY DEF TypeInv, TypeOK
    <3>2. crashes' = crashes + 1 /\ requests' \in {requests, requests + 1}
      BY <1>4 DEF LookupFails, Delivery, Request
    <3> QED BY <3>1, <3>2
  <2>2. unacked' \subseteq Events /\ dropped' \subseteq RefundIds
    BY <1>4 DEF LookupFails, TypeInv, TypeOK
  <2>3. TypeOK'
    BY <1>4, <2>1, <2>2 DEF LookupFails, TypeInv, TypeOK
  <2>4. Shape'
    BY <1>4 DEF LookupFails, TypeInv, Shape, JobShape
  <2> QED BY <2>3, <2>4 DEF TypeInv
<1> QED BY <1>1, <1>2, <1>3, <1>4 DEF Failure

\* Every step preserves the types.
LEMMA StepTypes == TypeInv /\ [Next]_vars => TypeInv'
<1> SUFFICES ASSUME TypeInv, [Next]_vars PROVE TypeInv'
  OBVIOUS
<1>1. CASE UNCHANGED vars
  BY <1>1 DEF vars, TypeInv, TypeOK, Shape, JobShape
<1>2. CASE Crash
  <2>1. unmarked' \subseteq RefundIds
    BY <1>2 DEF Crash, CutOff, TypeInv, TypeOK
  <2> QED BY <1>2, <2>1, IdleJobType DEF Crash, TypeInv, TypeOK, Shape, Job
<1> QED
  BY <1>1, <1>2, ClientTypes, WebhookTypes, ServeTypes, PaystackTypes, FailureTypes DEF Next

\* Every state the program reaches is of its type, with sessions of their shape.
THEOREM TypesHold == Spec => []TypeInv
  BY InitTypes, StepTypes, PTL DEF Spec

\* TypeOK: every variable has its type in every reachable state.
THEOREM TypeCorrect == Spec => []TypeOK
<1>1. TypeInv => TypeOK
  BY DEF TypeInv
<1> QED
  BY <1>1, TypesHold, PTL

-----------------------------------------------------------------------------
(* Payments and refunds are backed. *)

\* The checkout was opened for this order; it has been paid; and the refund is one
\* Paystack has taken, of a payment of this order.
CheckoutOf(o, ref) == ref \in References /\ charges[ref].order = o

PaidBy(o, ref) == CheckoutOf(o, ref) /\ charges[ref].paid

RefundFor(o, id) ==
  /\ id \in RefundIds
  /\ refunds[id] # NoRefund
  /\ CheckoutOf(o, refunds[id].reference)

\* What a row of order o says of Paystack is so, whether the row is the stored one or
\* one a handler read and will save with a few columns changed.
RowBacked(o, row) ==
  /\ row.reference # None => CheckoutOf(o, row.reference)
  /\ row.payment = "paid" => row.paystack /\ PaidBy(o, row.reference)
  /\ row.payment = "refunded" => RefundFor(o, row.refund)

\* What a session will write into the row it read, or ask Paystack for, is backed
\* already.
JobBacked(s) ==
  pc[s] # "idle" =>
    LET o == job[s].order
        kind == job[s].kind
    IN /\ pc[s] \in {"call", "save"} => o \in Orders /\ RowBacked(o, job[s].row)
       /\ kind = "initialize" => job[s].row.payment = "pending"
       /\ kind = "initialize" /\ pc[s] = "save" => CheckoutOf(o, job[s].reference)
       /\ kind \in {"verify", "charge hook"} => PaidBy(o, job[s].reference)
       /\ kind = "refund" /\ pc[s] = "call" => PaidBy(o, job[s].row.reference)
       /\ kind = "refund" /\ pc[s] # "call" => RefundFor(o, job[s].refund)
       /\ kind = "refund hook" /\ o # None => RefundFor(o, job[s].refund)

\* Every row, of the table or of a handler, is backed; so is every refund.
BackingInv ==
  /\ \A o \in Orders : RowBacked(o, orders[o])
  /\ RefundsAreBacked
  /\ \A s \in Sessions : JobBacked(s)

\* Paystack forgets nothing: a checkout stays its order's, a payment stays made, a
\* refund stays taken.
Remembers ==
  /\ \A ref \in References :
       /\ charges[ref].order # None => charges'[ref].order = charges[ref].order
       /\ charges[ref].paid => charges'[ref].paid
  /\ \A id \in RefundIds :
       refunds[id] # NoRefund => /\ refunds'[id] # NoRefund
                                 /\ refunds'[id].reference = refunds[id].reference

\* What is backed stays backed.
LEMMA StaysBacked ==
  ASSUME Remembers, NEW o \in Orders
  PROVE  /\ \A ref : CheckoutOf(o, ref) => CheckoutOf(o, ref)'
         /\ \A ref : PaidBy(o, ref) => PaidBy(o, ref)'
         /\ \A id : RefundFor(o, id) => RefundFor(o, id)'
         /\ \A row : RowBacked(o, row) => RowBacked(o, row)'
<1>1. o # None
  BY PaymentConstants
<1>2. ASSUME NEW ref, CheckoutOf(o, ref) PROVE CheckoutOf(o, ref)'
  BY <1>1, <1>2 DEF CheckoutOf, Remembers
<1>3. ASSUME NEW ref, PaidBy(o, ref) PROVE PaidBy(o, ref)'
  BY <1>2, <1>3 DEF PaidBy, CheckoutOf, Remembers
<1>4. ASSUME NEW id, RefundFor(o, id) PROVE RefundFor(o, id)'
  <2>1. /\ id \in RefundIds
        /\ refunds'[id] # NoRefund
        /\ refunds'[id].reference = refunds[id].reference
    BY <1>4 DEF RefundFor, Remembers
  <2>2. CheckoutOf(o, refunds[id].reference)
    BY <1>4 DEF RefundFor
  <2>3. CheckoutOf(o, refunds[id].reference)'
    BY <1>1, <2>1, <2>2 DEF CheckoutOf, Remembers
  <2> QED BY <2>1, <2>3 DEF RefundFor
<1>5. ASSUME NEW row, RowBacked(o, row) PROVE RowBacked(o, row)'
  BY <1>2, <1>3, <1>4, <1>5 DEF RowBacked
<1> QED
  BY <1>2, <1>3, <1>4, <1>5

\* A session that does nothing stays backed.
LEMMA RestStaysBacked ==
  ASSUME TypeInv, Remembers, NEW t \in Sessions, JobBacked(t),
         job'[t] = job[t], pc'[t] = pc[t]
  PROVE  JobBacked(t)'
<1> SUFFICES ASSUME pc[t] # "idle" PROVE JobBacked(t)'
  BY DEF JobBacked
<1>1. JobShape(t)
  BY DEF TypeInv, Shape
<1>2. CASE job[t].order \in Orders
  BY <1>2, StaysBacked DEF JobBacked
<1>3. CASE job[t].order \notin Orders
  <2>1. job[t].kind = "refund hook" /\ job[t].order = None
    BY <1>1, <1>3, JobTypes DEF JobShape
  <2> QED BY <1>3, <2>1 DEF JobBacked
<1> QED
  BY <1>2, <1>3

\* When one session moves and the table stays, only its own record and the refunds have
\* to be looked at.
LEMMA BackedOfOne ==
  ASSUME TypeInv, BackingInv, Remembers, NEW s \in Sessions, orders' = orders,
         \A t \in Sessions \ {s} : job'[t] = job[t] /\ pc'[t] = pc[t],
         JobBacked(s)', RefundsAreBacked'
  PROVE  BackingInv'
<1>1. \A o \in Orders : RowBacked(o, orders[o])'
  BY StaysBacked DEF BackingInv
<1>2. \A t \in Sessions \ {s} : JobBacked(t)'
  BY RestStaysBacked DEF BackingInv
<1> QED
  BY <1>1, <1>2 DEF BackingInv

\* The same, for a step in which Paystack does nothing.
LEMMA BackedOfHandler ==
  ASSUME TypeInv, BackingInv, NEW s \in Sessions, orders' = orders,
         charges' = charges, refunds' = refunds,
         \A t \in Sessions \ {s} : job'[t] = job[t] /\ pc'[t] = pc[t],
         JobBacked(s)'
  PROVE  BackingInv'
<1>1. Remembers
  BY DEF Remembers
<1>2. RefundsAreBacked'
  BY DEF BackingInv, RefundsAreBacked
<1> QED
  BY <1>1, <1>2, BackedOfOne

\* The session a step moves, and the others.
LEMMA JobOf ==
  ASSUME TypeInv, NEW s \in Sessions, NEW j, NEW next,
         job' = [job EXCEPT ![s] = j], pc' = [pc EXCEPT ![s] = next]
  PROVE  /\ job'[s] = j
         /\ pc'[s] = next
         /\ \A t \in Sessions \ {s} : job'[t] = job[t] /\ pc'[t] = pc[t]
  BY DEF TypeInv, TypeOK

\* Nothing is paid or refunded at the start.
LEMMA InitBacked == Init => BackingInv
  BY DEF Init, BackingInv, RowBacked, NewOrder, RefundsAreBacked, JobBacked

\* A client's request that has read its row holds a backed row.
LEMMA BeginBacked ==
  ASSUME TypeInv, BackingInv, NEW s \in Sessions, NEW next \in {"call", "save"},
         NEW kind \in {"initialize", "refund", "cancel", "status"},
         NEW o \in Orders, NEW amount, Begin(s, next, kind, o, amount),
         kind = "initialize" => next = "call" /\ Initializable(orders[o]),
         kind = "refund" => next = "call" /\ Refundable(orders[o])
  PROVE  BackingInv'
<1> DEFINE j == [IdleJob EXCEPT !.kind = kind, !.order = o, !.amount = amount,
                                !.row = orders[o]]
<1>1. j.kind = kind /\ j.order = o /\ j.row = orders[o]
  BY DEF IdleJob
<1>2. job' = [job EXCEPT ![s] = j] /\ pc' = [pc EXCEPT ![s] = next]
  BY DEF Begin
<1> HIDE DEF j
<1>3. /\ job'[s] = j
      /\ pc'[s] = next
      /\ \A t \in Sessions \ {s} : job'[t] = job[t] /\ pc'[t] = pc[t]
  BY <1>2, JobOf
<1>4. orders' = orders /\ charges' = charges /\ refunds' = refunds
  BY DEF Begin
<1>5. RowBacked(o, orders[o])'
  <2>1. RowBacked(o, orders[o])
    BY DEF BackingInv
  <2> QED BY <1>4, <2>1 DEF RowBacked, PaidBy, RefundFor, CheckoutOf
<1>6. JobBacked(s)'
  <2>1. kind = "initialize" => orders[o].payment = "pending"
    BY DEF Initializable
  <2>2. kind = "refund" => PaidBy(o, orders[o].reference)'
    BY <1>4, <1>5 DEF Refundable, RowBacked
  <2> QED BY <1>1, <1>3, <1>4, <1>5, <2>1, <2>2 DEF JobBacked
<1> QED
  BY <1>3, <1>4, <1>6, BackedOfHandler

\* A request that has heard from Paystack what it is about holds what Paystack said.
LEMMA HeardBacked ==
  ASSUME TypeInv, BackingInv, NEW s \in Sessions, NEW j,
         job' = [job EXCEPT ![s] = j], pc' = [pc EXCEPT ![s] = "read"],
         UNCHANGED <<orders, charges, refunds>>,
         \/ j.kind \in {"verify", "charge hook"} /\ PaidBy(j.order, j.reference)
         \/ j.kind = "refund hook" /\ (j.order # None => RefundFor(j.order, j.refund))
  PROVE  BackingInv'
<1>1. /\ job'[s] = j
      /\ pc'[s] = "read"
      /\ \A t \in Sessions \ {s} : job'[t] = job[t] /\ pc'[t] = pc[t]
  BY JobOf
<1>2. JobBacked(s)'
  BY <1>1 DEF JobBacked, PaidBy, RefundFor, CheckoutOf
<1> QED
  BY <1>1, <1>2, BackedOfHandler

\* Clients preserve the backing.
LEMMA ClientBacked ==
  ASSUME TypeInv, BackingInv, NEW s \in Sessions, Client(s)
  PROVE  BackingInv'
<1>1. ASSUME NEW o \in Orders, InitializeRead(s, o) PROVE BackingInv'
  BY <1>1, BeginBacked DEF InitializeRead
<1>2. ASSUME NEW ref \in References, Verify(s, ref) PROVE BackingInv'
  <2> DEFINE j == [IdleJob EXCEPT !.kind = "verify", !.reference = ref,
                                  !.order = charges[ref].order]
  <2>1. j.kind = "verify" /\ j.reference = ref /\ j.order = charges[ref].order
    BY DEF IdleJob
  <2>2. /\ job' = [job EXCEPT ![s] = j]
        /\ pc' = [pc EXCEPT ![s] = "read"]
        /\ UNCHANGED <<orders, charges, refunds>>
        /\ charges[ref].paid
    BY <1>2 DEF Verify
  <2> HIDE DEF j
  <2>3. PaidBy(j.order, j.reference)
    BY <2>1, <2>2 DEF PaidBy, CheckoutOf
  <2> QED BY <2>1, <2>2, <2>3, HeardBacked
<1>3. ASSUME NEW o \in Orders, NEW amount \in Amounts, RefundRead(s, o, amount)
      PROVE  BackingInv'
  BY <1>3, BeginBacked DEF RefundRead
<1>4. ASSUME NEW o \in Orders, CancelRead(s, o) PROVE BackingInv'
  BY <1>4, BeginBacked DEF CancelRead
<1>5. ASSUME NEW o \in Orders, StatusRead(s, o) PROVE BackingInv'
  BY <1>5, BeginBacked DEF StatusRead
<1> QED
  BY <1>1, <1>2, <1>3, <1>4, <1>5 DEF Client

\* Webhooks preserve the backing: the order a refund webhook finds carries the reference
\* the refund is of, and that reference is this order's.
LEMMA WebhookBacked ==
  ASSUME TypeInv, BackingInv, NEW s \in Sessions, Webhook(s)
  PROVE  BackingInv'
<1>1. ASSUME NEW ref \in References, ChargeHook(s, ref) PROVE BackingInv'
  <2> DEFINE j == [IdleJob EXCEPT !.kind = "charge hook", !.reference = ref,
                                  !.order = charges[ref].order]
  <2>1. j.kind = "charge hook" /\ j.reference = ref /\ j.order = charges[ref].order
    BY DEF IdleJob
  <2>2. /\ job' = [job EXCEPT ![s] = j]
        /\ pc' = [pc EXCEPT ![s] = "read"]
        /\ UNCHANGED <<orders, charges, refunds>>
        /\ charges[ref].paid
    BY <1>1 DEF ChargeHook, Hook
  <2> HIDE DEF j
  <2>3. PaidBy(j.order, j.reference)
    BY <2>1, <2>2 DEF PaidBy, CheckoutOf
  <2> QED BY <2>1, <2>2, <2>3, HeardBacked
<1>2. ASSUME NEW id \in RefundIds, RefundHook(s, id) PROVE BackingInv'
  <2> DEFINE found == {o \in Orders : orders[o].reference = refunds[id].reference}
             order == IF found = {} THEN None ELSE CHOOSE o \in found : TRUE
             j == [IdleJob EXCEPT !.kind = "refund hook", !.refund = id,
                                  !.order = order]
  <2>1. order # None => order \in Orders /\ orders[order].reference = refunds[id].reference
    OBVIOUS
  <2>2. /\ job' = [job EXCEPT ![s] = j]
        /\ pc' = [pc EXCEPT ![s] = "read"]
        /\ UNCHANGED <<orders, charges, refunds>>
        /\ refunds[id].state \in {"processed", "failed"}
    BY <1>2 DEF RefundHook, Hook
  <2> HIDE DEF order
  <2>3. j.kind = "refund hook" /\ j.refund = id /\ j.order = order
    BY DEF IdleJob
  <2> HIDE DEF j
  <2>4. refunds[id] # NoRefund /\ refunds[id].reference # None
    BY <2>2 DEF NoRefund, BackingInv, RefundsAreBacked
  <2>5. order # None => RefundFor(order, id)
    BY <2>1, <2>4 DEF BackingInv, RowBacked, RefundFor
  <2> QED BY <2>2, <2>3, <2>5, HeardBacked
<1> QED
  BY <1>1, <1>2 DEF Webhook

\* A handler that returns without a Save preserves the backing.
LEMMA NothingBacked ==
  ASSUME TypeInv, BackingInv, NEW s \in Sessions, NothingToDo(s)
  PROVE  BackingInv'
<1>1. /\ pc'[s] = "idle"
      /\ \A t \in Sessions \ {s} : job'[t] = job[t] /\ pc'[t] = pc[t]
  BY JobOf DEF NothingToDo, Finish
<1>2. JobBacked(s)'
  BY <1>1 DEF JobBacked
<1> QED
  BY <1>1, <1>2, BackedOfHandler DEF NothingToDo

\* A row that is read again is backed like the stored one.
LEMMA ReadRowBacked ==
  ASSUME TypeInv, BackingInv, NEW s \in Sessions, ReadRow(s), pc[s] = "read",
         job[s].order \in Orders, job[s].kind # "initialize"
  PROVE  BackingInv'
<1> DEFINE j == [job[s] EXCEPT !.row = orders[job[s].order]]
<1>1. /\ j.kind = job[s].kind /\ j.order = job[s].order
      /\ j.reference = job[s].reference /\ j.refund = job[s].refund
      /\ j.row = orders[job[s].order]
  BY JobTypes DEF Job
<1>2. job' = [job EXCEPT ![s] = j] /\ pc' = [pc EXCEPT ![s] = "save"]
  BY DEF ReadRow, TypeInv, TypeOK
<1> HIDE DEF j
<1>3. /\ job'[s] = j
      /\ pc'[s] = "save"
      /\ \A t \in Sessions \ {s} : job'[t] = job[t] /\ pc'[t] = pc[t]
  BY <1>2, JobOf
<1>4. orders' = orders /\ charges' = charges /\ refunds' = refunds
  BY DEF ReadRow
<1>5. /\ RowBacked(job[s].order, orders[job[s].order])
      /\ JobBacked(s)
  BY DEF BackingInv
<1>6. JobBacked(s)'
  BY <1>1, <1>3, <1>4, <1>5 DEF JobBacked, RowBacked, PaidBy, RefundFor, CheckoutOf
<1> QED
  BY <1>3, <1>4, <1>6, BackedOfHandler

\* The row a handler saves is backed: its reference and its refund were the order's
\* before it was read.
LEMMA SavedRowBacked ==
  ASSUME TypeInv, BackingInv, NEW s \in Sessions, NEW status, pc[s] = "save"
  PROVE  job[s].order \in Orders /\ RowBacked(job[s].order, SavedRow(s, status))
<1> DEFINE o == job[s].order
           row == job[s].row
<1>1. JobBacked(s) /\ JobShape(s)
  BY DEF BackingInv, TypeInv, Shape
<1>2. o \in Orders /\ o # None /\ RowBacked(o, row)
  BY <1>1, PaymentConstants DEF JobBacked
<1>3. row \in OrderRow
  BY JobTypes
<1>4. CASE job[s].kind = "initialize"
  <2>1. SavedRow(s, status) = InitializedRow(row, job[s].reference)
    BY <1>4 DEF SavedRow
  <2>2. CheckoutOf(o, job[s].reference) /\ row.payment = "pending"
    BY <1>1, <1>4 DEF JobBacked
  <2> QED BY <1>2, <1>3, <2>1, <2>2 DEF InitializedRow, RowBacked, OrderRow
<1>5. CASE job[s].kind \in {"verify", "charge hook"}
  <2>1. SavedRow(s, status) = PaidRow(row, job[s].reference)
    BY <1>5 DEF SavedRow
  <2>2. PaidBy(o, job[s].reference)
    BY <1>1, <1>5 DEF JobBacked
  <2> QED BY <1>2, <1>3, <2>1, <2>2 DEF PaidRow, RowBacked, OrderRow, PaidBy
<1>6. CASE job[s].kind \in {"refund", "refund hook"}
  <2>1. \/ SavedRow(s, status) = MarkedRefunded(row, job[s].refund)
        \/ SavedRow(s, status) = HookRefunded(row, job[s].refund)
    BY <1>6 DEF SavedRow
  <2>2. RefundFor(o, job[s].refund)
    BY <1>1, <1>2, <1>6 DEF JobBacked
  <2> QED BY <1>2, <1>3, <2>1, <2>2
          DEF MarkedRefunded, HookRefunded, RowBacked, OrderRow
<1>7. CASE job[s].kind \in {"cancel", "status"}
  <2>1. \E new : SavedRow(s, status) = [row EXCEPT !.status = new]
    BY <1>7 DEF SavedRow
  <2> QED BY <1>2, <1>3, <2>1 DEF RowBacked, OrderRow
<1> QED
  BY <1>1, <1>2, <1>4, <1>5, <1>6, <1>7 DEF JobShape, Jobs

\* Saving preserves the backing.
LEMMA SaveBacked ==
  ASSUME TypeInv, BackingInv, NEW s \in Sessions, NEW status, Save(s, status)
  PROVE  BackingInv'
<1>1. /\ pc'[s] = "idle"
      /\ \A t \in Sessions \ {s} : job'[t] = job[t] /\ pc'[t] = pc[t]
  BY JobOf DEF Save, Finish
<1>2. pc[s] = "save" /\ charges' = charges /\ refunds' = refunds
  BY DEF Save
<1>3. job[s].order \in Orders /\ RowBacked(job[s].order, SavedRow(s, status))
  BY <1>2, SavedRowBacked
<1>4. orders' = [orders EXCEPT ![job[s].order] = SavedRow(s, status)]
  BY DEF Save
<1>5. Remembers
  BY <1>2 DEF Remembers
<1>6. ASSUME NEW o \in Orders PROVE RowBacked(o, orders[o])'
  <2>1. RowBacked(o, orders'[o])
    BY <1>3, <1>4 DEF BackingInv, TypeInv, TypeOK
  <2> QED BY <1>2, <2>1 DEF RowBacked, PaidBy, RefundFor, CheckoutOf
<1>7. \A t \in Sessions \ {s} : JobBacked(t)'
  BY <1>1, <1>5, RestStaysBacked DEF BackingInv
<1>8. JobBacked(s)'
  BY <1>1 DEF JobBacked
<1>9. RefundsAreBacked'
  BY <1>2 DEF BackingInv, RefundsAreBacked
<1> QED
  BY <1>6, <1>7, <1>8, <1>9 DEF BackingInv

\* A checkout is opened under a reference that had none.
LEMMA OpensRemembers ==
  ASSUME TypeInv, BackingInv, NEW s \in Sessions, NEW ref \in References, Opens(s, ref),
         refunds' = refunds
  PROVE  Remembers /\ RefundsAreBacked'
<1>1. /\ charges[ref].order = None /\ ~charges[ref].paid
      /\ \A r \in References \ {ref} : charges'[r] = charges[r]
  BY DEF Opens, NoCharge, TypeInv, TypeOK
<1>2. Remembers
  BY <1>1 DEF Remembers
<1>3. RefundsAreBacked'
  BY <1>1 DEF BackingInv, RefundsAreBacked, TypeInv, TypeOK
<1> QED BY <1>2, <1>3

\* A refund Paystack takes is of the reference of a row that was paid when it was read,
\* and a payment stays made.
LEMMA AcceptsRemembers ==
  ASSUME TypeInv, BackingInv, NEW s \in Sessions, NEW id \in RefundIds, Accepts(s, id),
         charges' = charges
  PROVE  Remembers /\ RefundsAreBacked'
<1>1. /\ refunds[id] = NoRefund
      /\ \A i \in RefundIds \ {id} : refunds'[i] = refunds[i]
      /\ refunds'[id].reference = job[s].row.reference
  BY DEF Accepts, TypeInv, TypeOK
<1>2. PaidBy(job[s].order, job[s].row.reference)
  BY DEF Accepts, BackingInv, JobBacked
<1>3. Remembers
  BY <1>1 DEF Remembers
<1>4. RefundsAreBacked'
  BY <1>1, <1>2, PaymentConstants DEF BackingInv, RefundsAreBacked, PaidBy, CheckoutOf
<1> QED BY <1>3, <1>4

\* Opening a checkout preserves the backing.
LEMMA InitializeCallBacked ==
  ASSUME TypeInv, BackingInv, NEW s \in Sessions, NEW ref \in References,
         InitializeCall(s, ref)
  PROVE  BackingInv'
<1> DEFINE j == [job[s] EXCEPT !.reference = ref]
<1>1. j.kind = "initialize" /\ j.order = job[s].order /\ j.reference = ref /\ j.row = job[s].row
  BY JobTypes DEF InitializeCall, Opens, Job
<1>2. job' = [job EXCEPT ![s] = j] /\ pc' = [pc EXCEPT ![s] = "save"]
  BY DEF InitializeCall, Opens, TypeInv, TypeOK
<1> HIDE DEF j
<1>3. /\ job'[s] = j
      /\ pc'[s] = "save"
      /\ \A t \in Sessions \ {s} : job'[t] = job[t] /\ pc'[t] = pc[t]
  BY <1>2, JobOf
<1>4. /\ charges[ref].order = None /\ ~charges[ref].paid
      /\ \A r \in References \ {ref} : charges'[r] = charges[r]
      /\ charges'[ref].order = job[s].order
  BY DEF InitializeCall, Opens, NoCharge, TypeInv, TypeOK
<1>5. Remembers /\ RefundsAreBacked'
  BY OpensRemembers DEF InitializeCall
<1>6. /\ job[s].order \in Orders
      /\ RowBacked(job[s].order, job[s].row)
      /\ job[s].row.payment = "pending"
  BY DEF InitializeCall, Opens, BackingInv, JobBacked
<1>7. ASSUME NEW o \in Orders, NEW row, RowBacked(o, row) PROVE RowBacked(o, row)'
  BY <1>5, <1>7, StaysBacked
<1>8. JobBacked(s)'
  <2>1. PICK o, row : o \in Orders /\ o = job[s].order /\ row = job[s].row
    BY <1>6
  <2>2. RowBacked(o, row)'
    BY <1>6, <1>7, <2>1
  <2>3. CheckoutOf(o, ref)'
    BY <1>4, <2>1 DEF CheckoutOf
  <2>4. /\ job'[s].order = o /\ job'[s].row = row
        /\ row.payment = "pending" /\ o \in Orders
    BY <1>1, <1>3, <1>6, <2>1
  <2> QED BY <1>1, <1>3, <2>2, <2>3, <2>4 DEF JobBacked
<1> QED
  BY <1>3, <1>5, <1>8, BackedOfOne DEF InitializeCall, Opens

\* Taking up a refund preserves the backing.
LEMMA RefundCallBacked ==
  ASSUME TypeInv, BackingInv, NEW s \in Sessions, NEW id \in RefundIds, RefundCall(s, id)
  PROVE  BackingInv'
<1> DEFINE j == [job[s] EXCEPT !.refund = id]
<1>1. j.kind = "refund" /\ j.order = job[s].order /\ j.refund = id
  BY JobTypes DEF RefundCall, Accepts, Job
<1>2. job' = [job EXCEPT ![s] = j] /\ pc' = [pc EXCEPT ![s] = "read"]
  BY DEF RefundCall, Accepts, TypeInv, TypeOK
<1> HIDE DEF j
<1>3. /\ job'[s] = j
      /\ pc'[s] = "read"
      /\ \A t \in Sessions \ {s} : job'[t] = job[t] /\ pc'[t] = pc[t]
  BY <1>2, JobOf
<1>4. /\ refunds[id] = NoRefund
      /\ \A i \in RefundIds \ {id} : refunds'[i] = refunds[i]
      /\ refunds'[id].reference = job[s].row.reference
      /\ refunds'[id].state = "queued"
      /\ charges' = charges
  BY DEF RefundCall, Accepts, TypeInv, TypeOK
<1>5. refunds'[id] # NoRefund
  BY <1>4 DEF NoRefund
<1>6. Remembers /\ RefundsAreBacked'
  BY AcceptsRemembers DEF RefundCall
<1>7. PaidBy(job[s].order, job[s].row.reference)
  BY DEF RefundCall, Accepts, BackingInv, JobBacked
<1>8. JobBacked(s)'
  BY <1>1, <1>3, <1>4, <1>5, <1>7 DEF JobBacked, PaidBy, RefundFor, CheckoutOf
<1> QED
  BY <1>3, <1>6, <1>8, BackedOfOne DEF RefundCall, Accepts

\* The sessions preserve the backing.
LEMMA ServeBacked ==
  ASSUME TypeInv, BackingInv, NEW s \in Sessions, Serve(s)
  PROVE  BackingInv'
<1>1. CASE CallFails(s)
  BY <1>1, NothingBacked DEF CallFails
<1>2. ASSUME pc[s] = "read", ReadRow(s), job[s].kind # "initialize",
             job[s].kind # "refund hook" \/ job[s].order \in Orders
      PROVE  BackingInv'
  <2>1. job[s].order \in Orders
    BY <1>2 DEF TypeInv, Shape, JobShape
  <2> QED BY <1>2, <2>1, ReadRowBacked
<1>3. CASE PaidRead(s)
  BY <1>2, <1>3, NothingBacked DEF PaidRead
<1>4. CASE MarkRead(s)
  BY <1>2, <1>4 DEF MarkRead
<1>5. CASE RefundHookRead(s)
  BY <1>2, <1>5, NothingBacked, JobTypes DEF RefundHookRead
<1> QED
  BY <1>1, <1>3, <1>4, <1>5, InitializeCallBacked, RefundCallBacked, SaveBacked DEF Serve

\* Paystack preserves the backing.
LEMMA PaystackBacked ==
  ASSUME TypeInv, BackingInv, Paystack
  PROVE  BackingInv'
<1>1. ASSUME Remembers, UNCHANGED <<orders, pc, job>>, RefundsAreBacked'
      PROVE  BackingInv'
  <2>1. \A o \in Orders : RowBacked(o, orders[o])'
    BY <1>1, StaysBacked DEF BackingInv
  <2>2. \A t \in Sessions : JobBacked(t)'
    BY <1>1, RestStaysBacked DEF BackingInv
  <2> QED BY <1>1, <2>1, <2>2 DEF BackingInv
<1>2. ASSUME NEW ref \in References, CustomerPays(ref) PROVE BackingInv'
  <2>1. /\ refunds' = refunds
        /\ \A r \in References : /\ charges'[r].order = charges[r].order
                                 /\ charges[r].paid => charges'[r].paid
    BY <1>2 DEF CustomerPays, TypeInv, TypeOK
  <2>2. Remembers
    BY <2>1 DEF Remembers
  <2>3. RefundsAreBacked'
    BY <2>1 DEF BackingInv, RefundsAreBacked, TypeInv, TypeOK
  <2> QED BY <1>1, <1>2, <2>2, <2>3 DEF CustomerPays
<1>3. ASSUME NEW id \in RefundIds, NEW outcome \in {"processed", "failed"},
             RefundSettles(id, outcome)
      PROVE  BackingInv'
  <2>1. /\ charges' = charges
        /\ \A i \in RefundIds \ {id} : refunds'[i] = refunds[i]
        /\ refunds'[id].reference = refunds[id].reference
        /\ refunds'[id].state = outcome
        /\ refunds[id].state = "queued"
    BY <1>3 DEF RefundSettles, TypeInv, TypeOK
  <2>2. refunds'[id] # NoRefund /\ refunds[id] # NoRefund
    BY <2>1 DEF NoRefund
  <2>3. Remembers
    BY <2>1, <2>2 DEF Remembers
  <2>4. RefundsAreBacked'
    BY <2>1, <2>2 DEF BackingInv, RefundsAreBacked
  <2> QED BY <1>1, <1>3, <2>3, <2>4 DEF RefundSettles
<1> QED
  BY <1>2, <1>3 DEF Paystack

\* What goes wrong preserves the backing: what Paystack did for a handler that is told
\* nothing of it was asked for with a backed row all the same.
LEMMA FailureBacked ==
  ASSUME TypeInv, BackingInv, NEW s \in Sessions, Failure(s)
  PROVE  BackingInv'
<1>1. ASSUME GiveUp(s)
      PROVE  /\ JobBacked(s)'
             /\ \A t \in Sessions \ {s} : job'[t] = job[t] /\ pc'[t] = pc[t]
  <2>1. /\ pc'[s] = "idle"
        /\ \A t \in Sessions \ {s} : job'[t] = job[t] /\ pc'[t] = pc[t]
    BY <1>1, JobOf DEF GiveUp
  <2> QED BY <2>1 DEF JobBacked
<1>2. ASSUME StatementFails(s) PROVE BackingInv'
  BY <1>1, <1>2, BackedOfHandler DEF StatementFails
<1>3. ASSUME NEW ref \in References, InitializeUnanswered(s, ref) PROVE BackingInv'
  <2>1. Remembers /\ RefundsAreBacked'
    BY <1>3, OpensRemembers DEF InitializeUnanswered
  <2> QED BY <1>1, <1>3, <2>1, BackedOfOne DEF InitializeUnanswered
<1>4. ASSUME NEW id \in RefundIds, RefundUnanswered(s, id) PROVE BackingInv'
  <2>1. Remembers /\ RefundsAreBacked'
    BY <1>4, AcceptsRemembers DEF RefundUnanswered
  <2> QED BY <1>1, <1>4, <2>1, BackedOfOne DEF RefundUnanswered
<1>5. ASSUME NEW id \in RefundIds, LookupFails(s, id) PROVE BackingInv'
  BY <1>5 DEF LookupFails, BackingInv, RowBacked, PaidBy, RefundFor, CheckoutOf,
              RefundsAreBacked, JobBacked
<1> QED BY <1>2, <1>3, <1>4, <1>5 DEF Failure

\* Every step preserves the backing.
LEMMA StepBacked == TypeInv /\ BackingInv /\ [Next]_vars => BackingInv'
<1> SUFFICES ASSUME TypeInv, BackingInv, [Next]_vars PROVE BackingInv'
  OBVIOUS
<1>1. CASE UNCHANGED vars
  BY <1>1 DEF vars, BackingInv, RowBacked, PaidBy, RefundFor, CheckoutOf, RefundsAreBacked,
              JobBacked
<1>2. CASE Crash
  <2>1. \A s \in Sessions : JobBacked(s)'
    BY <1>2 DEF Crash, JobBacked
  <2>2. \A o \in Orders : RowBacked(o, orders[o])'
    BY <1>2 DEF Crash, BackingInv, RowBacked, PaidBy, RefundFor, CheckoutOf
  <2>3. RefundsAreBacked'
    BY <1>2 DEF Crash, BackingInv, RefundsAreBacked
  <2> QED BY <2>1, <2>2, <2>3 DEF BackingInv
<1> QED
  BY <1>1, <1>2, ClientBacked, WebhookBacked, ServeBacked, PaystackBacked, FailureBacked
  DEF Next

\* In every reachable state what rows and handlers say of Paystack is so.
THEOREM BackingHolds == Spec => []BackingInv
  BY InitTypes, InitBacked, StepBacked, TypesHold, PTL DEF Spec

\* PaidIsBacked: a paid order carries a reference Paystack was paid for, for that order.
THEOREM PaidOrdersAreBacked == Spec => []PaidIsBacked
<1>1. TypeInv /\ BackingInv => PaidIsBacked
  <2> SUFFICES ASSUME TypeInv, BackingInv, NEW o \in Orders, orders[o].payment = "paid"
               PROVE  /\ orders[o].paystack
                      /\ orders[o].reference # None
                      /\ charges[orders[o].reference] = [order |-> o, paid |-> TRUE]
    BY DEF PaidIsBacked
  <2>1. orders[o].paystack /\ PaidBy(o, orders[o].reference)
    BY DEF BackingInv, RowBacked
  <2>2. /\ orders[o].reference \in References
        /\ charges[orders[o].reference] \in Charge
        /\ charges[orders[o].reference].order = o
        /\ charges[orders[o].reference].paid
    BY <2>1 DEF PaidBy, CheckoutOf, TypeInv, TypeOK, Charge
  <2>3. charges[orders[o].reference].paid = TRUE
    BY <2>2 DEF Charge
  <2> QED BY <2>1, <2>2, <2>3, PaymentConstants DEF Charge
<1> QED
  BY <1>1, TypesHold, BackingHolds, PTL

\* RefundsAreBacked: what Paystack is asked to pay back has been paid.
THEOREM RefundsStayBacked == Spec => []RefundsAreBacked
<1>1. BackingInv => RefundsAreBacked
  BY DEF BackingInv
<1> QED
  BY <1>1, BackingHolds, PTL

\* RefundedIsBacked: a refunded order names a refund of a payment of that order.
THEOREM RefundedOrdersAreBacked == Spec => []RefundedIsBacked
<1>1. BackingInv => RefundedIsBacked
  BY PaymentConstants DEF BackingInv, RowBacked, RefundFor, CheckoutOf, RefundedIsBacked
<1> QED
  BY <1>1, BackingHolds, PTL
-----------------------------------------------------------------------------
(* One refund for one payment. *)

\* Between Paystack's answer, which named this refund, and markOrderRefunded's save.
MarkingAs(s, o, id) == Marking(s, o) /\ job[s].refund = id

\* The row a handler holds has the refund its order has, unless another handler came in
\* between; a refund is asked for with a row that has none.
RowCurrent(s) ==
  pc[s] \in {"call", "save"} =>
    /\ job[s].order \in overtaken \/ job[s].row.refund = orders[job[s].order].refund
    /\ job[s].kind = "refund" /\ pc[s] = "call" => job[s].row.refund = None

\* A refund that counts: of this order, and not one its handler never marked.
Counts(o, id) == o \notin overtaken /\ id \notin unmarked /\ RefundFor(o, id)

\* An order has one refund that counts, and names a refund unless it is about to.
OnlyRefund ==
  /\ \A o \in Orders, id \in RefundIds :
       Counts(o, id) =>
         orders[o].refund # None \/ \E s \in Sessions : MarkingAs(s, o, id)
  /\ \A o \in Orders, id, other \in RefundIds :
       Counts(o, id) /\ Counts(o, other) => id = other
  /\ \A s \in Sessions : RowCurrent(s)

\* A step in which Paystack takes no refund, or takes one whose answer is lost.
NoNewRefund ==
  \A id \in RefundIds :
    refunds'[id] # NoRefund => refunds[id] # NoRefund \/ id \in unmarked'

HistoryGrows == overtaken \subseteq overtaken' /\ unmarked \subseteq unmarked'

\* In such a step no refund comes to count.
LEMMA RefundsWereThere ==
  ASSUME TypeInv, BackingInv, Remembers, NoNewRefund, HistoryGrows
  PROVE  \A o \in Orders, id \in RefundIds : Counts(o, id)' => Counts(o, id)
<1> SUFFICES ASSUME NEW o \in Orders, NEW id \in RefundIds, Counts(o, id)'
             PROVE  Counts(o, id)
  OBVIOUS
<1>1. o \notin overtaken /\ id \notin unmarked
  BY DEF Counts, HistoryGrows
<1>2. refunds[id] # NoRefund /\ refunds'[id].reference = refunds[id].reference
  BY DEF Counts, RefundFor, NoNewRefund, Remembers
<1>3. PICK ref : ref = refunds[id].reference
  OBVIOUS
<1>4. ref \in References /\ charges'[ref].order = o
  BY <1>2, <1>3 DEF Counts, RefundFor, CheckoutOf
<1>5. charges[ref].paid /\ charges[ref].order \in Orders
  BY <1>2, <1>3, <1>4 DEF BackingInv, RefundsAreBacked, TypeInv, Shape
<1>6. charges[ref].order = o
  BY <1>4, <1>5, PaymentConstants DEF Remembers
<1> QED BY <1>1, <1>2, <1>3, <1>4, <1>6 DEF Counts, RefundFor, CheckoutOf

\* When no refund comes to count, the orders keep their refunds, and whoever stops
\* marking an order has marked it or leaves an unmarked refund.
LEMMA OnlyOfStep ==
  ASSUME TypeInv, BackingInv, OnlyRefund, Remembers, NoNewRefund, HistoryGrows,
         \A t \in Sessions : RowCurrent(t)',
         \A o \in Orders \ overtaken' : orders[o].refund # None => orders'[o].refund # None,
         \A o \in Orders \ overtaken', id \in RefundIds, t \in Sessions :
           MarkingAs(t, o, id) =>
             MarkingAs(t, o, id)' \/ orders'[o].refund # None \/ id \in unmarked'
  PROVE  OnlyRefund'
<1>1. \A o \in Orders, id \in RefundIds : Counts(o, id)' => Counts(o, id)
  BY RefundsWereThere
<1>2. ASSUME NEW o \in Orders, NEW id \in RefundIds, Counts(o, id)'
      PROVE  orders'[o].refund # None \/ \E t \in Sessions : MarkingAs(t, o, id)'
  <2>1. o \in Orders \ overtaken' /\ id \notin unmarked'
    BY <1>2 DEF Counts
  <2>2. orders[o].refund # None \/ \E t \in Sessions : MarkingAs(t, o, id)
    BY <1>1, <1>2 DEF OnlyRefund
  <2> QED BY <2>1, <2>2
<1>3. \A o \in Orders, id, other \in RefundIds :
        Counts(o, id)' /\ Counts(o, other)' => id = other
  BY <1>1 DEF OnlyRefund
<1> QED BY <1>2, <1>3 DEF OnlyRefund

\* A step of one session that changes no order.
LEMMA OnlyOfOne ==
  ASSUME TypeInv, BackingInv, OnlyRefund, Remembers, NoNewRefund, HistoryGrows,
         orders' = orders, NEW s \in Sessions, RowCurrent(s)',
         \A t \in Sessions \ {s} : job'[t] = job[t] /\ pc'[t] = pc[t],
         \A o \in Orders, id \in RefundIds :
           MarkingAs(s, o, id) => MarkingAs(s, o, id)' \/ id \in unmarked'
  PROVE  OnlyRefund'
<1>1. ASSUME NEW t \in Sessions, t # s PROVE RowCurrent(t)'
  <2>1. RowCurrent(t) /\ job'[t] = job[t] /\ pc'[t] = pc[t]
    BY <1>1 DEF OnlyRefund
  <2> QED BY <2>1 DEF RowCurrent, HistoryGrows
<1>2. ASSUME NEW t \in Sessions, t # s, NEW o \in Orders, NEW id \in RefundIds,
             MarkingAs(t, o, id)
      PROVE  MarkingAs(t, o, id)'
  BY <1>2 DEF MarkingAs, Marking
<1> QED BY <1>1, <1>2, OnlyOfStep

\* A step of one handler that leaves the orders and Paystack alone.
LEMMA OnlyOfHandler ==
  ASSUME TypeInv, BackingInv, OnlyRefund, HistoryGrows, NEW s \in Sessions,
         UNCHANGED <<orders, charges, refunds>>, RowCurrent(s)',
         \A t \in Sessions \ {s} : job'[t] = job[t] /\ pc'[t] = pc[t],
         \A o \in Orders, id \in RefundIds :
           MarkingAs(s, o, id) => MarkingAs(s, o, id)' \/ id \in unmarked'
  PROVE  OnlyRefund'
<1>1. Remembers /\ NoNewRefund
  BY DEF Remembers, NoNewRefund
<1> QED BY <1>1, OnlyOfOne

LEMMA BeginOnly ==
  ASSUME TypeInv, BackingInv, OnlyRefund, NEW s \in Sessions, NEW next,
         NEW kind, NEW o \in Orders, NEW amount, Begin(s, next, kind, o, amount),
         kind = "refund" => Refundable(orders[o])
  PROVE  OnlyRefund'
<1> DEFINE j == [IdleJob EXCEPT !.kind = kind, !.order = o, !.amount = amount,
                                !.row = orders[o]]
<1>1. j.kind = kind /\ j.order = o /\ j.row = orders[o]
  BY DEF IdleJob
<1>2. /\ job' = [job EXCEPT ![s] = j] /\ pc' = [pc EXCEPT ![s] = next] /\ pc[s] = "idle"
      /\ HistoryGrows
  BY DEF Begin, Request, HistoryGrows
<1> HIDE DEF j
<1>3. /\ job'[s] = j /\ UNCHANGED <<orders, charges, refunds>>
      /\ \A t \in Sessions \ {s} : job'[t] = job[t] /\ pc'[t] = pc[t]
  BY <1>2, JobOf DEF Begin
<1>4. RowCurrent(s)'
  BY <1>1, <1>3 DEF RowCurrent, Refundable
<1>5. \A id \in RefundIds, owner \in Orders : ~MarkingAs(s, owner, id)
  BY <1>2 DEF MarkingAs, Marking
<1> QED BY <1>2, <1>3, <1>4, <1>5, OnlyOfHandler

\* A request that begins by asking Paystack.
LEMMA HeardOnly ==
  ASSUME TypeInv, BackingInv, OnlyRefund, NEW s \in Sessions, NEW j,
         pc[s] = "idle", pc' = [pc EXCEPT ![s] = "read"], job' = [job EXCEPT ![s] = j],
         UNCHANGED <<orders, charges, refunds, history>>
  PROVE  OnlyRefund'
<1>1. pc'[s] = "read" /\ \A t \in Sessions \ {s} : job'[t] = job[t] /\ pc'[t] = pc[t]
  BY JobOf
<1>2. HistoryGrows /\ RowCurrent(s)'
  BY <1>1 DEF HistoryGrows, RowCurrent
<1>3. \A id \in RefundIds, o \in Orders : ~MarkingAs(s, o, id)
  BY DEF MarkingAs, Marking
<1> QED BY <1>1, <1>2, <1>3, OnlyOfHandler

LEMMA ArrivalOnly ==
  ASSUME TypeInv, BackingInv, OnlyRefund, NEW s \in Sessions, Client(s) \/ Webhook(s)
  PROVE  OnlyRefund'
<1>1. ASSUME NEW o \in Orders, InitializeRead(s, o) PROVE OnlyRefund'
  BY <1>1, BeginOnly DEF InitializeRead
<1>2. ASSUME NEW ref \in References, Verify(s, ref) PROVE OnlyRefund'
  BY <1>2, HeardOnly DEF Verify, Request
<1>3. ASSUME NEW o \in Orders, NEW amount \in Amounts, RefundRead(s, o, amount)
      PROVE  OnlyRefund'
  BY <1>3, BeginOnly DEF RefundRead
<1>4. ASSUME NEW o \in Orders, CancelRead(s, o) PROVE OnlyRefund'
  BY <1>4, BeginOnly DEF CancelRead
<1>5. ASSUME NEW o \in Orders, StatusRead(s, o) PROVE OnlyRefund'
  BY <1>5, BeginOnly DEF StatusRead
<1>6. ASSUME NEW ref \in References, ChargeHook(s, ref) PROVE OnlyRefund'
  BY <1>6, HeardOnly DEF ChargeHook, Hook, Delivery, Request
<1>7. ASSUME NEW id \in RefundIds, RefundHook(s, id) PROVE OnlyRefund'
  BY <1>7, HeardOnly DEF RefundHook, Hook, Delivery, Request
<1> QED BY <1>1, <1>2, <1>3, <1>4, <1>5, <1>6, <1>7 DEF Client, Webhook

\* A request that ends without a save was not marking an order.
LEMMA NothingOnly ==
  ASSUME TypeInv, BackingInv, OnlyRefund, NEW s \in Sessions, NothingToDo(s),
         pc[s] = "call" \/ job[s].kind # "refund"
  PROVE  OnlyRefund'
<1>1. /\ pc'[s] = "idle" /\ UNCHANGED <<orders, charges, refunds>> /\ HistoryGrows
      /\ \A t \in Sessions \ {s} : job'[t] = job[t] /\ pc'[t] = pc[t]
  BY JobOf DEF NothingToDo, Finish, HistoryGrows
<1>2. RowCurrent(s)'
  BY <1>1 DEF RowCurrent
<1>3. \A id \in RefundIds, o \in Orders : ~MarkingAs(s, o, id)
  BY DEF MarkingAs, Marking
<1> QED BY <1>1, <1>2, <1>3, OnlyOfHandler

LEMMA ReadRowOnly ==
  ASSUME TypeInv, BackingInv, OnlyRefund, NEW s \in Sessions, ReadRow(s)
  PROVE  OnlyRefund'
<1> DEFINE j == [job[s] EXCEPT !.row = orders[job[s].order]]
<1>1. /\ j.row = orders[job[s].order] /\ j.order = job[s].order
      /\ j.kind = job[s].kind /\ j.refund = job[s].refund
  BY JobTypes DEF Job
<1>2. /\ job' = [job EXCEPT ![s] = j] /\ pc' = [pc EXCEPT ![s] = "save"]
      /\ UNCHANGED <<orders, charges, refunds>> /\ HistoryGrows
  BY DEF ReadRow, HistoryGrows, TypeInv, TypeOK
<1> HIDE DEF j
<1>3. /\ job'[s] = j /\ pc'[s] = "save"
      /\ \A t \in Sessions \ {s} : job'[t] = job[t] /\ pc'[t] = pc[t]
  BY <1>2, JobOf
<1>4. RowCurrent(s)'
  BY <1>1, <1>2, <1>3 DEF RowCurrent
<1>5. \A id \in RefundIds, o \in Orders : MarkingAs(s, o, id) => MarkingAs(s, o, id)'
  BY <1>1, <1>3 DEF MarkingAs, Marking
<1> QED BY <1>2, <1>3, <1>4, <1>5, OnlyOfHandler

\* An order keeps the refund it has, or gets the one a handler holds.
LEMMA SaveOnly ==
  ASSUME TypeInv, BackingInv, OnlyRefund, NEW s \in Sessions, NEW status, Save(s, status)
  PROVE  OnlyRefund'
<1> DEFINE saved == job[s].order
<1>1. /\ pc[s] = "save" /\ pc'[s] = "idle" /\ UNCHANGED <<charges, refunds, unmarked>>
      /\ orders' = [orders EXCEPT ![saved] = SavedRow(s, status)]
      /\ \A t \in Sessions \ {s} : job'[t] = job[t] /\ pc'[t] = pc[t]
  BY JobOf DEF Save, Finish
<1>2. Remembers /\ NoNewRefund /\ HistoryGrows
  BY <1>1 DEF Remembers, NoNewRefund, HistoryGrows, Save
<1>3. saved \in Orders /\ job[s].row \in OrderRow /\ job[s].kind \in Jobs
  BY <1>1, JobTypes DEF BackingInv, JobBacked, TypeInv, Shape, JobShape
<1>4. saved \in overtaken \/ job[s].row.refund = orders[saved].refund
  BY <1>1 DEF OnlyRefund, RowCurrent
<1>5. job[s].kind \in {"refund", "refund hook"} => job[s].refund # None
  BY <1>1, <1>3, PaymentConstants DEF BackingInv, JobBacked, RefundFor
<1>6. IF job[s].kind \in {"refund", "refund hook"}
      THEN SavedRow(s, status).refund = job[s].refund
      ELSE SavedRow(s, status).refund = job[s].row.refund
  BY <1>3
  DEF SavedRow, Jobs, InitializedRow, PaidRow, MarkedRefunded, HookRefunded, OrderRow
<1>7. \A o \in Orders : orders'[o] = IF o = saved THEN SavedRow(s, status) ELSE orders[o]
  BY <1>1, <1>3 DEF TypeInv, TypeOK
<1>8. ASSUME NEW o \in Orders \ overtaken', orders[o].refund # None
      PROVE  orders'[o].refund # None
  <2>1. o \notin overtaken
    BY <1>2, <1>8 DEF HistoryGrows
  <2> QED BY <1>4, <1>5, <1>6, <1>7, <1>8, <2>1
<1>9. ASSUME NEW o \in Orders, NEW id \in RefundIds, NEW t \in Sessions,
             MarkingAs(t, o, id)
      PROVE  MarkingAs(t, o, id)' \/ orders'[o].refund # None
  <2>1. CASE t = s
    BY <1>5, <1>6, <1>7, <1>9, <2>1 DEF MarkingAs, Marking
  <2>2. CASE t # s
    BY <1>1, <1>9, <2>2 DEF MarkingAs, Marking
  <2> QED BY <2>1, <2>2
<1>10. ASSUME NEW t \in Sessions PROVE RowCurrent(t)'
  <2>1. CASE t = s
    BY <1>1, <2>1 DEF RowCurrent
  <2>2. CASE t # s
    <3>1. RowCurrent(t) /\ job'[t] = job[t] /\ pc'[t] = pc[t]
      BY <1>1, <2>2 DEF OnlyRefund
    <3>2. CASE job[t].order = saved /\ pc[t] \in {"call", "save"}
      <4>1. HoldsRow(t, saved)
        BY <3>2 DEF HoldsRow
      <4>2. saved \in overtaken'
        BY <1>3, <2>2, <4>1 DEF Save
      <4> QED BY <3>1, <3>2, <4>2 DEF RowCurrent
    <3>3. CASE job[t].order # saved /\ pc[t] \in {"call", "save"}
      <4>1. job[t].order \in Orders
        BY <3>3 DEF BackingInv, JobBacked
      <4>2. orders'[job[t].order] = orders[job[t].order]
        BY <1>7, <3>3, <4>1
      <4> QED BY <1>2, <3>1, <4>2 DEF RowCurrent, HistoryGrows
    <3> QED BY <3>1, <3>2, <3>3 DEF RowCurrent
  <2> QED BY <2>1, <2>2
<1> QED BY <1>2, <1>8, <1>9, <1>10, OnlyOfStep

LEMMA InitializeCallOnly ==
  ASSUME TypeInv, BackingInv, OnlyRefund, NEW s \in Sessions, NEW ref \in References,
         InitializeCall(s, ref)
  PROVE  OnlyRefund'
<1> DEFINE j == [job[s] EXCEPT !.reference = ref]
<1>1. j.row = job[s].row /\ j.order = job[s].order
  BY JobTypes DEF Job
<1>2. /\ job' = [job EXCEPT ![s] = j] /\ pc' = [pc EXCEPT ![s] = "save"]
      /\ UNCHANGED <<orders, refunds>> /\ HistoryGrows
      /\ pc[s] = "call" /\ Opens(s, ref)
  BY DEF InitializeCall, Opens, HistoryGrows, TypeInv, TypeOK
<1> HIDE DEF j
<1>3. /\ job'[s] = j /\ pc'[s] = "save"
      /\ \A t \in Sessions \ {s} : job'[t] = job[t] /\ pc'[t] = pc[t]
  BY <1>2, JobOf
<1>4. RowCurrent(s)'
  BY <1>1, <1>2, <1>3 DEF OnlyRefund, RowCurrent, HistoryGrows
<1>5. Remembers /\ NoNewRefund
  BY <1>2, OpensRemembers DEF NoNewRefund
<1>6. \A id \in RefundIds, o \in Orders : ~MarkingAs(s, o, id)
  BY <1>2 DEF MarkingAs, Marking
<1> QED BY <1>2, <1>3, <1>4, <1>5, <1>6, OnlyOfOne

\* Paystack takes a refund of an order that had none to count.
LEMMA RefundCallOnly ==
  ASSUME TypeInv, BackingInv, OnlyRefund, NEW s \in Sessions, NEW id \in RefundIds,
         RefundCall(s, id)
  PROVE  OnlyRefund'
<1> DEFINE j == [job[s] EXCEPT !.refund = id]
           o == job[s].order
<1>1. j.kind = job[s].kind /\ j.order = o /\ j.refund = id
  BY JobTypes DEF Job
<1>2. /\ job' = [job EXCEPT ![s] = j] /\ pc' = [pc EXCEPT ![s] = "read"]
      /\ UNCHANGED <<orders, charges, unmarked>> /\ HistoryGrows
      /\ pc[s] = "call" /\ job[s].kind = "refund"
  BY DEF RefundCall, Accepts, HistoryGrows, TypeInv, TypeOK
<1> HIDE DEF j
<1>3. /\ job'[s] = j /\ pc'[s] = "read"
      /\ \A t \in Sessions \ {s} : job'[t] = job[t] /\ pc'[t] = pc[t]
  BY <1>2, JobOf
<1>4. o \in Orders /\ CheckoutOf(o, job[s].row.reference)
  BY <1>2 DEF BackingInv, JobBacked, PaidBy
<1>5. /\ refunds'[id].reference = job[s].row.reference
      /\ \A other \in RefundIds \ {id} : refunds'[other] = refunds[other]
  BY DEF RefundCall, Accepts, TypeInv, TypeOK
<1>6. ASSUME NEW other \in RefundIds, o \notin overtaken' PROVE ~Counts(o, other)
  <2>1. o \notin overtaken
    BY <1>2, <1>6 DEF HistoryGrows
  <2>2. orders[o].refund = None
    BY <1>2, <2>1 DEF OnlyRefund, RowCurrent
  <2>3. \A t \in Sessions \ {s} : ~Marking(t, o)
    BY <1>4, <1>6 DEF RefundCall
  <2>4. ~Marking(s, o)
    BY <1>2 DEF Marking
  <2> QED BY <1>4, <2>2, <2>3, <2>4 DEF OnlyRefund, MarkingAs
<1>7. ASSUME NEW owner \in Orders, NEW other \in RefundIds, Counts(owner, other)'
      PROVE  (owner = o /\ other = id) \/ (owner # o /\ Counts(owner, other))
  <2>1. owner \notin overtaken' /\ owner \notin overtaken /\ other \notin unmarked
    BY <1>2, <1>7 DEF Counts, HistoryGrows
  <2>2. CASE other = id
    BY <1>2, <1>4, <1>5, <1>7, <2>2 DEF Counts, RefundFor, CheckoutOf
  <2>3. CASE other # id
    <3>1. Counts(owner, other)
      BY <1>2, <1>5, <1>7, <2>1, <2>3 DEF Counts, RefundFor, CheckoutOf
    <3> QED BY <1>6, <2>1, <3>1
  <2> QED BY <2>2, <2>3
<1>8. ASSUME NEW t \in Sessions PROVE RowCurrent(t)'
  <2>1. CASE t = s
    BY <1>3, <2>1 DEF RowCurrent
  <2>2. CASE t # s
    <3>1. RowCurrent(t) /\ job'[t] = job[t] /\ pc'[t] = pc[t]
      BY <1>3, <2>2 DEF OnlyRefund
    <3> QED BY <1>2, <3>1 DEF RowCurrent, HistoryGrows
  <2> QED BY <2>1, <2>2
<1>9. ASSUME NEW owner \in Orders, NEW other \in RefundIds, Counts(owner, other)'
       PROVE  orders'[owner].refund # None \/ \E t \in Sessions : MarkingAs(t, owner, other)'
  <2>1. CASE owner = o /\ other = id
    <3>1. MarkingAs(s, owner, other)'
      BY <1>1, <1>2, <1>3, <2>1 DEF MarkingAs, Marking
    <3> QED BY <3>1
  <2>2. CASE owner # o /\ Counts(owner, other)
    <3>1. \/ orders[owner].refund # None
          \/ \E t \in Sessions : MarkingAs(t, owner, other)
      BY <2>2 DEF OnlyRefund
    <3>2. ASSUME NEW t \in Sessions, MarkingAs(t, owner, other)
          PROVE  MarkingAs(t, owner, other)'
      <4>1. t # s
        BY <1>2, <3>2 DEF MarkingAs, Marking
      <4> QED BY <1>3, <3>2, <4>1 DEF MarkingAs, Marking
    <3> QED BY <1>2, <3>1, <3>2
  <2> QED BY <1>7, <1>9, <2>1, <2>2
<1>10. ASSUME NEW owner \in Orders, NEW x \in RefundIds, NEW y \in RefundIds,
              Counts(owner, x)', Counts(owner, y)'
       PROVE  x = y
  BY <1>7, <1>10 DEF OnlyRefund
<1> QED BY <1>8, <1>9, <1>10 DEF OnlyRefund

LEMMA ServeOnly ==
  ASSUME TypeInv, BackingInv, OnlyRefund, NEW s \in Sessions, Serve(s)
  PROVE  OnlyRefund'
<1>1. ASSUME CallFails(s) PROVE OnlyRefund'
  BY <1>1, NothingOnly DEF CallFails
<1>2. ASSUME PaidRead(s) PROVE OnlyRefund'
  BY <1>2, NothingOnly, ReadRowOnly DEF PaidRead
<1>3. ASSUME MarkRead(s) PROVE OnlyRefund'
  BY <1>3, ReadRowOnly DEF MarkRead
<1>4. ASSUME RefundHookRead(s) PROVE OnlyRefund'
  BY <1>4, NothingOnly, ReadRowOnly DEF RefundHookRead
<1> QED
  BY <1>1, <1>2, <1>3, <1>4, InitializeCallOnly, RefundCallOnly, SaveOnly DEF Serve

\* What a session that is cut off has had accepted counts no more.
LEMMA CutOffUnmarked ==
  ASSUME NEW cut, CutOff(cut)
  PROVE  /\ unmarked \subseteq unmarked'
         /\ \A s \in cut, o \in Orders, id \in RefundIds :
              MarkingAs(s, o, id) => id \in unmarked'
<1>1. unmarked \subseteq unmarked'
  BY DEF CutOff
<1>2. ASSUME NEW s \in cut, NEW o \in Orders, NEW id \in RefundIds, MarkingAs(s, o, id)
      PROVE  id \in unmarked'
  BY <1>2 DEF CutOff, MarkingAs, Marking
<1> QED BY <1>1, <1>2

LEMMA FailureOnly ==
  ASSUME TypeInv, BackingInv, OnlyRefund, NEW s \in Sessions, Failure(s)
  PROVE  OnlyRefund'
<1>1. ASSUME GiveUp(s)
      PROVE  /\ RowCurrent(s)'
             /\ \A t \in Sessions \ {s} : job'[t] = job[t] /\ pc'[t] = pc[t]
  <2>1. /\ pc'[s] = "idle"
        /\ \A t \in Sessions \ {s} : job'[t] = job[t] /\ pc'[t] = pc[t]
    BY <1>1, JobOf DEF GiveUp
  <2> QED BY <2>1 DEF RowCurrent
<1>2. pc[s] = "call" => \A o \in Orders, id \in RefundIds : ~MarkingAs(s, o, id)
  BY DEF MarkingAs, Marking
<1>3. ASSUME StatementFails(s) PROVE OnlyRefund'
  <2>1. CutOff({s}) /\ GiveUp(s) /\ UNCHANGED <<orders, charges, refunds, overtaken>>
    BY <1>3 DEF StatementFails
  <2>2. HistoryGrows
    BY <2>1, CutOffUnmarked DEF HistoryGrows
  <2>3. \A o \in Orders, id \in RefundIds : MarkingAs(s, o, id) => id \in unmarked'
    BY <2>1, CutOffUnmarked
  <2> QED BY <1>1, <2>1, <2>2, <2>3, OnlyOfHandler
<1>4. ASSUME NEW ref \in References, InitializeUnanswered(s, ref) PROVE OnlyRefund'
  <2>1. /\ Opens(s, ref) /\ GiveUp(s) /\ pc[s] = "call"
        /\ UNCHANGED <<orders, refunds, unmarked, overtaken>>
    BY <1>4 DEF InitializeUnanswered, Opens
  <2>2. Remembers /\ NoNewRefund /\ HistoryGrows
    BY <2>1, OpensRemembers DEF NoNewRefund, HistoryGrows
  <2> QED BY <1>1, <1>2, <2>1, <2>2, OnlyOfOne
<1>5. ASSUME NEW id \in RefundIds, RefundUnanswered(s, id) PROVE OnlyRefund'
  <2>1. /\ Accepts(s, id) /\ GiveUp(s) /\ pc[s] = "call"
        /\ unmarked' = unmarked \cup {id}
        /\ UNCHANGED <<orders, charges, overtaken>>
    BY <1>5 DEF RefundUnanswered, Accepts
  <2>2. Remembers /\ HistoryGrows
    BY <2>1, AcceptsRemembers DEF HistoryGrows
  <2>3. NoNewRefund
    BY <2>1 DEF NoNewRefund, Accepts, TypeInv, TypeOK
  <2> QED BY <1>1, <1>2, <2>1, <2>2, <2>3, OnlyOfOne
<1>6. ASSUME NEW id \in RefundIds, LookupFails(s, id) PROVE OnlyRefund'
  BY <1>6 DEF LookupFails, OnlyRefund, Counts, RefundFor, CheckoutOf, MarkingAs, Marking,
              RowCurrent
<1> QED BY <1>3, <1>4, <1>5, <1>6 DEF Failure

\* Payments and settlements change no order and begin no refund.
LEMMA PaystackOnly ==
  ASSUME TypeInv, BackingInv, OnlyRefund, Paystack
  PROVE  OnlyRefund'
<1>1. UNCHANGED <<orders, pc, job, unmarked, overtaken>>
  BY DEF Paystack, CustomerPays, RefundSettles
<1>2. Remembers /\ NoNewRefund
  <2>1. ASSUME NEW ref \in References, CustomerPays(ref) PROVE Remembers /\ NoNewRefund
    BY <2>1 DEF CustomerPays, Remembers, NoNewRefund, TypeInv, TypeOK
  <2>2. ASSUME NEW id \in RefundIds, NEW outcome \in {"processed", "failed"},
               RefundSettles(id, outcome)
        PROVE  Remembers /\ NoNewRefund
    <3>1. /\ refunds[id].state = "queued" /\ charges' = charges
          /\ refunds' = [refunds EXCEPT ![id].state = outcome]
      BY <2>2 DEF RefundSettles
    <3>2. /\ \A other \in RefundIds : refunds'[other].reference = refunds[other].reference
          /\ \A other \in RefundIds \ {id} : refunds'[other] = refunds[other]
          /\ refunds'[id].state = outcome
      BY <3>1 DEF TypeInv, TypeOK
    <3>3. refunds[id] # NoRefund /\ refunds'[id] # NoRefund
      BY <3>1, <3>2 DEF NoRefund
    <3> QED BY <3>1, <3>2, <3>3 DEF Remembers, NoNewRefund
  <2> QED BY <2>1, <2>2 DEF Paystack
<1>3. HistoryGrows /\ \A t \in Sessions : RowCurrent(t)'
  BY <1>1 DEF HistoryGrows, OnlyRefund, RowCurrent
<1>4. \A o \in Orders, id \in RefundIds, t \in Sessions :
        MarkingAs(t, o, id) => MarkingAs(t, o, id)'
  BY <1>1 DEF MarkingAs, Marking
<1> QED BY <1>1, <1>2, <1>3, <1>4, OnlyOfStep

\* The process ends: every session is idle, and marks nothing any more.
LEMMA CrashOnly ==
  ASSUME TypeInv, BackingInv, OnlyRefund, Crash
  PROVE  OnlyRefund'
<1>1. UNCHANGED <<orders, charges, refunds, overtaken>> /\ CutOff(Sessions)
  BY DEF Crash
<1>2. \A t \in Sessions : RowCurrent(t)'
  BY DEF Crash, RowCurrent
<1>3. Remembers /\ NoNewRefund
  BY <1>1 DEF Remembers, NoNewRefund
<1>4. HistoryGrows
  BY <1>1, CutOffUnmarked DEF HistoryGrows
<1>5. \A o \in Orders, id \in RefundIds, t \in Sessions :
        MarkingAs(t, o, id) => id \in unmarked'
  BY <1>1, CutOffUnmarked
<1> QED BY <1>1, <1>2, <1>3, <1>4, <1>5, OnlyOfStep

LEMMA StepOnly == TypeInv /\ BackingInv /\ OnlyRefund /\ [Next]_vars => OnlyRefund'
<1> SUFFICES ASSUME TypeInv, BackingInv, OnlyRefund, [Next]_vars PROVE OnlyRefund'
  OBVIOUS
<1>1. CASE UNCHANGED vars
  BY <1>1 DEF vars, OnlyRefund, Counts, RefundFor, CheckoutOf, MarkingAs, Marking,
              RowCurrent
<1> QED
  BY <1>1, ArrivalOnly, ServeOnly, FailureOnly, PaystackOnly, CrashOnly DEF Next

LEMMA InitOnly == Init => OnlyRefund
  BY DEF Init, OnlyRefund, Counts, RefundFor, RowCurrent

\* OneRefundPerPayment, for any number of sessions, orders, references and refunds, with
\* any crashes, failed statements and lost answers: a payment has one refund that has not
\* failed, unless handlers of its order got in each other's way, and but for the refunds
\* whose handlers ended before they marked the order.
THEOREM PaymentsAreRefundedOnce == Spec => []OneRefundPerPayment
<1>1. TypeInv /\ BackingInv /\ OnlyRefund => OneRefundPerPayment
  <2> SUFFICES ASSUME TypeInv, BackingInv, OnlyRefund, NEW ref \in References,
                      charges[ref].order \notin overtaken
               PROVE  Cardinality(Held(ref) \ unmarked) <= 1
    BY DEF OneRefundPerPayment
  <2> DEFINE held == Held(ref) \ unmarked
  <2>1. ASSUME NEW id \in held
        PROVE  id \in RefundIds /\ charges[ref].order \in Orders
                 /\ Counts(charges[ref].order, id)
    <3>1. id \in RefundIds /\ refunds[id].reference = ref /\ refunds[id] # NoRefund
      BY <2>1, PaymentConstants DEF Held, RefundsOf, NoRefund
    <3>2. charges[ref].order \in Orders
      BY <3>1 DEF BackingInv, RefundsAreBacked, TypeInv, Shape
    <3> QED BY <2>1, <3>1, <3>2 DEF Counts, RefundFor, CheckoutOf
  <2>2. \A id, other \in held : id = other
    BY <2>1 DEF OnlyRefund
  <2> HIDE DEF held
  <2>3. held = {} => Cardinality(held) <= 1
    BY FS_EmptySet
  <2>4. ASSUME NEW id \in held PROVE Cardinality(held) <= 1
    <3>1. \A other \in held : other = id
      BY <2>2, <2>4
    <3>2. held = {id}
      BY <2>4, <3>1, Zenon
    <3>3. Cardinality({id}) = 1
      BY FS_Singleton
    <3> QED BY <3>2, <3>3
  <2>5. Cardinality(held) <= 1
    BY <2>3, <2>4
  <2> QED BY <2>5 DEF held
<1>2. Spec => []OnlyRefund
  BY StepOnly, InitOnly, TypesHold, BackingHolds, PTL DEF Spec
<1> QED BY <1>1, <1>2, TypesHold, BackingHolds, PTL
=============================================================================
