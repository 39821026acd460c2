---------------------------- MODULE OrderPayments ----------------------------
(***************************************************************************)
(* Payment and refund of store orders through Paystack                     *)
(* (internal/services/payment_service.go, payment_refund.go and the parts  *)
(* of order_service.go that write the same rows).                          *)
(*                                                                         *)
(* Every handler reads an order row, may call Paystack, and saves the      *)
(* WHOLE row it read with a few columns changed; nothing locks the row in  *)
(* between.  One Save is one statement, so it is one step; the read is     *)
(* another, and other handlers, Paystack, the customer's card and a crash  *)
(* come in between.                                                        *)
(*                                                                         *)
(* Paystack is external: a checkout can be paid whenever the customer      *)
(* likes, a refund is queued and later processed or failed, and an event   *)
(* is delivered again until the webhook answers 200, and sometimes after.  *)
(***************************************************************************)
EXTENDS Integers, FiniteSets

CONSTANTS
  Sessions,      \* the goroutines that serve requests and webhooks
  Orders,
  References,    \* the payment references Initialize can make up
  RefundIds,     \* the identities Paystack gives refunds
  Statuses,      \* the statuses an administrator sets by hand
  Amounts,       \* the refund amounts asked for, of {"partial", "full"}
  MaxRequests,   \* bound: client requests and repeated webhook deliveries
  MaxCrashes,    \* bound: crashes of the API process, failed statements, lost answers
  None

OrderStatus ==
  {"pending", "confirmed", "processing", "shipped", "delivered", "cancelled"}

ASSUME PaymentConstants ==
  /\ None \notin Sessions \cup Orders \cup References \cup RefundIds
  /\ Statuses \subseteq OrderStatus
  /\ Amounts \subseteq {"partial", "full"}
  /\ MaxRequests \in Nat
  /\ MaxCrashes \in Nat

VARIABLES
  orders,     \* the order rows
  restocked,  \* per order, how often Cancel has put its lines back in stock
  charges,    \* Paystack's transactions: the order in their metadata, and paid or not
  refunds,    \* Paystack's refunds
  unacked,    \* the events Paystack has not had a 200 for
  pc,         \* where each session is in its request
  job,        \* what the request of each session is about, and the row it read
  requests,   \* requests so far
  crashes,    \* crashes, failed statements and lost answers so far
  \* History, which no action reads:
  unmarked,   \* the refunds whose handler ended before it marked the order
  overtaken,  \* the orders two of whose handlers got in each other's way
  dropped     \* the refunds whose event was answered 200 without being looked into

history == <<unmarked, overtaken, dropped>>

vars == <<orders, restocked, charges, refunds, unacked, pc, job, requests, crashes,
          unmarked, overtaken, dropped>>

-----------------------------------------------------------------------------
OrderRow ==
  [status : OrderStatus, payment : {"pending", "paid", "refunded"},
   paystack : BOOLEAN, reference : References \cup {None},
   refund : RefundIds \cup {None}]

NewOrder ==
  [status |-> "pending", payment |-> "pending", paystack |-> FALSE,
   reference |-> None, refund |-> None]

Jobs == {"initialize", "verify", "charge hook", "refund", "refund hook",
         "cancel", "status"}

IdleJob ==
  [kind |-> "none", order |-> None, reference |-> None, refund |-> None,
   amount |-> "none", row |-> NewOrder]

ChargeEvent(ref) == [of |-> "charge", id |-> ref]
RefundEvent(id) == [of |-> "refund", id |-> id]
Events == [of : {"charge"}, id : References] \cup [of : {"refund"}, id : RefundIds]

NoCharge == [order |-> None, paid |-> FALSE]
NoRefund == [reference |-> None, amount |-> "none", state |-> "none"]

TypeOK ==
  /\ orders \in [Orders -> OrderRow]
  /\ restocked \in [Orders -> Nat]
  /\ charges \in [References -> [order : Orders \cup {None}, paid : BOOLEAN]]
  /\ refunds \in [RefundIds ->
        [reference : References \cup {None}, amount : Amounts \cup {"none"},
         state : {"none", "queued", "processed", "failed"}]]
  /\ unacked \subseteq Events
  /\ pc \in [Sessions -> {"idle", "call", "read", "save"}]
  /\ job \in [Sessions ->
        [kind : Jobs \cup {"none"}, order : Orders \cup {None},
         reference : References \cup {None}, refund : RefundIds \cup {None},
         amount : Amounts \cup {"none"}, row : OrderRow]]
  /\ requests \in Nat
  /\ crashes \in Nat
  /\ unmarked \subseteq RefundIds
  /\ overtaken \subseteq Orders
  /\ dropped \subseteq RefundIds

-----------------------------------------------------------------------------
(* Requests begin and end. *)

\* s will save, or ask Paystack for, what the row of o said when it read it.
HoldsRow(s, o) == pc[s] \in {"call", "save"} /\ job[s].order = o

\* s has had a refund of o accepted, and has not marked the order yet.
Marking(s, o) ==
  pc[s] \in {"read", "save"} /\ job[s].kind = "refund" /\ job[s].order = o

Request(s) ==
  /\ pc[s] = "idle"
  /\ requests < MaxRequests
  /\ requests' = requests + 1

\* The event the webhook request of s carries.
EventOf(s) ==
  IF job[s].kind = "charge hook" THEN ChargeEvent(job[s].reference)
                                 ELSE RefundEvent(job[s].refund)

Hooks == {"charge hook", "refund hook"}

Handles(s, event) == job[s].kind \in Hooks /\ EventOf(s) = event

\* The handler returns; a webhook answers 200, and Paystack stops repeating itself.
Finish(s) ==
  /\ pc' = [pc EXCEPT ![s] = "idle"]
  /\ job' = [job EXCEPT ![s] = IdleJob]
  /\ unacked' = IF job[s].kind \in Hooks
                THEN unacked \ {EventOf(s)} ELSE unacked

\* A client's request that has read the row it is about.
Begin(s, next, kind, o, amount) ==
  /\ Request(s)
  /\ pc' = [pc EXCEPT ![s] = next]
  /\ job' = [job EXCEPT ![s] = [IdleJob EXCEPT !.kind = kind, !.order = o,
                                               !.amount = amount, !.row = orders[o]]]
  /\ UNCHANGED <<orders, restocked, charges, refunds, unacked, crashes, history>>

\* A webhook: an event nobody is handling, or one more delivery of an earlier event.
Delivery(s, event) ==
  \/ /\ event \in unacked
     /\ pc[s] = "idle"
     /\ \A t \in Sessions : ~Handles(t, event)
     /\ UNCHANGED requests
  \/ Request(s)

Hook(s, event) ==
  /\ Delivery(s, event)
  /\ UNCHANGED <<orders, restocked, charges, refunds, unacked, crashes, history>>

-----------------------------------------------------------------------------
(* The rows the handlers save, from the row they read. *)

Initializable(row) == row.payment = "pending" /\ row.status # "cancelled"

InitializedRow(row, ref) == [row EXCEPT !.paystack = TRUE, !.reference = ref]

\* markOrderPaid returns early for a paid order, and only for a paid order.
AlreadyPaid(row) == row.payment = "paid"

\* Mutant: the reference of the last checkout is kept, whichever was paid.
PaidRowKeepsReference(row, ref) ==
  [row EXCEPT !.payment = "paid", !.paystack = TRUE,
              !.status = IF @ = "pending" THEN "confirmed" ELSE @]

PaidRow(row, ref) ==
  [row EXCEPT !.payment = "paid", !.reference = ref, !.paystack = TRUE,
              !.status = IF @ = "pending" THEN "confirmed" ELSE @]

\* Mutants: each forgets one of the conditions.
RefundableUnpaid(row) ==
  row.paystack /\ row.reference # None /\ row.refund = None
RefundableAgain(row) ==
  /\ row.payment = "paid" /\ row.paystack /\ row.reference # None
  /\ row.status \notin {"shipped", "delivered"}

\* validateRefundable, and the two statuses refundOrder refuses.
Refundable(row) ==
  /\ row.payment = "paid"
  /\ row.paystack
  /\ row.reference # None
  /\ row.refund = None
  /\ row.status \notin {"shipped", "delivered"}

MarkedRefunded(row, id) ==
  [row EXCEPT !.payment = "refunded", !.refund = id, !.status = "cancelled"]

\* Mutants: a status orders do not have; the identity of the refund alone.
HookRefundedFailed(row, id) == [row EXCEPT !.payment = "failed", !.refund = id]
HookRefundedUnmarked(row, id) == [row EXCEPT !.refund = id]

\* The webhook, for refund.processed and for refund.failed alike.
HookRefunded(row, id) == [row EXCEPT !.payment = "refunded", !.refund = id]

Cancellable(row) == row.status = "pending"

\* What the request of s saves.
SavedRow(s, status) ==
  LET row == job[s].row
  IN CASE job[s].kind = "initialize" -> InitializedRow(row, job[s].reference)
       [] job[s].kind \in {"verify", "charge hook"} -> PaidRow(row, job[s].reference)
       [] job[s].kind = "refund" -> MarkedRefunded(row, job[s].refund)
       [] job[s].kind = "refund hook" -> HookRefunded(row, job[s].refund)
       [] job[s].kind = "cancel" -> [row EXCEPT !.status = "cancelled"]
       [] job[s].kind = "status" -> [row EXCEPT !.status = status]

\* The last step of every handler that changes the order.  Cancel saves inside the
\* transaction that returns the stock, so both show at its commit.
Save(s, status) ==
  /\ pc[s] = "save"
  /\ orders' = [orders EXCEPT ![job[s].order] = SavedRow(s, status)]
  /\ restocked' = IF job[s].kind = "cancel"
                  THEN [restocked EXCEPT ![job[s].order] = @ + 1] ELSE restocked
  /\ overtaken' = overtaken \cup
        {o \in Orders : o = job[s].order /\ \E t \in Sessions \ {s} : HoldsRow(t, o)}
  /\ Finish(s)
  /\ UNCHANGED <<charges, refunds, requests, crashes, unmarked, dropped>>

\* The refunds that sessions of this set have had accepted are not marked by them.
CutOff(cut) ==
  unmarked' = unmarked \cup
    {id \in RefundIds : \E s \in cut : job[s].refund = id /\ Marking(s, job[s].order)}

\* The handler returns an error; a webhook will be delivered again.
GiveUp(s) ==
  /\ crashes < MaxCrashes
  /\ crashes' = crashes + 1
  /\ pc' = [pc EXCEPT ![s] = "idle"]
  /\ job' = [job EXCEPT ![s] = IdleJob]

\* Mutant: the webhook answers 200 whatever became of the statement.
StatementFailsAcknowledged(s) ==
  /\ pc[s] \in {"read", "save"}
  /\ job[s].order # None
  /\ crashes < MaxCrashes
  /\ crashes' = crashes + 1
  /\ Finish(s)
  /\ CutOff({s})
  /\ UNCHANGED <<orders, restocked, charges, refunds, requests, overtaken, dropped>>

\* The read or the Save fails, or the stock half of Cancel does and its transaction is
\* rolled back.
StatementFails(s) ==
  /\ pc[s] \in {"read", "save"}
  /\ job[s].order # None
  /\ GiveUp(s)
  /\ CutOff({s})
  /\ UNCHANGED <<orders, restocked, charges, refunds, unacked, requests, overtaken,
                 dropped>>

\* The row is read again, or for the first time, now that the request knows what
\* Paystack says of it.
ReadRow(s) ==
  /\ pc' = [pc EXCEPT ![s] = "save"]
  /\ job' = [job EXCEPT ![s].row = orders[job[s].order]]
  /\ UNCHANGED <<orders, restocked, charges, refunds, unacked, requests, crashes,
                 history>>

NothingToDo(s) ==
  /\ Finish(s)
  /\ UNCHANGED <<orders, restocked, charges, refunds, requests, crashes, history>>

-----------------------------------------------------------------------------
(* InitializeOrderPayment *)

InitializeRead(s, o) ==
  /\ Initializable(orders[o])
  /\ Begin(s, "call", "initialize", o, "none")

\* Paystack opens a checkout.
Opens(s, ref) ==
  /\ pc[s] = "call"
  /\ job[s].kind = "initialize"
  /\ charges[ref] = NoCharge
  /\ charges' = [charges EXCEPT ![ref].order = job[s].order]

InitializeCall(s, ref) ==
  /\ Opens(s, ref)
  /\ job' = [job EXCEPT ![s].reference = ref]
  /\ pc' = [pc EXCEPT ![s] = "save"]
  /\ UNCHANGED <<orders, restocked, refunds, unacked, requests, crashes, history>>

\* The answer is lost on its way, or comes after the client's 30 seconds.
InitializeUnanswered(s, ref) ==
  /\ Opens(s, ref)
  /\ GiveUp(s)
  /\ UNCHANGED <<orders, restocked, refunds, unacked, requests, history>>

-----------------------------------------------------------------------------
(* VerifyPayment, and the charge.success webhook: markOrderPaid *)

\* A client asks; Paystack says the transaction succeeded, and for which order.
Verify(s, ref) ==
  /\ charges[ref].paid
  /\ Request(s)
  /\ pc' = [pc EXCEPT ![s] = "read"]
  /\ job' = [job EXCEPT ![s] = [IdleJob EXCEPT !.kind = "verify", !.reference = ref,
                                               !.order = charges[ref].order]]
  /\ UNCHANGED <<orders, restocked, charges, refunds, unacked, crashes, history>>

ChargeHook(s, ref) ==
  /\ charges[ref].paid
  /\ Hook(s, ChargeEvent(ref))
  /\ pc' = [pc EXCEPT ![s] = "read"]
  /\ job' = [job EXCEPT ![s] = [IdleJob EXCEPT !.kind = "charge hook",
                                               !.reference = ref,
                                               !.order = charges[ref].order]]

PaidRead(s) ==
  /\ pc[s] = "read"
  /\ job[s].kind \in {"verify", "charge hook"}
  /\ IF AlreadyPaid(orders[job[s].order]) THEN NothingToDo(s) ELSE ReadRow(s)

-----------------------------------------------------------------------------
(* RefundOrder, and the refund.processed and refund.failed webhooks *)

RefundRead(s, o, amount) ==
  /\ Refundable(orders[o])
  /\ Begin(s, "call", "refund", o, amount)

RefundsOf(ref) == {id \in RefundIds : refunds[id].reference = ref}

\* The refunds of a payment that have not failed.
Held(ref) == {id \in RefundsOf(ref) : refunds[id].state # "failed"}

\* Paystack gives no more back than was paid: one full refund, or two partial ones.
PaystackAccepts(ref, amount) ==
  \/ Held(ref) = {}
  \/ /\ amount = "partial"
     /\ Cardinality(Held(ref)) = 1
     /\ \A id \in Held(ref) : refunds[id].amount = "partial"

\* Paystack takes a refund.
Accepts(s, id) ==
  /\ pc[s] = "call"
  /\ job[s].kind = "refund"
  /\ refunds[id] = NoRefund
  /\ PaystackAccepts(job[s].row.reference, job[s].amount)
  /\ refunds' = [refunds EXCEPT ![id] = [reference |-> job[s].row.reference,
                                         amount |-> job[s].amount,
                                         state |-> "queued"]]

RefundCall(s, id) ==
  /\ Accepts(s, id)
  /\ job' = [job EXCEPT ![s].refund = id]
  /\ pc' = [pc EXCEPT ![s] = "read"]
  /\ overtaken' = overtaken \cup
        {o \in Orders : o = job[s].order /\ \E t \in Sessions \ {s} : Marking(t, o)}
  /\ UNCHANGED <<orders, restocked, charges, unacked, requests, crashes, unmarked,
                 dropped>>

\* The answer is lost: the handler returns an error, and the order stays paid.
RefundUnanswered(s, id) ==
  /\ Accepts(s, id)
  /\ GiveUp(s)
  /\ unmarked' = unmarked \cup {id}
  /\ UNCHANGED <<orders, restocked, charges, unacked, requests, overtaken, dropped>>

\* markOrderRefunded reads the order again.
MarkRead(s) ==
  /\ pc[s] = "read"
  /\ job[s].kind = "refund"
  /\ ReadRow(s)

\* resolveEntityFromReference; an unknown reference is answered with 200.
RefundHook(s, id) ==
  LET found == {o \in Orders : orders[o].reference = refunds[id].reference}
  IN /\ refunds[id].state \in {"processed", "failed"}
     /\ Hook(s, RefundEvent(id))
     /\ pc' = [pc EXCEPT ![s] = "read"]
     /\ job' = [job EXCEPT ![s] = [IdleJob EXCEPT
                  !.kind = "refund hook", !.refund = id,
                  !.order = IF found = {} THEN None ELSE CHOOSE o \in found : TRUE]]

\* Any error of that query counts as an unknown reference: 200, and the event is gone.
LookupFails(s, id) ==
  /\ refunds[id].state \in {"processed", "failed"}
  /\ Delivery(s, RefundEvent(id))
  /\ crashes < MaxCrashes
  /\ crashes' = crashes + 1
  /\ unacked' = unacked \ {RefundEvent(id)}
  /\ dropped' = dropped \cup {id}
  /\ UNCHANGED <<orders, restocked, charges, refunds, pc, job, unmarked, overtaken>>

RefundHookRead(s) ==
  /\ pc[s] = "read"
  /\ job[s].kind = "refund hook"
  /\ IF job[s].order = None THEN NothingToDo(s)
     ELSE IF orders[job[s].order].payment = "refunded" THEN NothingToDo(s)
     ELSE ReadRow(s)

\* Mutant: the order is marked whether Paystack took the refund or not.
CallFailsUnnoticed(s) ==
  /\ pc[s] = "call"
  /\ job[s].kind = "refund"
  /\ \E id \in RefundIds : /\ refunds[id] = NoRefund
                          /\ job' = [job EXCEPT ![s].refund = id]
  /\ pc' = [pc EXCEPT ![s] = "read"]
  /\ UNCHANGED <<orders, restocked, charges, refunds, unacked, requests, crashes,
                 history>>

\* Paystack refuses the call, or it does not get there: the handler returns the error.
CallFails(s) ==
  /\ pc[s] = "call"
  /\ NothingToDo(s)

-----------------------------------------------------------------------------
(* Cancel and UpdateStatus, which write the same row *)

CancelRead(s, o) ==
  /\ Cancellable(orders[o])
  /\ Begin(s, "save", "cancel", o, "none")

StatusRead(s, o) == Begin(s, "save", "status", o, "none")

-----------------------------------------------------------------------------
(* Paystack, its customers, and crashes *)

\* An open checkout is paid: in time, late, or twice for one order.
CustomerPays(ref) ==
  /\ charges[ref] # NoCharge
  /\ ~charges[ref].paid
  /\ charges' = [charges EXCEPT ![ref].paid = TRUE]
  /\ unacked' = unacked \cup {ChargeEvent(ref)}
  /\ UNCHANGED <<orders, restocked, refunds, pc, job, requests, crashes, history>>

RefundSettles(id, outcome) ==
  /\ refunds[id].state = "queued"
  /\ refunds' = [refunds EXCEPT ![id].state = outcome]
  /\ unacked' = unacked \cup {RefundEvent(id)}
  /\ UNCHANGED <<orders, restocked, charges, pc, job, requests, crashes, history>>

Crash ==
  /\ crashes < MaxCrashes
  /\ crashes' = crashes + 1
  /\ pc' = [s \in Sessions |-> "idle"]
  /\ job' = [s \in Sessions |-> IdleJob]
  /\ CutOff(Sessions)
  /\ UNCHANGED <<orders, restocked, charges, refunds, unacked, requests, overtaken,
                 dropped>>

-----------------------------------------------------------------------------
Init ==
  /\ orders = [o \in Orders |-> NewOrder]
  /\ restocked = [o \in Orders |-> 0]
  /\ charges = [ref \in References |-> NoCharge]
  /\ refunds = [id \in RefundIds |-> NoRefund]
  /\ unacked = {}
  /\ pc = [s \in Sessions |-> "idle"]
  /\ job = [s \in Sessions |-> IdleJob]
  /\ requests = 0
  /\ crashes = 0
  /\ unmarked = {}
  /\ overtaken = {}
  /\ dropped = {}

Client(s) ==
  \/ \E o \in Orders : InitializeRead(s, o)
  \/ \E ref \in References : Verify(s, ref)
  \/ \E o \in Orders, amount \in Amounts : RefundRead(s, o, amount)
  \/ \E o \in Orders : CancelRead(s, o)
  \/ \E o \in Orders : StatusRead(s, o)

Webhook(s) ==
  \/ \E ref \in References : ChargeHook(s, ref)
  \/ \E id \in RefundIds : RefundHook(s, id)

Serve(s) ==
  \/ \E ref \in References : InitializeCall(s, ref)
  \/ \E id \in RefundIds : RefundCall(s, id)
  \/ CallFails(s)
  \/ PaidRead(s)
  \/ MarkRead(s)
  \/ RefundHookRead(s)
  \/ IF job[s].kind = "status"
     THEN \E status \in Statuses : Save(s, status)
     ELSE Save(s, "pending")

Paystack ==
  \/ \E ref \in References : CustomerPays(ref)
  \/ \E id \in RefundIds, outcome \in {"processed", "failed"} :
        RefundSettles(id, outcome)

Failure(s) ==
  \/ StatementFails(s)
  \/ \E ref \in References : InitializeUnanswered(s, ref)
  \/ \E id \in RefundIds : RefundUnanswered(s, id) \/ LookupFails(s, id)

Next ==
  \/ \E s \in Sessions : Client(s) \/ Webhook(s) \/ Serve(s) \/ Failure(s)
  \/ Paystack
  \/ Crash

Spec == Init /\ [][Next]_vars

\* A handler that can go on goes on, and Paystack repeats an event until it has its
\* 200 and settles the refunds it has queued.  Nobody has to send a request or pay.
Fairness ==
  /\ \A s \in Sessions : WF_vars(Serve(s))
  /\ WF_vars(\E s \in Sessions : Webhook(s) /\ UNCHANGED requests)
  /\ WF_vars(\E id \in RefundIds, outcome \in {"processed", "failed"} :
                RefundSettles(id, outcome))

FairSpec == Spec /\ Fairness

-----------------------------------------------------------------------------
(* Properties that hold whatever interleaves. *)

\* The reference a paid order carries is one Paystack was paid for, for this very
\* order: although Initialize replaces references from stale rows and several
\* checkouts of one order may be open, no paid row ever points to an unpaid one.
PaidIsBacked ==
  \A o \in Orders :
    orders[o].payment = "paid" =>
      /\ orders[o].paystack
      /\ orders[o].reference # None
      /\ charges[orders[o].reference] = [order |-> o, paid |-> TRUE]

\* Money goes back only where money came in: CreateRefund is called with the reference
\* of a row read earlier, and what it names has been paid all the same.
RefundsAreBacked ==
  \A id \in RefundIds :
    refunds[id] # NoRefund =>
      /\ refunds[id].reference # None
      /\ charges[refunds[id].reference].paid

\* An order that says refunded names a refund Paystack has taken, of a payment of this
\* very order, although markOrderRefunded and the webhook save rows each of them read
\* for itself, and the webhook finds its order by a reference that changes.
RefundedIsBacked ==
  \A o \in Orders :
    orders[o].payment = "refunded" =>
      /\ orders[o].refund # None
      /\ refunds[orders[o].refund] # NoRefund
      /\ charges[refunds[orders[o].refund].reference].order = o

\* One payment has one refund, however many handlers read its order as paid, but for two
\* causes: two handlers of the order got in each other's way, or a refund was accepted
\* and its handler ended, with an error or its process, before it marked the order.
OneRefundPerPayment ==
  \A ref \in References :
    \/ charges[ref].order \in overtaken
    \/ Cardinality(Held(ref) \ unmarked) <= 1

\* "refund already initiated for this payment" (ErrRefundAlreadyInitiated): the same,
\* without these exceptions.
NoSecondRefund == \A ref \in References : Cardinality(Held(ref)) <= 1

\* The webhook's promise ("or rely on the webhook", docs/payments.md): an order one of
\* whose checkouts was paid does not stay pending, crashes, failed statements and
\* repeats included, unless two of its handlers got in each other's way.
ChargeIsRecorded ==
  \A ref \in References, o \in Orders :
    charges[ref] = [order |-> o, paid |-> TRUE] ~>
      \/ orders[o].payment # "pending"
      \/ o \in overtaken

\* A refund Paystack has accepted of the payment an order carries.
Owed(id, o) ==
  refunds[id].state = "queued" /\ orders[o].reference = refunds[id].reference

\* Such a refund shows on the order: the refund webhook makes up for a crash, an error
\* or a lost answer before markOrderRefunded, unless its event was dropped or two
\* handlers of the order got in each other's way.
RefundIsRecorded ==
  \A id \in RefundIds, o \in Orders :
    Owed(id, o) ~>
      \/ orders[o].payment = "refunded"
      \/ id \in dropped
      \/ o \in overtaken

\* "status is updated locally immediately and confirmed via refund.processed webhook"
\* (docs/payments.md): when one of the two is missed, the other sees to it.
RefundIsConfirmed ==
  \A id \in RefundIds, o \in Orders :
    Owed(id, o) ~> orders[o].payment = "refunded" \/ o \in overtaken

\* "status is updated locally immediately and confirmed via refund.processed webhook"
\* (docs/payments.md): once every refund of an order's payment has failed, and Paystack
\* has been told that we know, the order does not pass for refunded.
\* The code does not keep it: README, section 5.
FailedRefundIsNotRefunded ==
  \A o \in Orders :
    LET ids == RefundsOf(orders[o].reference)
    IN /\ ids # {}
       /\ \A id \in ids : refunds[id].state = "failed"
                           /\ RefundEvent(id) \notin unacked
       => orders[o].payment # "refunded"

=============================================================================
