---------------------------- MODULE Installation ----------------------------
(***************************************************************************)
(* Installation quotes, their lines, bookings and the payment of bookings  *)
(* (internal/services/installation_service.go, the booking half of         *)
(* payment_service.go and payment_refund.go, and their handlers).          *)
(*                                                                         *)
(* A customer asks for a quote and gets a line from every mechanic nearby  *)
(* who does the jobs.  Booking a line ends the quote.  From then on the    *)
(* customer, the mechanic, an administrator and Paystack all change one    *)
(* booking row, most of them by saving the whole row they read, and one    *)
(* booking_payments row, which everybody updates by column.                *)
(***************************************************************************)
EXTENDS Integers, FiniteSets

CONSTANTS
  Sessions,      \* the goroutines that serve requests and webhooks
  Mechanics,     \* verified mechanics with coordinates
  PayoutReady,   \* those of them with a Paystack subaccount
  Jobs,          \* active job types
  Quotes,        \* quote identities; a booking is known by its quote
  Prices,        \* the prices a mechanic may answer with
  BasePrice,     \* the standard labor price
  Targets,       \* the statuses mechanics ask for
  References, RefundIds,
  MaxRequests,   \* bound: client requests and repeated webhook deliveries
  MaxCrashes,    \* bound: crashes, failed statements and unanswered calls
  None

BookingStatus ==
  {"pending_payment", "confirmed", "en_route", "in_progress", "completed", "cancelled"}

ASSUME InstallationConstants ==
  /\ None \notin Sessions \cup Quotes \cup References \cup RefundIds
                   \cup (Mechanics \X Jobs)
  /\ PayoutReady \subseteq Mechanics
  /\ BasePrice \in Prices
  /\ Targets \subseteq BookingStatus
  /\ MaxRequests \in Nat
  /\ MaxCrashes \in Nat

VARIABLES
  offers,    \* mechanic_install_services: the jobs a mechanic has set up
  quotes,    \* per quote: "none" before it is created, then its status
  due,       \* the quotes whose expires_at has passed
  lines,     \* per quote, mechanic and job: the line's status and price
  bookings,  \* per quote, its booking row
  payments,  \* per quote, the booking_payments row of its booking
  charges, refunds, unacked,  \* Paystack's transactions, refunds, events without a 200
  pc, job,   \* where each session is, what it is about and the row it has read
  requests, crashes

installationVars == <<offers, quotes, due, lines>>
paystackVars == <<charges, refunds, unacked>>
vars == <<offers, quotes, due, lines, bookings, payments, charges, refunds, unacked,
          pc, job, requests, crashes>>

-----------------------------------------------------------------------------
Lines == Mechanics \X Jobs

LineRow == [status : {"none", "offered", "selected", "declined"}, price : Prices]
NoLine == [status |-> "none", price |-> BasePrice]

PaymentStatus == {"pending", "paid", "refunded"}

BookingRow ==
  [status : BookingStatus \cup {"none"}, payment : PaymentStatus,
   line : Lines \cup {None}, price : Prices]
NoBooking ==
  [status |-> "none", payment |-> "pending", line |-> None, price |-> BasePrice]

PaymentRow ==
  [status : PaymentStatus, paystack : BOOLEAN,
   reference : References \cup {None}, refund : RefundIds \cup {None}]
ManualPayment ==
  [status |-> "pending", paystack |-> FALSE, reference |-> None, refund |-> None]

IdleJob ==
  [kind |-> "none", quote |-> None, line |-> None, status |-> "none",
   lines |-> {}, row |-> NoBooking, reference |-> None, refund |-> None]

Kinds == {"none", "quote", "book", "respond", "pay", "verify", "charge hook",
          "refund", "refund hook", "cancel", "status"}

NoCharge == [quote |-> None, paid |-> FALSE]
NoRefund == [reference |-> None, state |-> "none"]
ChargeEvent(ref) == [of |-> "charge", id |-> ref]
RefundEvent(id) == [of |-> "refund", id |-> id]

TypeOK ==
  /\ offers \in [Mechanics -> SUBSET Jobs]
  /\ quotes \in [Quotes -> {"none", "ready", "expired", "booked"}]
  /\ due \subseteq Quotes
  /\ lines \in [Quotes -> [Lines -> LineRow]]
  /\ bookings \in [Quotes -> BookingRow]
  /\ payments \in [Quotes -> PaymentRow]
  /\ charges \in [References -> [quote : Quotes \cup {None}, paid : BOOLEAN]]
  /\ refunds \in [RefundIds -> [reference : References \cup {None},
                                state : {"none", "queued", "processed", "failed"}]]
  /\ unacked \subseteq [of : {"charge"}, id : References]
                         \cup [of : {"refund"}, id : RefundIds]
  /\ pc \in [Sessions -> {"idle", "insert", "book", "respond", "call", "persist", "read",
                          "paid", "payment", "refund", "mark", "marked", "reread",
                          "save", "columns"}]
  /\ job \in [Sessions ->
        [kind : Kinds, quote : Quotes \cup {None}, line : Lines \cup {None},
         status : BookingStatus \cup {"none"}, lines : SUBSET Lines, row : BookingRow,
         reference : References \cup {None}, refund : RefundIds \cup {None}]]
  /\ requests \in 0 .. MaxRequests
  /\ crashes \in 0 .. MaxCrashes

-----------------------------------------------------------------------------
(* Requests begin and end. *)

Request(s) ==
  /\ pc[s] = "idle"
  /\ requests < MaxRequests
  /\ requests' = requests + 1
  /\ UNCHANGED crashes

At(s, label, j) ==
  /\ pc' = [pc EXCEPT ![s] = label]
  /\ job' = [job EXCEPT ![s] = j]

Continue(s, label) == At(s, label, job[s]) /\ UNCHANGED <<requests, crashes>>

EventOf(s) ==
  IF job[s].kind = "charge hook" THEN ChargeEvent(job[s].reference)
                                 ELSE RefundEvent(job[s].refund)

Handles(s, event) == job[s].kind \in {"charge hook", "refund hook"} /\ EventOf(s) = event

\* The answer: 200 to a webhook whose handler returned no error.
Finish(s) ==
  /\ At(s, "idle", IdleJob)
  /\ UNCHANGED <<requests, crashes>>

FinishHook(s) ==
  /\ Finish(s)
  /\ unacked' = IF job[s].kind \in {"charge hook", "refund hook"}
                THEN unacked \ {EventOf(s)} ELSE unacked

\* An event without its 200 is delivered again; one that had it counts as a request.
Hook(s, event) ==
  /\ pc[s] = "idle"
  /\ \A other \in Sessions : ~Handles(other, event)
  /\ IF event \in unacked THEN UNCHANGED <<requests, crashes>> ELSE Request(s)

\* The process of a session ends, or what it waits for fails; a webhook has no 200.
GiveUp(s) ==
  /\ crashes < MaxCrashes
  /\ crashes' = crashes + 1
  /\ At(s, "idle", IdleJob)

-----------------------------------------------------------------------------
(* Quotes and their lines *)

\* Mutant: the update without its condition on the status.
ExpireAnyQuote == [q \in Quotes |-> IF q \in due THEN "expired" ELSE quotes[q]]

\* ExpireQuotesBefore, which every quote request runs first.
ExpireQuotes ==
  [q \in Quotes |-> IF quotes[q] = "ready" /\ q \in due THEN "expired" ELSE quotes[q]]

\* The job types the eligible products of the order or of the request call for.
Wanted == SUBSET Jobs \ {{}}

\* buildQuoteLines: who is in range and does the job; who has set up nothing does all.
MatchingLines(near, jobs) ==
  {l \in near \X jobs : offers[l[1]] = {} \/ l[2] \in offers[l[1]]}

CreateQuoteRead(s, near, jobs) ==
  /\ MatchingLines(near, jobs) # {}
  /\ Request(s)
  /\ quotes' = ExpireQuotes
  /\ At(s, "insert", [IdleJob EXCEPT !.kind = "quote", !.lines = MatchingLines(near, jobs)])
  /\ UNCHANGED <<offers, due, lines, bookings, payments, charges, refunds, unacked>>

\* The transaction: the quote with its items, and a line per match at the base price.
CreateQuoteInsert(s, q) ==
  /\ pc[s] = "insert"
  /\ quotes[q] = "none"
  /\ quotes' = [quotes EXCEPT ![q] = "ready"]
  /\ lines' = [lines EXCEPT ![q] = [l \in Lines |->
                 [NoLine EXCEPT !.status = IF l \in job[s].lines THEN "offered" ELSE @]]]
  /\ Finish(s)
  /\ UNCHANGED <<offers, due, bookings, payments, charges, refunds, unacked>>

\* GetQuoteForUser and ListQuotesForUser, which a booking refused by them amounts to.
ReadQuotes(s) ==
  /\ Request(s)
  /\ quotes' = ExpireQuotes
  /\ UNCHANGED <<offers, due, lines, bookings, payments, charges, refunds, unacked, pc, job>>

\* RespondToQuoteLine: the line and then its quote are read; a quote that is booked
\* between the two reads makes the second refuse, so one step stands for both.
RespondRead(s, q, l) ==
  /\ lines[q][l].status # "none"
  /\ quotes[q] = "ready"
  /\ q \notin due
  /\ Request(s)
  /\ At(s, "respond", [IdleJob EXCEPT !.kind = "respond", !.quote = q, !.line = l])
  /\ UNCHANGED <<installationVars, bookings, payments, paystackVars>>

\* The whole line is saved as it was read, that is offered, with the new price.
RespondSave(s, price) ==
  /\ pc[s] = "respond"
  /\ lines' = [lines EXCEPT ![job[s].quote][job[s].line] =
                 [status |-> "offered", price |-> price]]
  /\ Finish(s)
  /\ UNCHANGED <<offers, quotes, due, bookings, payments, paystackVars>>

\* SetMechanicInstallServices adds jobs, one upsert each; none is ever taken away.
SetInstallServices(s, m, jobs) ==
  /\ Request(s)
  /\ offers' = [offers EXCEPT ![m] = @ \cup jobs]
  /\ UNCHANGED <<quotes, due, lines, bookings, payments, paystackVars, pc, job>>

-----------------------------------------------------------------------------
(* CreateBooking *)

\* The booking the line that was read makes.
BookingOf(l, price) ==
  [status |-> "pending_payment", payment |-> "pending", line |-> l, price |-> price]

CreateBookingRead(s, q, l) ==
  /\ quotes[q] = "ready"
  /\ q \notin due
  /\ bookings[q] = NoBooking
  /\ lines[q][l].status # "none"
  /\ Request(s)
  /\ quotes' = ExpireQuotes
  /\ At(s, "book", [IdleJob EXCEPT !.kind = "book", !.quote = q, !.line = l,
                                   !.row = BookingOf(l, lines[q][l].price)])
  /\ UNCHANGED <<offers, due, lines, bookings, payments, paystackVars>>

\* The selected line is updated after all lines of the quote were declined.
ChosenLines(q, chosen) ==
  [l \in Lines |->
     IF lines[q][l].status = "none" THEN lines[q][l]
     ELSE [lines[q][l] EXCEPT !.status = IF l = chosen THEN "selected" ELSE "declined"]]

\* Mutant: no unique index on quote_id.
BookAgain(s) ==
  LET q == job[s].quote
  IN /\ pc[s] = "book"
     /\ bookings' = [bookings EXCEPT ![q] = job[s].row]
     /\ payments' = [payments EXCEPT ![q] = ManualPayment]
     /\ quotes' = [quotes EXCEPT ![q] = "booked"]
     /\ lines' = [lines EXCEPT ![q] = ChosenLines(q, job[s].line)]
     /\ Finish(s)
     /\ UNCHANGED <<offers, due, paystackVars>>

\* One transaction; the unique index on quote_id refuses a second booking, whose
\* transaction is rolled back.  That the quote has expired meanwhile is not noticed.
Book(s) ==
  LET q == job[s].quote
  IN /\ pc[s] = "book"
     /\ IF bookings[q] = NoBooking
        THEN /\ bookings' = [bookings EXCEPT ![q] = job[s].row]
             /\ payments' = [payments EXCEPT ![q] = ManualPayment]
             /\ quotes' = [quotes EXCEPT ![q] = "booked"]
             /\ lines' = [lines EXCEPT ![q] = ChosenLines(q, job[s].line)]
        ELSE UNCHANGED <<bookings, payments, quotes, lines>>
     /\ Finish(s)
     /\ UNCHANGED <<offers, due, paystackVars>>

-----------------------------------------------------------------------------
(* Payment of a booking *)

BeginOn(s, label, kind, q) ==
  /\ bookings[q] # NoBooking
  /\ Request(s)
  /\ At(s, label, [IdleJob EXCEPT !.kind = kind, !.quote = q, !.row = bookings[q]])
  /\ UNCHANGED <<installationVars, bookings, payments, paystackVars>>

\* bookingSplitParams: without a subaccount of the mechanic there is no checkout.
CanSplit(row) == row.line[1] \in PayoutReady

InitializeRead(s, q) ==
  /\ bookings[q].payment = "pending"
  /\ bookings[q].status = "pending_payment"
  /\ CanSplit(bookings[q])
  /\ BeginOn(s, "call", "pay", q)

\* Paystack opens the checkout.
Opens(s, ref) ==
  /\ pc[s] = "call"
  /\ charges[ref] = NoCharge
  /\ charges' = [charges EXCEPT ![ref].quote = job[s].quote]

InitializeCall(s, ref) ==
  /\ Opens(s, ref)
  /\ At(s, "persist", [job[s] EXCEPT !.reference = ref])
  /\ UNCHANGED <<installationVars, bookings, payments, refunds, unacked, requests, crashes>>

\* The answer does not arrive within the client's 30 seconds: the checkout is open and
\* no row knows its reference.
InitializeUnanswered(s, ref) ==
  /\ Opens(s, ref)
  /\ GiveUp(s)
  /\ UNCHANGED <<installationVars, bookings, payments, refunds, unacked, requests>>

\* persistRef updates two columns of the payment, whatever they are by now.
Persist(s) ==
  /\ pc[s] = "persist"
  /\ payments' = [payments EXCEPT ![job[s].quote].paystack = TRUE,
                                  ![job[s].quote].reference = job[s].reference]
  /\ Finish(s)
  /\ UNCHANGED <<installationVars, bookings, paystackVars>>

PaidJob(kind, ref) ==
  [IdleJob EXCEPT !.kind = kind, !.reference = ref, !.quote = charges[ref].quote]

Verify(s, ref) ==
  /\ charges[ref].paid
  /\ Request(s)
  /\ At(s, "read", PaidJob("verify", ref))
  /\ UNCHANGED <<installationVars, bookings, payments, paystackVars>>

ChargeHook(s, ref) ==
  /\ charges[ref].paid
  /\ Hook(s, ChargeEvent(ref))
  /\ At(s, "read", PaidJob("charge hook", ref))
  /\ UNCHANGED <<installationVars, bookings, payments, paystackVars>>

\* markBookingPaid: a booking that says paid is left alone, its payment row included.
PaidRead(s) ==
  LET row == bookings[job[s].quote]
  IN /\ pc[s] = "read"
     /\ IF row.payment = "paid" THEN FinishHook(s)
        ELSE /\ At(s, "paid", [job[s] EXCEPT !.row = row])
             /\ UNCHANGED <<requests, crashes, unacked>>
     /\ UNCHANGED <<installationVars, bookings, payments, charges, refunds>>

PaidRow(row) ==
  [row EXCEPT !.payment = "paid",
              !.status = IF @ = "pending_payment" THEN "confirmed" ELSE @]

PaidSave(s) ==
  LET q == job[s].quote
  IN /\ pc[s] = "paid"
     /\ bookings' = [bookings EXCEPT ![q] = PaidRow(job[s].row)]
     /\ payments' = [payments EXCEPT ![q] = [@ EXCEPT
                       !.paystack = TRUE, !.reference = job[s].reference, !.status = "paid"]]
     /\ FinishHook(s)
     /\ UNCHANGED <<installationVars, charges, refunds>>

-----------------------------------------------------------------------------
(* Refunds and cancellation *)

Manual(payment) ==
  payment.status # "paid" \/ ~payment.paystack \/ payment.reference = None

RefundRead(s, q) == bookings[q].status # "completed" /\ BeginOn(s, "payment", "refund", q)

CancelRead(s, q) ==
  /\ bookings[q].status \notin {"completed", "cancelled"}
  /\ BeginOn(s, IF bookings[q].payment = "paid" THEN "payment" ELSE "save", "cancel", q)

\* refundBooking and validateRefundable.  A cancellation goes on when the payment is
\* not one of Paystack's (ErrPaymentNotRefundable), with the row it read first.
PaymentRead(s) ==
  LET payment == payments[job[s].quote]
  IN /\ pc[s] = "payment"
     /\ \/ /\ Manual(payment)
           /\ IF job[s].kind = "cancel" THEN Continue(s, "save") ELSE Finish(s)
        \/ /\ ~Manual(payment)
           /\ payment.refund # None
           /\ Finish(s)
        \/ /\ ~Manual(payment)
           /\ payment.refund = None
           /\ At(s, "refund", [job[s] EXCEPT !.reference = payment.reference])
           /\ UNCHANGED <<requests, crashes>>
     /\ UNCHANGED <<installationVars, bookings, payments, paystackVars>>

RefundsOf(ref) == {id \in RefundIds : refunds[id].reference = ref}

\* A refund may be of a part, so a paid transaction can be refunded again while some
\* of it is left; when nothing is, Paystack refuses: CallFails.
PaystackAccepts(s, id) ==
  /\ pc[s] = "refund"
  /\ refunds[id] = NoRefund
  /\ charges[job[s].reference].paid
  /\ refunds' = [refunds EXCEPT ![id] = [reference |-> job[s].reference, state |-> "queued"]]

RefundCall(s, id) ==
  /\ PaystackAccepts(s, id)
  /\ At(s, "mark", [job[s] EXCEPT !.refund = id])
  /\ UNCHANGED <<installationVars, bookings, payments, charges, unacked, requests, crashes>>

\* Paystack queues the refund and its answer is lost: no row knows of the refund.
RefundUnanswered(s, id) ==
  /\ PaystackAccepts(s, id)
  /\ GiveUp(s)
  /\ UNCHANGED <<installationVars, bookings, payments, charges, unacked, requests>>

\* Paystack refuses, or cannot be reached: the handler returns the error.
CallFails(s) ==
  /\ pc[s] \in {"call", "refund"}
  /\ Finish(s)
  /\ UNCHANGED <<installationVars, bookings, payments, paystackVars>>

\* markBookingRefunded reads the row again, CancelBooking once more after it.
Reread(s) ==
  /\ pc[s] \in {"mark", "reread"}
  /\ At(s, IF pc[s] = "mark" THEN "marked" ELSE "save",
        [job[s] EXCEPT !.row = bookings[job[s].quote]])
  /\ UNCHANGED <<installationVars, bookings, payments, paystackVars, requests, crashes>>

MarkSave(s) ==
  LET q == job[s].quote
  IN /\ pc[s] = "marked"
     /\ bookings' = [bookings EXCEPT ![q] = [job[s].row EXCEPT !.payment = "refunded"]]
     /\ payments' = [payments EXCEPT ![q].status = "refunded", ![q].refund = job[s].refund]
     /\ IF job[s].kind = "cancel" THEN Continue(s, "reread") ELSE Finish(s)
     /\ UNCHANGED <<installationVars, paystackVars>>

\* resolveEntityFromReference: an unknown reference is answered with 200.
RefundHook(s, id) ==
  LET found == {q \in Quotes : payments[q].reference = refunds[id].reference}
  IN /\ refunds[id].state \in {"processed", "failed"}
     /\ Hook(s, RefundEvent(id))
     /\ At(s, "columns", [IdleJob EXCEPT !.kind = "refund hook", !.refund = id,
              !.quote = IF found = {} THEN None ELSE CHOOSE q \in found : TRUE])
     /\ UNCHANGED <<installationVars, bookings, payments, paystackVars>>

\* Any error of the lookup counts as an unknown reference, a failed statement too: the
\* answer is 200 and the event is not delivered again.
LookupFails(s, id) ==
  /\ pc[s] = "idle"
  /\ RefundEvent(id) \in unacked
  /\ \A other \in Sessions : ~Handles(other, RefundEvent(id))
  /\ crashes < MaxCrashes
  /\ crashes' = crashes + 1
  /\ unacked' = unacked \ {RefundEvent(id)}
  /\ UNCHANGED <<installationVars, bookings, payments, charges, refunds, pc, job, requests>>

\* handleRefundWebhook updates columns of both rows, processed or failed.
RefundColumns(s) ==
  LET q == job[s].quote
  IN /\ pc[s] = "columns"
     /\ IF q = None THEN UNCHANGED <<bookings, payments>>
        ELSE /\ bookings' = [bookings EXCEPT ![q].payment = "refunded"]
             /\ payments' = [payments EXCEPT ![q].status = "refunded",
                                             ![q].refund = job[s].refund]
     /\ FinishHook(s)
     /\ UNCHANGED <<installationVars, charges, refunds>>

\* A cancellation whose row still says paid marks the payment refunded by itself, by a
\* statement of its own whose error is ignored, before it saves the booking.
SettleLocally(s) ==
  /\ pc[s] = "save"
  /\ job[s].kind = "cancel"
  /\ job[s].row.payment = "paid"
  /\ payments' = [payments EXCEPT ![job[s].quote].status = "refunded"]
  /\ At(s, "save", [job[s] EXCEPT !.row.payment = "refunded"])
  /\ UNCHANGED <<installationVars, bookings, paystackVars, requests, crashes>>

-----------------------------------------------------------------------------
(* UpdateBookingStatus, by the mechanic *)

\* isAllowedStatusTransition; asking for the status it has is allowed.
AllowedTransition(from, to) ==
  \/ from = to
  \/ <<from, to>> \in {<<"pending_payment", "confirmed">>, <<"confirmed", "en_route">>,
                       <<"confirmed", "in_progress">>, <<"en_route", "in_progress">>,
                       <<"in_progress", "completed">>}
  \/ to = "cancelled" /\ from \notin {"completed", "cancelled"}

StatusRead(s, q, to) ==
  /\ bookings[q] # NoBooking
  /\ AllowedTransition(bookings[q].status, to)
  /\ Request(s)
  /\ At(s, "save", [IdleJob EXCEPT !.kind = "status", !.quote = q, !.status = to,
                                   !.row = bookings[q]])
  /\ UNCHANGED <<installationVars, bookings, payments, paystackVars>>

\* Mutant: a confirmation by hand that leaves the payment alone.
ConfirmUnpaid(row, to) == [row EXCEPT !.status = to]

\* Mutant: a status it was not asked for.
StatusUnasked(row, to) == [row EXCEPT !.status = to, !.payment = to]

StatusRow(row, to) ==
  [row EXCEPT !.status = to,
              !.payment = IF to = "confirmed" /\ @ = "pending" THEN "paid" ELSE @]

\* UpdateBooking, the last statement of CancelBooking and UpdateBookingStatus.
BookingSave(s) ==
  /\ pc[s] = "save"
  /\ ~(job[s].kind = "cancel" /\ job[s].row.payment = "paid")
  /\ bookings' = [bookings EXCEPT ![job[s].quote] =
        IF job[s].kind = "cancel" THEN [job[s].row EXCEPT !.status = "cancelled"]
                                  ELSE StatusRow(job[s].row, job[s].status)]
  /\ Finish(s)
  /\ UNCHANGED <<installationVars, payments, paystackVars>>

-----------------------------------------------------------------------------
(* Time, Paystack, its customers, and failures *)

FallsDue(q) ==
  /\ quotes[q] # "none"
  /\ due' = due \cup {q}
  /\ q \notin due
  /\ UNCHANGED <<offers, quotes, lines, bookings, payments, paystackVars, pc, job,
                 requests, crashes>>

CustomerPays(ref) ==
  /\ charges[ref] # NoCharge
  /\ ~charges[ref].paid
  /\ charges' = [charges EXCEPT ![ref].paid = TRUE]
  /\ unacked' = unacked \cup {ChargeEvent(ref)}
  /\ UNCHANGED <<installationVars, bookings, payments, refunds, pc, job, requests, crashes>>

RefundSettles(id, outcome) ==
  /\ refunds[id].state = "queued"
  /\ refunds' = [refunds EXCEPT ![id].state = outcome]
  /\ unacked' = unacked \cup {RefundEvent(id)}
  /\ UNCHANGED <<installationVars, bookings, payments, charges, pc, job, requests, crashes>>

\* A crash, or a failed statement.
Fails(s) ==
  /\ pc[s] # "idle"
  /\ GiveUp(s)
  /\ UNCHANGED <<installationVars, bookings, payments, paystackVars, requests>>

-----------------------------------------------------------------------------
(* The endpoints *)

PostQuote(s) == \E near \in SUBSET Mechanics, jobs \in Wanted : CreateQuoteRead(s, near, jobs)
GetQuote(s) == ReadQuotes(s)
PostResponse(s) == \E q \in Quotes, l \in Lines : RespondRead(s, q, l)
PutServices(s) == \E m \in Mechanics, jobs \in Wanted : SetInstallServices(s, m, jobs)
PostBooking(s) == \E q \in Quotes, l \in Lines : CreateBookingRead(s, q, l)
PatchCancel(s) == \E q \in Quotes : CancelRead(s, q)
PatchStatus(s) == \E q \in Quotes, to \in Targets : StatusRead(s, q, to)
PostPay(s) == \E q \in Quotes : InitializeRead(s, q)
GetVerify(s) == \E ref \in References : Verify(s, ref)
PostRefund(s) == \E q \in Quotes : RefundRead(s, q)

Client(s) ==
  \/ PostQuote(s) \/ GetQuote(s) \/ PostResponse(s) \/ PutServices(s)
  \/ PostBooking(s) \/ PatchCancel(s) \/ PatchStatus(s)
  \/ PostPay(s) \/ GetVerify(s) \/ PostRefund(s)

Webhook(s) ==
  \/ \E ref \in References : ChargeHook(s, ref)
  \/ \E id \in RefundIds : RefundHook(s, id)

Serve(s) ==
  \/ \E q \in Quotes : CreateQuoteInsert(s, q)
  \/ \E price \in Prices : RespondSave(s, price)
  \/ Book(s)
  \/ \E ref \in References : InitializeCall(s, ref)
  \/ Persist(s)
  \/ PaidRead(s) \/ PaidSave(s)
  \/ PaymentRead(s)
  \/ \E id \in RefundIds : RefundCall(s, id)
  \/ CallFails(s)
  \/ Reread(s) \/ MarkSave(s) \/ RefundColumns(s)
  \/ SettleLocally(s) \/ BookingSave(s)

World ==
  \/ \E q \in Quotes : FallsDue(q)
  \/ \E ref \in References : CustomerPays(ref)
  \/ \E id \in RefundIds, outcome \in {"processed", "failed"} : RefundSettles(id, outcome)

Idle ==
  /\ offers = [m \in Mechanics |-> {}]
  /\ due = {}
  /\ charges = [ref \in References |-> NoCharge]
  /\ refunds = [id \in RefundIds |-> NoRefund]
  /\ unacked = {}
  /\ pc = [s \in Sessions |-> "idle"]
  /\ job = [s \in Sessions |-> IdleJob]
  /\ requests = 0
  /\ crashes = 0

Init ==
  /\ Idle
  /\ quotes = [q \in Quotes |-> "none"]
  /\ lines = [q \in Quotes |-> [l \in Lines |-> NoLine]]
  /\ bookings = [q \in Quotes |-> NoBooking]
  /\ payments = [q \in Quotes |-> ManualPayment]

Failure(s) ==
  \/ Fails(s)
  \/ \E ref \in References : InitializeUnanswered(s, ref)
  \/ \E id \in RefundIds : RefundUnanswered(s, id) \/ LookupFails(s, id)

Next ==
  \/ \E s \in Sessions : Client(s) \/ Webhook(s) \/ Serve(s) \/ Failure(s)
  \/ World

Spec == Init /\ [][Next]_vars

-----------------------------------------------------------------------------
(* Properties *)

\* A selected line is the line of its quote's booking, and its quote is booked:
\* whatever expires, is answered or is booked at the same time, no line is selected that
\* nobody booked.  (The converse fails: a mechanic's answer that was under way puts the
\* selected line back to offered.)
SelectedIsBooked ==
  \A q \in Quotes, l \in Lines :
    lines[q][l].status = "selected" => bookings[q].line = l /\ quotes[q] = "booked"

\* A quote has one booking: of two that race for it the second changes neither the line
\* nor the price the first was made with, and no save of a stale row does later.
BookingStands ==
  [][\A q \in Quotes :
       bookings[q] # NoBooking =>
         /\ bookings'[q].line = bookings[q].line
         /\ bookings'[q].price = bookings[q].price
         /\ bookings'[q].status # "none"]_vars

\* Nobody sets out, works or is done for a booking nobody paid for: a booking past its
\* payment says paid or refunded, although mechanics, customers and webhooks save rows
\* that were read before the others' changes.
NoUnpaidWork ==
  \A q \in Quotes :
    bookings[q].status \in {"confirmed", "en_route", "in_progress", "completed"} =>
      bookings[q].payment # "pending"

\* "automatically initiates a Paystack refund when the booking was paid via Paystack"
\* (docs/payments.md): a cancellation leaves no payment behind that Paystack has told
\* us about and that nobody has asked back.
\* The code does not keep it: README, section 5.
CancelRefunds ==
  [][\A q \in Quotes, ref \in References :
       /\ bookings[q].status # "cancelled"
       /\ bookings'[q].status = "cancelled"
       /\ charges[ref] = [quote |-> q, paid |-> TRUE]
       /\ ChargeEvent(ref) \notin unacked
       => RefundsOf(ref) # {}]_vars

=============================================================================
