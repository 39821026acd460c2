------------------------- MODULE InstallationProofs -------------------------
(***************************************************************************)
(* What holds of Installation for any number of sessions, mechanics, job   *)
(* types, quotes, transactions, refunds, requests and failures: proofs for *)
(* TLAPS.  The argument follows the booking rows that sessions hold: each  *)
(* is a row of the booking it will be saved over, however old it is.       *)
(***************************************************************************)
EXTENDS Installation, TLAPS

-----------------------------------------------------------------------------
(* The inductive invariant. *)

Labels ==
  {"idle", "insert", "book", "respond", "call", "persist", "read", "paid", "payment",
   "refund", "mark", "marked", "reread", "save", "columns"}

Job ==
  [kind : Kinds, quote : Quotes \cup {None}, line : Lines \cup {None},
   status : BookingStatus \cup {"none"}, lines : SUBSET Lines, row : BookingRow,
   reference : References \cup {None}, refund : RefundIds \cup {None}]

Events ==
  [of : {"charge"}, id : References] \cup [of : {"refund"}, id : RefundIds]

Booked(q) == bookings[q] # NoBooking

\* Nobody works for a row that has not been paid.
PaidBeforeWork(row) ==
  row.status \in {"confirmed", "en_route", "in_progress", "completed"} =>
    row.payment # "pending"

\* A row the booking of q had or could have had.
RowOf(row, q) ==
  /\ Booked(q)
  /\ row.status # "none"
  /\ row.line = bookings[q].line
  /\ row.price = bookings[q].price
  /\ PaidBeforeWork(row)

\* Where a session holds the booking row it read.
Holding ==
  {"call", "persist", "payment", "refund", "mark", "marked", "reread", "save", "paid"}

\* What a session knows of what it is about to write.
SessionReady(label, j) ==
  /\ label = "respond" => j.quote \in Quotes /\ j.line \in Lines
  /\ label = "book" => /\ j.quote \in Quotes
                       /\ j.line \in Lines
                       /\ j.row.line = j.line
                       /\ j.row.status = "pending_payment"
  /\ label \in Holding \cup {"read"} => j.quote \in Quotes /\ Booked(j.quote)
  /\ label \in Holding => RowOf(j.row, j.quote)
  /\ label \in {"refund", "mark"} => j.reference # None
  /\ label = "reread" => j.kind = "cancel"
  /\ label = "save" /\ j.kind # "cancel" =>
       j.status # "none" /\ AllowedTransition(j.row.status, j.status)
  /\ label = "columns" /\ j.quote # None => Booked(j.quote)

SessionsReady == \A s \in Sessions : SessionReady(pc[s], job[s])

BookingsSound ==
  \A q \in Quotes :
    Booked(q) => /\ bookings[q].status # "none"
                 /\ bookings[q].line \in Lines
                 /\ quotes[q] = "booked"
                 /\ PaidBeforeWork(bookings[q])

PaymentsSound == \A q \in Quotes : payments[q].reference # None => Booked(q)

ChargesSound ==
  \A ref \in References :
    /\ charges[ref].paid => charges[ref].quote # None
    /\ charges[ref].quote # None => Booked(charges[ref].quote)

RefundsSound ==
  \A id \in RefundIds : refunds[id].state # "none" => refunds[id].reference # None

Inv ==
  /\ TypeOK
  /\ SessionsReady
  /\ BookingsSound
  /\ SelectedIsBooked
  /\ PaymentsSound
  /\ ChargesSound
  /\ RefundsSound

\* What no step does to a booking.
Stands ==
  \A q \in Quotes :
    bookings[q] # NoBooking =>
      /\ bookings'[q].line = bookings[q].line
      /\ bookings'[q].price = bookings[q].price
      /\ bookings'[q].status # "none"

Keeps == Inv' /\ Stands

-----------------------------------------------------------------------------
(* Rows and jobs. *)

LEMMA RowTypes ==
  /\ NoBooking \in BookingRow
  /\ ManualPayment \in PaymentRow
  /\ NoLine \in LineRow
  /\ IdleJob \in Job
  /\ SessionReady("idle", IdleJob)
<1>1. BasePrice \in Prices
  BY InstallationConstants
<1>2. NoBooking \in BookingRow /\ ManualPayment \in PaymentRow /\ NoLine \in LineRow
  BY <1>1 DEF NoBooking, BookingRow, ManualPayment, PaymentRow, NoLine, LineRow, PaymentStatus
<1>3. IdleJob \in Job
  BY <1>2 DEF IdleJob, Job, Kinds
<1>4. SessionReady("idle", IdleJob)
  BY DEF SessionReady, Holding
<1> QED BY <1>2, <1>3, <1>4

LEMMA JobTypes ==
  ASSUME Inv, NEW s \in Sessions
  PROVE  /\ job[s] \in Job
         /\ job[s].kind \in Kinds
         /\ job[s].quote \in Quotes \cup {None}
         /\ job[s].line \in Lines \cup {None}
         /\ job[s].status \in BookingStatus \cup {"none"}
         /\ job[s].lines \in SUBSET Lines
         /\ job[s].row \in BookingRow
         /\ job[s].reference \in References \cup {None}
         /\ job[s].refund \in RefundIds \cup {None}
         /\ SessionReady(pc[s], job[s])
<1>1. job[s] \in Job
  BY DEF Inv, TypeOK, Job
<1>2. SessionReady(pc[s], job[s])
  BY DEF Inv, SessionsReady
<1> QED BY <1>1, <1>2 DEF Job

LEMMA BookingTypes ==
  ASSUME Inv, NEW q \in Quotes
  PROVE  /\ bookings[q] \in BookingRow
         /\ payments[q] \in PaymentRow
         /\ Booked(q) => RowOf(bookings[q], q) /\ bookings[q].line \in Lines
<1>1. bookings[q] \in BookingRow /\ payments[q] \in PaymentRow
  BY DEF Inv, TypeOK
<1>2. Booked(q) => RowOf(bookings[q], q) /\ bookings[q].line \in Lines
  BY DEF Inv, BookingsSound, RowOf
<1> QED BY <1>1, <1>2

\* A booking that stands is one afterwards, and its rows are still its rows.
LEMMA StandsGrows ==
  ASSUME Stands
  PROVE  /\ \A q \in Quotes : Booked(q) => Booked(q)'
         /\ \A q \in Quotes, row \in BookingRow : RowOf(row, q) => RowOf(row, q)'
<1>1. \A q \in Quotes : Booked(q) => Booked(q)'
  BY DEF Stands, Booked, NoBooking
<1>2. \A q \in Quotes, row \in BookingRow : RowOf(row, q) => RowOf(row, q)'
  BY <1>1 DEF Stands, RowOf, Booked
<1> QED BY <1>1, <1>2

\* So whatever a session was ready to do it still is.
LEMMA ReadyGrows ==
  ASSUME Stands, NEW label \in Labels, NEW j \in Job, SessionReady(label, j)
  PROVE  SessionReady(label, j)'
<1>1. /\ j.quote \in Quotes \cup {None} /\ j.row \in BookingRow
  BY DEF Job
<1>2. \A q \in Quotes : Booked(q) => Booked(q)'
  BY StandsGrows
<1>3. j.quote \in Quotes /\ RowOf(j.row, j.quote) => RowOf(j.row, j.quote)'
  BY <1>1, StandsGrows
<1> QED BY <1>1, <1>2, <1>3 DEF SessionReady

\* One session moves on, while bookings stand.
LEMMA SessionStep ==
  ASSUME Inv, Stands, NEW s \in Sessions, NEW label \in Labels, NEW j \in Job,
         At(s, label, j), SessionReady(label, j)'
  PROVE  /\ pc' \in [Sessions -> Labels]
         /\ job' \in [Sessions -> Job]
         /\ SessionsReady'
<1>1. pc \in [Sessions -> Labels] /\ job \in [Sessions -> Job]
  BY DEF Inv, TypeOK, Labels, Job
<1>2. pc' = [pc EXCEPT ![s] = label] /\ job' = [job EXCEPT ![s] = j]
  BY DEF At
<1>3. pc'[s] = label /\ job'[s] = j
  BY <1>1, <1>2
<1>4. ASSUME NEW x \in Sessions PROVE SessionReady(pc[x], job[x])'
  <2>1. CASE x = s
    BY <1>3, <2>1
  <2>2. CASE x # s
    <3>1. PICK l \in Labels, k \in Job : l = pc[x] /\ k = job[x]
      BY <1>1
    <3>2. SessionReady(l, k)
      BY <3>1 DEF Inv, SessionsReady
    <3>3. SessionReady(l, k)'
      BY <3>2, ReadyGrows
    <3>4. pc'[x] = l /\ job'[x] = k
      BY <1>1, <1>2, <2>2, <3>1
    <3> QED BY <3>3, <3>4
  <2> QED BY <2>1, <2>2
<1>5. SessionsReady'
  BY <1>4 DEF SessionsReady
<1> QED BY <1>1, <1>2, <1>5

-----------------------------------------------------------------------------
(* What the steps have in common. *)

\* The quotes after the update that ends those past their time, or none.
LEMMA Expired ==
  ASSUME Inv, quotes' = ExpireQuotes \/ quotes' = quotes
  PROVE  /\ quotes' \in [Quotes -> {"none", "ready", "expired", "booked"}]
         /\ \A q \in Quotes : quotes[q] = "booked" => quotes'[q] = "booked"
<1>1. quotes \in [Quotes -> {"none", "ready", "expired", "booked"}]
  BY DEF Inv, TypeOK
<1> QED BY <1>1 DEF ExpireQuotes

\* Nothing is written but the state of quotes, what mechanics offer and Paystack's events.
LEMMA TablesRest ==
  ASSUME Inv, UNCHANGED <<lines, bookings, payments, charges, refunds>>,
         offers' \in [Mechanics -> SUBSET Jobs],
         due' \subseteq Quotes,
         quotes' = ExpireQuotes \/ quotes' = quotes,
         unacked' \subseteq Events,
         pc' \in [Sessions -> Labels], job' \in [Sessions -> Job], SessionsReady',
         requests' \in 0 .. MaxRequests, crashes' \in 0 .. MaxCrashes
  PROVE  Keeps
<1>1. Stands
  BY BookingTypes DEF Stands, RowOf, Booked
<1>2. TypeOK'
  BY Expired DEF Inv, TypeOK, Labels, Job, Events
<1>3. BookingsSound' /\ SelectedIsBooked'
  BY Expired DEF Inv, BookingsSound, SelectedIsBooked, Booked
<1>4. PaymentsSound' /\ ChargesSound' /\ RefundsSound'
  BY DEF Inv, PaymentsSound, ChargesSound, RefundsSound, Booked
<1> QED BY <1>1, <1>2, <1>3, <1>4 DEF Keeps, Inv

\* The same as the step of a session that is ready for what it does next.
LEMMA SessionKeeps ==
  ASSUME Inv, UNCHANGED <<lines, bookings, payments, charges, refunds>>,
         offers' \in [Mechanics -> SUBSET Jobs],
         due' = due,
         quotes' = ExpireQuotes \/ quotes' = quotes,
         unacked' \subseteq unacked,
         requests' \in 0 .. MaxRequests, crashes' \in 0 .. MaxCrashes,
         NEW s \in Sessions, NEW label \in Labels, NEW j \in Job,
         At(s, label, j), SessionReady(label, j)
  PROVE  Keeps
<1>1. Stands
  BY BookingTypes DEF Stands, RowOf, Booked
<1>2. SessionReady(label, j)'
  BY <1>1, ReadyGrows
<1>3. pc' \in [Sessions -> Labels] /\ job' \in [Sessions -> Job] /\ SessionsReady'
  BY <1>1, <1>2, SessionStep
<1>4. unacked' \subseteq Events /\ due' \subseteq Quotes
  BY DEF Inv, TypeOK, Events
<1> QED BY <1>3, <1>4, TablesRest

\* A session saves a row of the booking, or columns of its payment, or both.
LEMMA SaveKeeps ==
  ASSUME Inv, UNCHANGED <<installationVars, charges, refunds>>,
         NEW q \in Quotes, NEW row \in BookingRow, RowOf(row, q),
         bookings' = [bookings EXCEPT ![q] = row],
         payments' \in [Quotes -> PaymentRow],
         \A x \in Quotes \ {q} : payments'[x] = payments[x],
         unacked' \subseteq unacked, UNCHANGED <<requests, crashes>>,
         NEW s \in Sessions, NEW label \in Labels, NEW j \in Job,
         At(s, label, j), SessionReady(label, j)
  PROVE  Keeps
<1>1. bookings \in [Quotes -> BookingRow]
  BY DEF Inv, TypeOK
<1>2. /\ bookings' \in [Quotes -> BookingRow]
      /\ bookings'[q] = row
      /\ \A x \in Quotes \ {q} : bookings'[x] = bookings[x]
  BY <1>1
<1>3. Booked(q) /\ row.status # "none" /\ row.line = bookings[q].line
      /\ row.price = bookings[q].price /\ PaidBeforeWork(row)
  BY DEF RowOf
<1>4. Stands
  BY <1>2, <1>3 DEF Stands, Inv, BookingsSound, Booked
<1>5. SessionReady(label, j)'
  BY <1>4, ReadyGrows
<1>6. pc' \in [Sessions -> Labels] /\ job' \in [Sessions -> Job] /\ SessionsReady'
  BY <1>4, <1>5, SessionStep
<1>7. TypeOK'
  BY <1>2, <1>6 DEF Inv, TypeOK, Labels, Job, installationVars
<1>8. BookingsSound'
  BY <1>2, <1>3 DEF Inv, BookingsSound, Booked, installationVars
<1>9. SelectedIsBooked'
  BY <1>2, <1>3 DEF Inv, SelectedIsBooked, installationVars
<1>10. \A x \in Quotes : Booked(x) => Booked(x)'
  BY <1>4, StandsGrows
<1>11. PaymentsSound' /\ RefundsSound'
  BY <1>3, <1>10 DEF Inv, PaymentsSound, RefundsSound
<1>12. ChargesSound'
  BY <1>10 DEF Inv, TypeOK, ChargesSound
<1> QED BY <1>4, <1>6, <1>7, <1>8, <1>9, <1>11, <1>12 DEF Keeps, Inv

\* A request within its bound.
LEMMA Requested ==
  ASSUME Inv, NEW s \in Sessions, Request(s)
  PROVE  requests' \in 0 .. MaxRequests /\ crashes' \in 0 .. MaxCrashes
  BY InstallationConstants DEF Inv, TypeOK, Request

\* The types of the tables a session step leaves alone.
LEMMA Unwritten ==
  ASSUME Inv, UNCHANGED <<installationVars, unacked>>
  PROVE  /\ offers' \in [Mechanics -> SUBSET Jobs]
         /\ due' = due
         /\ quotes' = ExpireQuotes \/ quotes' = quotes
         /\ lines' = lines
         /\ unacked' \subseteq unacked
  BY DEF Inv, TypeOK, installationVars

-----------------------------------------------------------------------------
(* Quotes and their lines. *)

LEMMA GivenUp ==
  ASSUME Inv, NEW s \in Sessions, GiveUp(s)
  PROVE  crashes' \in 0 .. MaxCrashes
  BY InstallationConstants DEF GiveUp, Inv, TypeOK

LEMMA CreateQuoteReadKeeps ==
  ASSUME Inv, NEW s \in Sessions, NEW near \in SUBSET Mechanics, NEW jobs \in Wanted,
         CreateQuoteRead(s, near, jobs)
  PROVE  Keeps
<1> DEFINE found == MatchingLines(near, jobs)
           j == [IdleJob EXCEPT !.kind = "quote", !.lines = found]
<1>1. found \in SUBSET Lines
  BY DEF MatchingLines, Lines, Wanted
<1> HIDE DEF found
<1>2. j \in Job
  BY <1>1, RowTypes DEF Job, Kinds
<1>3. SessionReady("insert", j) /\ "insert" \in Labels
  BY DEF SessionReady, Holding, Labels
<1>4. /\ UNCHANGED <<lines, bookings, payments, charges, refunds, due, offers, unacked>>
      /\ quotes' = ExpireQuotes
      /\ At(s, "insert", j)
      /\ Request(s)
  BY DEF CreateQuoteRead, found
<1>5. offers' \in [Mechanics -> SUBSET Jobs] /\ unacked' \subseteq unacked
  BY <1>4 DEF Inv, TypeOK
<1> HIDE DEF j
<1> QED BY <1>2, <1>3, <1>4, <1>5, Requested, SessionKeeps

LEMMA CreateQuoteInsertKeeps ==
  ASSUME Inv, NEW s \in Sessions, NEW q \in Quotes, CreateQuoteInsert(s, q)
  PROVE  Keeps
<1> DEFINE new == [l \in Lines |->
                     [NoLine EXCEPT !.status = IF l \in job[s].lines THEN "offered" ELSE @]]
<1>1. /\ UNCHANGED <<offers, due, bookings, payments, charges, refunds, unacked>>
      /\ UNCHANGED <<requests, crashes>>
      /\ quotes[q] = "none"
      /\ quotes' = [quotes EXCEPT ![q] = "ready"]
      /\ lines' = [lines EXCEPT ![q] = new]
      /\ At(s, "idle", IdleJob)
  BY DEF CreateQuoteInsert, Finish
<1>2. new \in [Lines -> LineRow] /\ \A l \in Lines : new[l].status # "selected"
  <2>1. NoLine \in LineRow /\ NoLine.status = "none"
    BY RowTypes DEF NoLine
  <2>2. \A l \in Lines : new[l] = NoLine \/ new[l] = [NoLine EXCEPT !.status = "offered"]
    BY <2>1 DEF NoLine
  <2>3. [NoLine EXCEPT !.status = "offered"] \in LineRow
        /\ [NoLine EXCEPT !.status = "offered"].status = "offered"
    BY <2>1 DEF LineRow
  <2> HIDE DEF new
  <2>4. \A l \in Lines : new[l] \in LineRow /\ new[l].status # "selected"
    BY <2>1, <2>2, <2>3
  <2> QED BY <2>4 DEF new
<1> HIDE DEF new
<1>3. Stands
  BY <1>1, BookingTypes DEF Stands, RowOf, Booked
<1>4. pc' \in [Sessions -> Labels] /\ job' \in [Sessions -> Job] /\ SessionsReady'
  <2>1. SessionReady("idle", IdleJob)' /\ "idle" \in Labels
    BY DEF SessionReady, Holding, Labels
  <2> QED BY <1>1, <1>3, <2>1, RowTypes, SessionStep
<1>5. /\ lines \in [Quotes -> [Lines -> LineRow]]
      /\ quotes \in [Quotes -> {"none", "ready", "expired", "booked"}]
  BY DEF Inv, TypeOK
<1>6. lines' \in [Quotes -> [Lines -> LineRow]]
      /\ quotes' \in [Quotes -> {"none", "ready", "expired", "booked"}]
  BY <1>1, <1>2, <1>5
<1>7. TypeOK'
  BY <1>1, <1>4, <1>6 DEF Inv, TypeOK, Labels, Job
<1>8. \A x \in Quotes : quotes[x] = "booked" => quotes'[x] = "booked"
  BY <1>1, <1>5
<1>9. BookingsSound'
  BY <1>1, <1>8 DEF Inv, BookingsSound, Booked
<1>10. SelectedIsBooked'
  <2>1. \A x \in Quotes : lines'[x] = IF x = q THEN new ELSE lines[x]
    BY <1>1, <1>5
  <2> QED BY <1>1, <1>2, <1>8, <2>1 DEF Inv, SelectedIsBooked
<1>11. PaymentsSound' /\ ChargesSound' /\ RefundsSound'
  BY <1>1 DEF Inv, PaymentsSound, ChargesSound, RefundsSound, Booked
<1> QED BY <1>3, <1>4, <1>7, <1>9, <1>10, <1>11 DEF Keeps, Inv

LEMMA ReadQuotesKeeps ==
  ASSUME Inv, NEW s \in Sessions, ReadQuotes(s)
  PROVE  Keeps
<1>1. /\ UNCHANGED <<lines, bookings, payments, charges, refunds, due, offers, unacked>>
      /\ UNCHANGED <<pc, job>>
      /\ quotes' = ExpireQuotes
      /\ Request(s)
  BY DEF ReadQuotes
<1>2. SessionsReady'
  BY <1>1 DEF Inv, SessionsReady, SessionReady, RowOf, Booked
<1>3. /\ offers' \in [Mechanics -> SUBSET Jobs] /\ due' \subseteq Quotes
      /\ unacked' \subseteq Events /\ pc' \in [Sessions -> Labels]
      /\ job' \in [Sessions -> Job]
  BY <1>1 DEF Inv, TypeOK, Events, Labels, Job
<1> QED BY <1>1, <1>2, <1>3, Requested, TablesRest

LEMMA RespondReadKeeps ==
  ASSUME Inv, NEW s \in Sessions, NEW q \in Quotes, NEW l \in Lines, RespondRead(s, q, l)
  PROVE  Keeps
<1> DEFINE j == [IdleJob EXCEPT !.kind = "respond", !.quote = q, !.line = l]
<1>1. j \in Job
  BY RowTypes DEF Job, Kinds
<1>2. j.quote = q /\ j.line = l
  BY DEF IdleJob
<1>3. SessionReady("respond", j) /\ "respond" \in Labels
  BY <1>2 DEF SessionReady, Holding, Labels
<1>4. /\ UNCHANGED <<installationVars, bookings, payments, charges, refunds, unacked>>
      /\ At(s, "respond", j)
      /\ Request(s)
  BY DEF RespondRead, paystackVars
<1> HIDE DEF j
<1> QED BY <1>1, <1>3, <1>4, Requested, Unwritten, SessionKeeps

LEMMA RespondSaveKeeps ==
  ASSUME Inv, NEW s \in Sessions, NEW price \in Prices, RespondSave(s, price)
  PROVE  Keeps
<1> DEFINE new == [status |-> "offered", price |-> price]
<1>q. PICK q \in Quotes, l \in Lines : q = job[s].quote /\ l = job[s].line
  BY JobTypes DEF RespondSave, SessionReady
<1>1. /\ UNCHANGED <<offers, quotes, due, bookings, payments, charges, refunds, unacked>>
      /\ UNCHANGED <<requests, crashes>>
      /\ lines' = [lines EXCEPT ![q][l] = new]
      /\ At(s, "idle", IdleJob)
  BY <1>q DEF RespondSave, Finish, paystackVars
<1>2. new \in LineRow /\ new.status # "selected"
  BY DEF LineRow
<1> HIDE DEF new
<1>3. Stands
  BY <1>1, BookingTypes DEF Stands, RowOf, Booked
<1>4. pc' \in [Sessions -> Labels] /\ job' \in [Sessions -> Job] /\ SessionsReady'
  <2>1. SessionReady("idle", IdleJob)' /\ "idle" \in Labels
    BY DEF SessionReady, Holding, Labels
  <2> QED BY <1>1, <1>3, <2>1, RowTypes, SessionStep
<1>5. lines \in [Quotes -> [Lines -> LineRow]]
  BY DEF Inv, TypeOK
<1>6. /\ lines' \in [Quotes -> [Lines -> LineRow]]
      /\ \A x \in Quotes, k \in Lines : lines'[x][k] = lines[x][k] \/ lines'[x][k] = new
  <2>1. lines[q] \in [Lines -> LineRow]
    BY <1>5
  <2>2. [lines[q] EXCEPT ![l] = new] \in [Lines -> LineRow]
    BY <1>2, <2>1
  <2>3. lines' = [lines EXCEPT ![q] = [lines[q] EXCEPT ![l] = new]]
    BY <1>1, <1>5
  <2> QED BY <1>5, <2>1, <2>2, <2>3
<1>7. TypeOK'
  BY <1>1, <1>4, <1>6 DEF Inv, TypeOK, Labels, Job
<1>8. BookingsSound' /\ SelectedIsBooked'
  BY <1>1, <1>2, <1>6 DEF Inv, BookingsSound, SelectedIsBooked, Booked
<1>9. PaymentsSound' /\ ChargesSound' /\ RefundsSound'
  BY <1>1 DEF Inv, PaymentsSound, ChargesSound, RefundsSound, Booked
<1> QED BY <1>3, <1>4, <1>7, <1>8, <1>9 DEF Keeps, Inv

LEMMA SetInstallServicesKeeps ==
  ASSUME Inv, NEW s \in Sessions, NEW m \in Mechanics, NEW jobs \in Wanted,
         SetInstallServices(s, m, jobs)
  PROVE  Keeps
<1>1. /\ UNCHANGED <<quotes, due, lines, bookings, payments, charges, refunds, unacked>>
      /\ UNCHANGED <<pc, job>>
      /\ offers' = [offers EXCEPT ![m] = @ \cup jobs]
      /\ Request(s)
  BY DEF SetInstallServices, paystackVars
<1>2. offers' \in [Mechanics -> SUBSET Jobs]
  BY <1>1 DEF Inv, TypeOK, Wanted
<1>3. SessionsReady'
  BY <1>1 DEF Inv, SessionsReady, SessionReady, RowOf, Booked
<1>4. /\ due' \subseteq Quotes /\ unacked' \subseteq Events
      /\ pc' \in [Sessions -> Labels] /\ job' \in [Sessions -> Job]
  BY <1>1 DEF Inv, TypeOK, Events, Labels, Job
<1> QED BY <1>1, <1>2, <1>3, <1>4, Requested, TablesRest

-----------------------------------------------------------------------------
(* Bookings are made. *)

LEMMA CreateBookingReadKeeps ==
  ASSUME Inv, NEW s \in Sessions, NEW q \in Quotes, NEW l \in Lines,
         CreateBookingRead(s, q, l)
  PROVE  Keeps
<1> DEFINE row == BookingOf(l, lines[q][l].price)
           j == [IdleJob EXCEPT !.kind = "book", !.quote = q, !.line = l, !.row = row]
<1>1. lines[q][l].price \in Prices
  BY DEF Inv, TypeOK, LineRow
<1>2. row \in BookingRow /\ row.line = l /\ row.status = "pending_payment"
  BY <1>1 DEF BookingOf, BookingRow, BookingStatus, PaymentStatus
<1> HIDE DEF row
<1>3. j \in Job
  BY <1>2, RowTypes DEF Job, Kinds
<1>4. j.quote = q /\ j.line = l /\ j.row = row
  BY DEF IdleJob
<1>5. SessionReady("book", j) /\ "book" \in Labels
  BY <1>2, <1>4 DEF SessionReady, Holding, Labels
<1>6. /\ UNCHANGED <<offers, due, lines, bookings, payments, charges, refunds, unacked>>
      /\ quotes' = ExpireQuotes
      /\ At(s, "book", j)
      /\ Request(s)
  BY DEF CreateBookingRead, paystackVars, row
<1>7. offers' \in [Mechanics -> SUBSET Jobs] /\ unacked' \subseteq unacked
  BY <1>6 DEF Inv, TypeOK
<1> HIDE DEF j
<1> QED BY <1>3, <1>5, <1>6, <1>7, Requested, SessionKeeps

\* The second of two bookings of a quote changes nothing.
LEMMA BookKeeps ==
  ASSUME Inv, NEW s \in Sessions, Book(s)
  PROVE  Keeps
<1>q. PICK q \in Quotes, l \in Lines, row \in BookingRow :
        /\ q = job[s].quote /\ l = job[s].line /\ row = job[s].row
        /\ row.line = l /\ row.status = "pending_payment"
  BY JobTypes DEF Book, SessionReady
<1>0. SessionReady("idle", IdleJob) /\ "idle" \in Labels /\ IdleJob \in Job
  BY RowTypes DEF Labels
<1>1. /\ UNCHANGED <<offers, due, charges, refunds, unacked, requests, crashes>>
      /\ At(s, "idle", IdleJob)
  BY DEF Book, Finish, paystackVars
<1>2. CASE bookings[q] # NoBooking
  <2>1. UNCHANGED <<bookings, payments, quotes, lines>>
    BY <1>q, <1>2 DEF Book
  <2>2. /\ offers' \in [Mechanics -> SUBSET Jobs] /\ unacked' \subseteq unacked
        /\ requests' \in 0 .. MaxRequests /\ crashes' \in 0 .. MaxCrashes
    BY <1>1 DEF Inv, TypeOK
  <2> QED BY <1>0, <1>1, <2>1, <2>2, SessionKeeps
<1>3. CASE bookings[q] = NoBooking
  <2> DEFINE chosen == ChosenLines(q, l)
  <2>1. /\ bookings' = [bookings EXCEPT ![q] = row]
        /\ payments' = [payments EXCEPT ![q] = ManualPayment]
        /\ quotes' = [quotes EXCEPT ![q] = "booked"]
        /\ lines' = [lines EXCEPT ![q] = chosen]
    BY <1>q, <1>3 DEF Book
  <2>2. /\ bookings \in [Quotes -> BookingRow]
        /\ payments \in [Quotes -> PaymentRow]
        /\ quotes \in [Quotes -> {"none", "ready", "expired", "booked"}]
        /\ lines \in [Quotes -> [Lines -> LineRow]]
    BY DEF Inv, TypeOK
  <2>3. chosen \in [Lines -> LineRow] /\ \A k \in Lines : chosen[k].status = "selected" => k = l
    <3>1. \A k \in Lines : lines[q][k] \in LineRow
      BY <2>2
    <3>2. ASSUME NEW k \in Lines
          PROVE  chosen[k] \in LineRow /\ (chosen[k].status = "selected" => k = l)
      <4>1. CASE lines[q][k].status = "none"
        BY <3>1, <4>1 DEF ChosenLines
      <4>2. CASE lines[q][k].status # "none"
        <5> DEFINE st == IF k = l THEN "selected" ELSE "declined"
        <5>1. chosen[k] = [lines[q][k] EXCEPT !.status = st]
          BY <4>2 DEF ChosenLines
        <5>2. st \in {"selected", "declined"} /\ (st = "selected" => k = l)
          OBVIOUS
        <5> HIDE DEF st, chosen
        <5> QED BY <3>1, <5>1, <5>2 DEF LineRow
      <4> QED BY <4>1, <4>2
    <3>3. chosen = [k \in Lines |-> chosen[k]]
      BY DEF ChosenLines
    <3> HIDE DEF chosen
    <3> QED BY <3>2, <3>3
  <2> HIDE DEF chosen
  <2>4. Stands
    <3>1. \A x \in Quotes : Booked(x) => bookings'[x] = bookings[x]
      BY <1>3, <2>1, <2>2 DEF Booked
    <3> QED BY <3>1 DEF Stands, Inv, BookingsSound, Booked
  <2>5. SessionReady("idle", IdleJob)'
    BY <1>0, <2>4, ReadyGrows
  <2>6. pc' \in [Sessions -> Labels] /\ job' \in [Sessions -> Job] /\ SessionsReady'
    BY <1>0, <1>1, <2>4, <2>5, SessionStep
  <2>7. /\ bookings' \in [Quotes -> BookingRow]
        /\ payments' \in [Quotes -> PaymentRow]
        /\ quotes' \in [Quotes -> {"none", "ready", "expired", "booked"}]
        /\ lines' \in [Quotes -> [Lines -> LineRow]]
    BY <2>1, <2>2, <2>3, RowTypes
  <2>8. TypeOK'
    BY <1>1, <2>6, <2>7 DEF Inv, TypeOK, Labels, Job
  <2>9. /\ bookings'[q] = row /\ quotes'[q] = "booked" /\ lines'[q] = chosen
        /\ payments'[q] = ManualPayment
        /\ \A x \in Quotes \ {q} : /\ bookings'[x] = bookings[x] /\ quotes'[x] = quotes[x]
                                    /\ lines'[x] = lines[x] /\ payments'[x] = payments[x]
    BY <2>1, <2>2
  <2>10. PaidBeforeWork(row)
    BY <1>q DEF PaidBeforeWork
  <2>11. BookingsSound'
    BY <1>q, <2>9, <2>10 DEF Inv, BookingsSound, Booked
  <2>12. SelectedIsBooked'
    BY <1>q, <2>3, <2>9 DEF Inv, SelectedIsBooked
  <2>13. \A x \in Quotes : Booked(x) => Booked(x)'
    BY <2>4, StandsGrows
  <2>14. PaymentsSound' /\ ChargesSound' /\ RefundsSound'
    BY <1>1, <2>9, <2>13
       DEF Inv, TypeOK, PaymentsSound, ChargesSound, RefundsSound, ManualPayment
  <2> QED BY <2>4, <2>6, <2>8, <2>11, <2>12, <2>14 DEF Keeps, Inv
<1> QED BY <1>2, <1>3

-----------------------------------------------------------------------------
(* Payment of a booking. *)

\* A request that begins by reading a booking.
LEMMA BeginKeeps ==
  ASSUME Inv, NEW s \in Sessions, NEW q \in Quotes, NEW label \in {"call", "payment", "save"},
         NEW kind \in Kinds, label = "save" => kind = "cancel",
         BeginOn(s, label, kind, q)
  PROVE  Keeps
<1> DEFINE j == [IdleJob EXCEPT !.kind = kind, !.quote = q, !.row = bookings[q]]
<1>1. /\ Booked(q) /\ Request(s) /\ At(s, label, j)
      /\ UNCHANGED <<installationVars, bookings, payments, charges, refunds, unacked>>
  BY DEF BeginOn, Booked, paystackVars
<1>2. j \in Job
  BY BookingTypes, RowTypes DEF Job
<1>3. j.quote = q /\ j.kind = kind /\ j.row = bookings[q]
  BY DEF IdleJob
<1>4. RowOf(bookings[q], q)
  BY <1>1, BookingTypes
<1>5. SessionReady(label, j) /\ label \in Labels
  BY <1>1, <1>3, <1>4 DEF SessionReady, Holding, Labels
<1> HIDE DEF j
<1> QED BY <1>1, <1>2, <1>5, Requested, Unwritten, SessionKeeps

\* The session goes on to save the reference, or never hears of it.
LEMMA InitializeCallKeeps ==
  ASSUME Inv, NEW s \in Sessions, NEW ref \in References,
         InitializeCall(s, ref) \/ InitializeUnanswered(s, ref)
  PROVE  Keeps
<1>q. PICK q \in Quotes : q = job[s].quote /\ Booked(q) /\ RowOf(job[s].row, q)
  BY JobTypes DEF InitializeCall, InitializeUnanswered, Opens, SessionReady, Holding
<1>1. /\ UNCHANGED <<installationVars, bookings, payments, refunds, unacked>>
      /\ charges' = [charges EXCEPT ![ref].quote = q]
  BY <1>q DEF InitializeCall, InitializeUnanswered, Opens
<1>2. Stands
  BY <1>1, BookingTypes DEF Stands, RowOf, Booked
<1> DEFINE Moves ==
             \E label \in Labels, j \in Job : At(s, label, j) /\ SessionReady(label, j)
<1>3. ASSUME InitializeCall(s, ref) PROVE Moves
  <2>j. PICK j \in Job : j = [job[s] EXCEPT !.reference = ref]
    BY JobTypes DEF Job
  <2>1. j.quote = q /\ j.row = job[s].row
    BY <2>j, <1>q, JobTypes DEF Job
  <2>2. SessionReady("persist", j) /\ "persist" \in Labels
    BY <1>q, <2>1 DEF SessionReady, Holding, Labels
  <2> QED BY <1>3, <2>j, <2>2 DEF InitializeCall
<1>4. ASSUME InitializeUnanswered(s, ref) PROVE Moves
  BY <1>4, RowTypes DEF InitializeUnanswered, GiveUp, Labels
<1>p. PICK label \in Labels, j \in Job : At(s, label, j) /\ SessionReady(label, j)
  BY <1>3, <1>4
<1>c. requests' \in 0 .. MaxRequests /\ crashes' \in 0 .. MaxCrashes
  BY GivenUp DEF InitializeCall, InitializeUnanswered, Inv, TypeOK
<1>5. pc' \in [Sessions -> Labels] /\ job' \in [Sessions -> Job] /\ SessionsReady'
  BY <1>p, <1>2, ReadyGrows, SessionStep
<1> DEFINE Charge == [quote : Quotes \cup {None}, paid : BOOLEAN]
<1>6. charges \in [References -> Charge]
  BY DEF Inv, TypeOK
<1>7. [charges[ref] EXCEPT !.quote = q] \in Charge
      /\ [charges[ref] EXCEPT !.quote = q].quote = q
  BY <1>6
<1>8. charges' \in [References -> Charge] /\ charges'[ref].quote = q
      /\ \A x \in References \ {ref} : charges'[x] = charges[x]
  BY <1>1, <1>6, <1>7
<1>9. TypeOK'
  BY <1>1, <1>5, <1>8, <1>c DEF Inv, TypeOK, Labels, Job, installationVars
<1>10. None \notin Quotes
  BY InstallationConstants
<1>11. ChargesSound'
  BY <1>1, <1>q, <1>8, <1>10 DEF Inv, ChargesSound, Booked
<1>12. BookingsSound' /\ SelectedIsBooked' /\ PaymentsSound' /\ RefundsSound'
  BY <1>1 DEF Inv, BookingsSound, SelectedIsBooked, PaymentsSound, RefundsSound, Booked,
              installationVars
<1> QED BY <1>2, <1>5, <1>9, <1>11, <1>12 DEF Keeps, Inv

\* The columns of one payment row.
LEMMA PaymentColumns ==
  ASSUME Inv, NEW q \in Quotes, NEW p \in PaymentRow, payments' = [payments EXCEPT ![q] = p]
  PROVE  /\ payments' \in [Quotes -> PaymentRow]
         /\ \A x \in Quotes \ {q} : payments'[x] = payments[x]
<1>1. payments \in [Quotes -> PaymentRow]
  BY DEF Inv, TypeOK
<1> QED BY <1>1

LEMMA PersistKeeps ==
  ASSUME Inv, NEW s \in Sessions, Persist(s)
  PROVE  Keeps
<1> DEFINE p == [payments[job[s].quote] EXCEPT !.paystack = TRUE,
                                               !.reference = job[s].reference]
<1>q. PICK q \in Quotes : q = job[s].quote /\ Booked(q)
  BY JobTypes DEF Persist, SessionReady, Holding
<1>1. /\ UNCHANGED <<installationVars, bookings, charges, refunds, unacked>>
      /\ UNCHANGED <<requests, crashes>>
      /\ At(s, "idle", IdleJob)
  BY DEF Persist, Finish, paystackVars
<1>2. payments \in [Quotes -> PaymentRow] /\ bookings \in [Quotes -> BookingRow]
  BY DEF Inv, TypeOK
<1>3. payments' = [payments EXCEPT ![q] = p]
  BY <1>q, <1>2 DEF Persist
<1>4. p \in PaymentRow
  BY <1>q, <1>2, JobTypes DEF PaymentRow
<1> HIDE DEF p
<1>5. bookings' = [bookings EXCEPT ![q] = bookings[q]]
  BY <1>1, <1>2
<1>6. RowOf(bookings[q], q) /\ bookings[q] \in BookingRow
  BY <1>q, BookingTypes
<1>7. SessionReady("idle", IdleJob) /\ "idle" \in Labels /\ IdleJob \in Job
  BY RowTypes DEF Labels
<1>8. unacked' \subseteq unacked
  BY <1>1
<1> QED BY <1>1, <1>3, <1>4, <1>5, <1>6, <1>7, <1>8, PaymentColumns, SaveKeeps

LEMMA PaidJobKeeps ==
  ASSUME Inv, NEW s \in Sessions, NEW ref \in References, NEW kind \in Kinds,
         charges[ref].paid, At(s, "read", PaidJob(kind, ref)),
         UNCHANGED <<installationVars, bookings, payments, charges, refunds, unacked>>,
         requests' \in 0 .. MaxRequests, crashes' \in 0 .. MaxCrashes
  PROVE  Keeps
<1>1. charges[ref].quote \in Quotes \cup {None}
  BY DEF Inv, TypeOK
<1>2. charges[ref].quote \in Quotes /\ Booked(charges[ref].quote)
  BY <1>1 DEF Inv, ChargesSound
<1>j. PICK j \in Job : j = PaidJob(kind, ref)
  BY <1>1, RowTypes DEF Job, PaidJob
<1>3. j.quote = charges[ref].quote
  BY <1>j DEF PaidJob, IdleJob
<1>4. SessionReady("read", j) /\ "read" \in Labels
  BY <1>2, <1>3 DEF SessionReady, Holding, Labels
<1> QED BY <1>j, <1>4, Unwritten, SessionKeeps

\* A webhook begins within its bound.
LEMMA Hooked ==
  ASSUME Inv, NEW s \in Sessions, NEW event, Hook(s, event)
  PROVE  requests' \in 0 .. MaxRequests /\ crashes' \in 0 .. MaxCrashes
  BY Requested DEF Hook, Inv, TypeOK

LEMMA VerifyKeeps ==
  ASSUME Inv, NEW s \in Sessions, NEW ref \in References, Verify(s, ref) \/ ChargeHook(s, ref)
  PROVE  Keeps
<1>1. PICK kind \in Kinds :
        /\ charges[ref].paid
        /\ At(s, "read", PaidJob(kind, ref))
        /\ UNCHANGED <<installationVars, bookings, payments, charges, refunds, unacked>>
        /\ Request(s) \/ Hook(s, ChargeEvent(ref))
  BY DEF Verify, ChargeHook, paystackVars, Kinds
<1>2. requests' \in 0 .. MaxRequests /\ crashes' \in 0 .. MaxCrashes
  BY <1>1, Requested, Hooked
<1> QED BY <1>1, <1>2, PaidJobKeeps

\* A handler that ends.
LEMMA FinishHookStep ==
  ASSUME Inv, NEW s \in Sessions, FinishHook(s)
  PROVE  /\ At(s, "idle", IdleJob) /\ unacked' \subseteq unacked
         /\ UNCHANGED <<requests, crashes>>
         /\ SessionReady("idle", IdleJob) /\ "idle" \in Labels /\ IdleJob \in Job
<1>1. At(s, "idle", IdleJob) /\ unacked' \subseteq unacked /\ UNCHANGED <<requests, crashes>>
  BY DEF FinishHook, Finish
<1> QED BY <1>1, RowTypes DEF Labels

LEMMA PaidReadKeeps ==
  ASSUME Inv, NEW s \in Sessions, PaidRead(s)
  PROVE  Keeps
<1>q. PICK q \in Quotes : q = job[s].quote /\ Booked(q)
  BY JobTypes DEF PaidRead, SessionReady
<1>1. UNCHANGED <<installationVars, bookings, payments, charges, refunds>>
  BY DEF PaidRead
<1>2. requests \in 0 .. MaxRequests /\ crashes \in 0 .. MaxCrashes
      /\ offers \in [Mechanics -> SUBSET Jobs]
  BY DEF Inv, TypeOK
<1>3. CASE FinishHook(s)
  BY <1>1, <1>2, <1>3, FinishHookStep, SessionKeeps DEF installationVars
<1>4. CASE /\ At(s, "paid", [job[s] EXCEPT !.row = bookings[q]])
           /\ UNCHANGED <<requests, crashes, unacked>>
  <2>j. PICK j \in Job : j = [job[s] EXCEPT !.row = bookings[q]]
    BY JobTypes, BookingTypes DEF Job
  <2>1. j.quote = q /\ j.row = bookings[q]
    BY <1>q, <2>j, JobTypes DEF Job
  <2>2. RowOf(bookings[q], q)
    BY <1>q, BookingTypes
  <2>3. SessionReady("paid", j) /\ "paid" \in Labels
    BY <1>q, <2>1, <2>2 DEF SessionReady, Holding, Labels
  <2> QED BY <1>1, <1>2, <1>4, <2>j, <2>3, SessionKeeps DEF installationVars
<1> QED BY <1>3, <1>4, <1>q DEF PaidRead

LEMMA PaidSaveKeeps ==
  ASSUME Inv, NEW s \in Sessions, PaidSave(s)
  PROVE  Keeps
<1>q. PICK q \in Quotes, old \in BookingRow :
        q = job[s].quote /\ old = job[s].row /\ RowOf(old, q)
  BY JobTypes DEF PaidSave, SessionReady, Holding
<1> DEFINE p == [payments[q] EXCEPT !.paystack = TRUE, !.reference = job[s].reference,
                                    !.status = "paid"]
           row == PaidRow(old)
<1>1. /\ UNCHANGED <<installationVars, charges, refunds>>
      /\ FinishHook(s)
      /\ bookings' = [bookings EXCEPT ![q] = row]
      /\ payments' = [payments EXCEPT ![q] = p]
  BY <1>q DEF PaidSave
<1>2. p \in PaymentRow
  BY BookingTypes, JobTypes DEF PaymentRow, PaymentStatus
<1>3. /\ row \in BookingRow /\ row.status # "none" /\ row.payment = "paid"
      /\ row.line = old.line /\ row.price = old.price
  BY <1>q DEF RowOf, PaidRow, BookingRow, BookingStatus, PaymentStatus
<1>4. RowOf(row, q)
  BY <1>q, <1>3 DEF RowOf, PaidBeforeWork
<1> HIDE DEF p, row
<1> QED BY <1>1, <1>2, <1>3, <1>4, FinishHookStep, PaymentColumns, SaveKeeps

-----------------------------------------------------------------------------
(* Refunds and cancellation. *)

LEMMA PaymentReadKeeps ==
  ASSUME Inv, NEW s \in Sessions, PaymentRead(s)
  PROVE  Keeps
<1>q. PICK q \in Quotes : q = job[s].quote /\ Booked(q) /\ RowOf(job[s].row, q)
  BY JobTypes DEF PaymentRead, SessionReady, Holding
<1>1. UNCHANGED <<installationVars, bookings, payments, charges, refunds, unacked>>
  BY DEF PaymentRead, paystackVars
<1>2. requests \in 0 .. MaxRequests /\ crashes \in 0 .. MaxCrashes
  BY DEF Inv, TypeOK
<1>3. CASE Finish(s)
  <2>1. SessionReady("idle", IdleJob) /\ "idle" \in Labels /\ IdleJob \in Job
    BY RowTypes DEF Labels
  <2> QED BY <1>1, <1>2, <1>3, <2>1, Unwritten, SessionKeeps DEF Finish
<1>4. CASE job[s].kind = "cancel" /\ Continue(s, "save")
  <2>1. SessionReady("save", job[s]) /\ "save" \in Labels /\ job[s] \in Job
    BY <1>q, <1>4, JobTypes DEF SessionReady, Holding, Labels
  <2> QED BY <1>1, <1>2, <1>4, <2>1, Unwritten, SessionKeeps DEF Continue
<1>5. CASE /\ ~Manual(payments[q])
           /\ At(s, "refund", [job[s] EXCEPT !.reference = payments[q].reference])
           /\ UNCHANGED <<requests, crashes>>
  <2>1. payments[q].reference \in References \cup {None} /\ payments[q].reference # None
    BY <1>5, BookingTypes DEF Manual, PaymentRow
  <2>j. PICK j \in Job : j = [job[s] EXCEPT !.reference = payments[q].reference]
    BY <2>1, JobTypes DEF Job
  <2>2. j.quote = q /\ j.row = job[s].row /\ j.reference # None
    BY <1>q, <2>1, <2>j, JobTypes DEF Job
  <2>3. SessionReady("refund", j) /\ "refund" \in Labels
    BY <1>q, <2>2 DEF SessionReady, Holding, Labels
  <2> QED BY <1>1, <1>2, <1>5, <2>j, <2>3, Unwritten, SessionKeeps
<1> QED BY <1>3, <1>4, <1>5, <1>q DEF PaymentRead

\* The session goes on to mark the booking, or never hears of the refund.
LEMMA RefundCallKeeps ==
  ASSUME Inv, NEW s \in Sessions, NEW id \in RefundIds,
         RefundCall(s, id) \/ RefundUnanswered(s, id)
  PROVE  Keeps
<1>q. PICK q \in Quotes, ref \in References :
        /\ q = job[s].quote /\ ref = job[s].reference
        /\ Booked(q) /\ RowOf(job[s].row, q)
  BY JobTypes DEF RefundCall, RefundUnanswered, PaystackAccepts, SessionReady, Holding
<1> DEFINE new == [reference |-> ref, state |-> "queued"]
           Refund == [reference : References \cup {None},
                      state : {"none", "queued", "processed", "failed"}]
<1>1. /\ UNCHANGED <<installationVars, bookings, payments, charges, unacked>>
      /\ refunds' = [refunds EXCEPT ![id] = new]
  BY <1>q DEF RefundCall, RefundUnanswered, PaystackAccepts
<1>n. None \notin References
  BY InstallationConstants
<1>2. Stands
  BY <1>1, BookingTypes DEF Stands, RowOf, Booked
<1> DEFINE Moves ==
             \E label \in Labels, j \in Job : At(s, label, j) /\ SessionReady(label, j)
<1>3. ASSUME RefundCall(s, id) PROVE Moves
  <2>j. PICK j \in Job : j = [job[s] EXCEPT !.refund = id]
    BY JobTypes DEF Job
  <2>1. j.quote = q /\ j.row = job[s].row /\ j.reference = ref
    BY <2>j, <1>q, JobTypes DEF Job
  <2>2. SessionReady("mark", j) /\ "mark" \in Labels
    BY <1>q, <1>n, <2>1 DEF SessionReady, Holding, Labels
  <2> QED BY <1>3, <2>j, <2>2 DEF RefundCall
<1>4. ASSUME RefundUnanswered(s, id) PROVE Moves
  BY <1>4, RowTypes DEF RefundUnanswered, GiveUp, Labels
<1>p. PICK label \in Labels, j \in Job : At(s, label, j) /\ SessionReady(label, j)
  BY <1>3, <1>4
<1>c. requests' \in 0 .. MaxRequests /\ crashes' \in 0 .. MaxCrashes
  BY GivenUp DEF RefundCall, RefundUnanswered, Inv, TypeOK
<1>5. pc' \in [Sessions -> Labels] /\ job' \in [Sessions -> Job] /\ SessionsReady'
  BY <1>p, <1>2, ReadyGrows, SessionStep
<1>6. refunds \in [RefundIds -> Refund] /\ new \in Refund /\ new.reference # None
  BY <1>n DEF Inv, TypeOK
<1> HIDE DEF new
<1>7. /\ refunds' \in [RefundIds -> Refund] /\ refunds'[id] = new
      /\ \A x \in RefundIds \ {id} : refunds'[x] = refunds[x]
  BY <1>1, <1>6
<1>8. TypeOK'
  BY <1>1, <1>5, <1>7, <1>c DEF Inv, TypeOK, Labels, Job, installationVars
<1>9. RefundsSound'
  BY <1>6, <1>7 DEF Inv, RefundsSound
<1>10. BookingsSound' /\ SelectedIsBooked' /\ PaymentsSound' /\ ChargesSound'
  BY <1>1 DEF Inv, BookingsSound, SelectedIsBooked, PaymentsSound, ChargesSound, Booked,
              installationVars
<1> QED BY <1>2, <1>5, <1>8, <1>9, <1>10 DEF Keeps, Inv

LEMMA CallFailsKeeps ==
  ASSUME Inv, NEW s \in Sessions, CallFails(s) \/ Fails(s)
  PROVE  Keeps
<1>1. /\ UNCHANGED <<installationVars, bookings, payments, charges, refunds, unacked>>
      /\ At(s, "idle", IdleJob)
      /\ requests' \in 0 .. MaxRequests /\ crashes' \in 0 .. MaxCrashes
  BY InstallationConstants DEF CallFails, Fails, GiveUp, Finish, paystackVars, Inv, TypeOK
<1>2. SessionReady("idle", IdleJob) /\ "idle" \in Labels /\ IdleJob \in Job
  BY RowTypes DEF Labels
<1> QED BY <1>1, <1>2, Unwritten, SessionKeeps

LEMMA RereadKeeps ==
  ASSUME Inv, NEW s \in Sessions, Reread(s)
  PROVE  Keeps
<1>q. PICK q \in Quotes : q = job[s].quote /\ Booked(q)
  BY JobTypes DEF Reread, SessionReady, Holding
<1>j. PICK j \in Job : j = [job[s] EXCEPT !.row = bookings[q]]
  BY JobTypes, BookingTypes DEF Job
<1> DEFINE label == IF pc[s] = "mark" THEN "marked" ELSE "save"
<1>1. /\ UNCHANGED <<installationVars, bookings, payments, charges, refunds, unacked>>
      /\ UNCHANGED <<requests, crashes>>
      /\ At(s, label, j)
      /\ pc[s] \in {"mark", "reread"}
  BY <1>j, <1>q DEF Reread, paystackVars
<1>2. j.quote = q /\ j.row = bookings[q] /\ j.kind = job[s].kind
  BY <1>j, <1>q, JobTypes DEF Job
<1>3. RowOf(bookings[q], q)
  BY <1>q, BookingTypes
<1>4. label \in {"marked", "save"} /\ (label = "save" => j.kind = "cancel")
  BY <1>1, <1>2, JobTypes DEF SessionReady
<1> HIDE DEF label
<1>5. SessionReady(label, j) /\ label \in Labels
  BY <1>q, <1>2, <1>3, <1>4 DEF SessionReady, Holding, Labels
<1>6. requests' \in 0 .. MaxRequests /\ crashes' \in 0 .. MaxCrashes
  BY <1>1 DEF Inv, TypeOK
<1>7. PICK l \in Labels : l = label
  BY <1>5
<1> QED BY <1>1, <1>5, <1>6, <1>7, Unwritten, SessionKeeps

LEMMA MarkSaveKeeps ==
  ASSUME Inv, NEW s \in Sessions, MarkSave(s)
  PROVE  Keeps
<1>q. PICK q \in Quotes, old \in BookingRow :
        q = job[s].quote /\ old = job[s].row /\ RowOf(old, q)
  BY JobTypes DEF MarkSave, SessionReady, Holding
<1> DEFINE p == [payments[q] EXCEPT !.status = "refunded", !.refund = job[s].refund]
           row == [old EXCEPT !.payment = "refunded"]
<1>1. /\ UNCHANGED <<installationVars, charges, refunds, unacked, requests, crashes>>
      /\ bookings' = [bookings EXCEPT ![q] = row]
      /\ payments' = [payments EXCEPT ![q].status = "refunded", ![q].refund = job[s].refund]
      /\ \/ job[s].kind = "cancel" /\ At(s, "reread", job[s])
         \/ At(s, "idle", IdleJob)
  BY <1>q DEF MarkSave, paystackVars, Continue, Finish
<1>2. payments' = [payments EXCEPT ![q] = p]
  BY <1>1 DEF Inv, TypeOK
<1>3. p \in PaymentRow
  BY BookingTypes, JobTypes DEF PaymentRow, PaymentStatus
<1>4. /\ row \in BookingRow /\ row.status = old.status /\ row.payment = "refunded"
      /\ row.line = old.line /\ row.price = old.price
  BY <1>q DEF BookingRow, PaymentStatus
<1>5. RowOf(row, q)
  BY <1>q, <1>4 DEF RowOf, PaidBeforeWork
<1>6. PICK label \in Labels, j \in Job : At(s, label, j) /\ SessionReady(label, j)
  <2>1. CASE job[s].kind = "cancel" /\ At(s, "reread", job[s])
    BY <1>q, <2>1, JobTypes DEF SessionReady, Holding, Labels, RowOf
  <2>2. CASE At(s, "idle", IdleJob)
    BY <2>2, RowTypes DEF Labels
  <2> QED BY <1>1, <2>1, <2>2
<1> HIDE DEF p, row
<1>7. unacked' \subseteq unacked
  BY <1>1
<1> QED BY <1>1, <1>2, <1>3, <1>4, <1>5, <1>6, <1>7, PaymentColumns, SaveKeeps

LEMMA RefundHookKeeps ==
  ASSUME Inv, NEW s \in Sessions, NEW id \in RefundIds, RefundHook(s, id)
  PROVE  Keeps
<1> DEFINE found == {q \in Quotes : payments[q].reference = refunds[id].reference}
           quote == IF found = {} THEN None ELSE CHOOSE q \in found : TRUE
<1>1. /\ UNCHANGED <<installationVars, bookings, payments, charges, refunds, unacked>>
      /\ Hook(s, RefundEvent(id))
      /\ At(s, "columns", [IdleJob EXCEPT !.kind = "refund hook", !.refund = id,
                                           !.quote = quote])
      /\ refunds[id].state \in {"processed", "failed"}
  BY DEF RefundHook, paystackVars
<1>2. quote = None \/ quote \in found
  OBVIOUS
<1>3. refunds[id].reference # None
  BY <1>1 DEF Inv, RefundsSound
<1>4. \A q \in found : q \in Quotes /\ Booked(q)
  BY <1>3 DEF Inv, PaymentsSound
<1> HIDE DEF quote, found
<1>5. quote \in Quotes \cup {None} /\ (quote # None => Booked(quote))
  BY <1>2, <1>4
<1>j. PICK j \in Job : j = [IdleJob EXCEPT !.kind = "refund hook", !.refund = id,
                                           !.quote = quote]
  BY <1>5, RowTypes DEF Job, Kinds
<1>6. j.quote = quote
  BY <1>j DEF IdleJob
<1>7. SessionReady("columns", j) /\ "columns" \in Labels
  BY <1>5, <1>6 DEF SessionReady, Holding, Labels
<1>8. requests' \in 0 .. MaxRequests /\ crashes' \in 0 .. MaxCrashes
  BY <1>1, Hooked
<1> QED BY <1>1, <1>j, <1>7, <1>8, Unwritten, SessionKeeps

LEMMA RefundColumnsKeeps ==
  ASSUME Inv, NEW s \in Sessions, RefundColumns(s)
  PROVE  Keeps
<1>1. UNCHANGED <<installationVars, charges, refunds>> /\ FinishHook(s)
  BY DEF RefundColumns
<1>2. CASE job[s].quote = None
  <2>1. UNCHANGED <<bookings, payments>>
    BY <1>2 DEF RefundColumns
  <2>2. /\ requests \in 0 .. MaxRequests /\ crashes \in 0 .. MaxCrashes
        /\ offers \in [Mechanics -> SUBSET Jobs]
    BY DEF Inv, TypeOK
  <2> QED BY <1>1, <2>1, <2>2, FinishHookStep, SessionKeeps DEF installationVars
<1>3. CASE job[s].quote # None
  <2>q. PICK q \in Quotes : q = job[s].quote /\ Booked(q)
    BY <1>3, JobTypes DEF RefundColumns, SessionReady
  <2> DEFINE p == [payments[q] EXCEPT !.status = "refunded", !.refund = job[s].refund]
             row == [bookings[q] EXCEPT !.payment = "refunded"]
  <2>1. /\ bookings' = [bookings EXCEPT ![q] = row]
        /\ payments' = [payments EXCEPT ![q] = p]
    BY <1>3, <2>q DEF RefundColumns, Inv, TypeOK
  <2>2. p \in PaymentRow
    BY BookingTypes, JobTypes DEF PaymentRow, PaymentStatus
  <2>3. bookings[q] \in BookingRow /\ RowOf(bookings[q], q)
    BY <2>q, BookingTypes
  <2>4. /\ row \in BookingRow /\ row.status = bookings[q].status /\ row.payment = "refunded"
        /\ row.line = bookings[q].line /\ row.price = bookings[q].price
    BY <2>3 DEF BookingRow, PaymentStatus
  <2>5. RowOf(row, q)
    BY <2>3, <2>4 DEF RowOf, PaidBeforeWork
  <2> HIDE DEF p, row
  <2> QED BY <1>1, <2>1, <2>2, <2>4, <2>5, FinishHookStep, PaymentColumns, SaveKeeps
<1> QED BY <1>2, <1>3

LEMMA SettleLocallyKeeps ==
  ASSUME Inv, NEW s \in Sessions, SettleLocally(s)
  PROVE  Keeps
<1>q. PICK q \in Quotes, old \in BookingRow :
        q = job[s].quote /\ old = job[s].row /\ RowOf(old, q)
  BY JobTypes DEF SettleLocally, SessionReady, Holding
<1> DEFINE p == [payments[q] EXCEPT !.status = "refunded"]
           row == [old EXCEPT !.payment = "refunded"]
<1>1. /\ UNCHANGED <<installationVars, bookings, charges, refunds, unacked>>
      /\ UNCHANGED <<requests, crashes>>
      /\ payments' = [payments EXCEPT ![q] = p]
      /\ job[s].kind = "cancel"
  BY <1>q DEF SettleLocally, paystackVars, Inv, TypeOK
<1>2. p \in PaymentRow
  BY BookingTypes DEF PaymentRow, PaymentStatus
<1>3. /\ row \in BookingRow /\ row.status = old.status /\ row.payment = "refunded"
      /\ row.line = old.line /\ row.price = old.price
  BY <1>q DEF BookingRow, PaymentStatus
<1>4. RowOf(row, q)
  BY <1>q, <1>3 DEF RowOf, PaidBeforeWork
<1>j. PICK j \in Job : j = [job[s] EXCEPT !.row = row]
  BY <1>3, JobTypes DEF Job
<1>5. At(s, "save", j)
  BY <1>q, <1>j, JobTypes DEF SettleLocally, Job
<1>6. j.quote = q /\ j.row = row /\ j.kind = "cancel"
  BY <1>1, <1>q, <1>j, JobTypes DEF Job
<1> HIDE DEF p, row
<1>7. SessionReady("save", j) /\ "save" \in Labels
  BY <1>4, <1>6 DEF SessionReady, Holding, Labels, RowOf
<1>8. bookings' = [bookings EXCEPT ![q] = bookings[q]] /\ unacked' \subseteq unacked
  BY <1>1 DEF Inv, TypeOK
<1>9. RowOf(bookings[q], q) /\ bookings[q] \in BookingRow
  BY <1>q, BookingTypes DEF RowOf
<1> QED BY <1>1, <1>2, <1>5, <1>7, <1>8, <1>9, PaymentColumns, SaveKeeps

-----------------------------------------------------------------------------
(* The mechanic's updates, and the save that ends them and cancellations. *)

LEMMA StatusReadKeeps ==
  ASSUME Inv, NEW s \in Sessions, NEW q \in Quotes, NEW to \in Targets, StatusRead(s, q, to)
  PROVE  Keeps
<1> DEFINE j == [IdleJob EXCEPT !.kind = "status", !.quote = q, !.status = to,
                                !.row = bookings[q]]
<1>1. /\ UNCHANGED <<installationVars, bookings, payments, charges, refunds, unacked>>
      /\ Booked(q) /\ Request(s) /\ At(s, "save", j)
      /\ AllowedTransition(bookings[q].status, to)
  BY DEF StatusRead, paystackVars, Booked
<1>2. to \in BookingStatus /\ to # "none"
  BY InstallationConstants DEF BookingStatus
<1>3. j \in Job
  BY <1>2, BookingTypes, RowTypes DEF Job, Kinds
<1>4. j.quote = q /\ j.status = to /\ j.row = bookings[q]
  BY DEF IdleJob
<1> HIDE DEF j
<1>5. RowOf(bookings[q], q)
  BY <1>1, BookingTypes
<1>6. SessionReady("save", j) /\ "save" \in Labels
  BY <1>1, <1>2, <1>4, <1>5 DEF SessionReady, Holding, Labels
<1> QED BY <1>1, <1>3, <1>6, Requested, Unwritten, SessionKeeps

\* An allowed step of a row's status never starts unpaid work.
LEMMA StatusRowOf ==
  ASSUME NEW q \in Quotes, NEW row \in BookingRow, NEW to \in BookingStatus, RowOf(row, q),
         AllowedTransition(row.status, to)
  PROVE  StatusRow(row, to) \in BookingRow /\ RowOf(StatusRow(row, to), q)
<1> DEFINE new == StatusRow(row, to)
<1>1. /\ new \in BookingRow /\ new.status = to
      /\ new.line = row.line /\ new.price = row.price
      /\ new.payment = IF to = "confirmed" /\ row.payment = "pending" THEN "paid"
                                                                    ELSE row.payment
  BY DEF StatusRow, BookingRow, PaymentStatus
<1> HIDE DEF new
<1>2. PaidBeforeWork(row)
  BY DEF RowOf
<1>3. PaidBeforeWork(new)
  BY <1>1, <1>2 DEF PaidBeforeWork, AllowedTransition
<1>4. to # "none"
  BY DEF BookingStatus
<1>5. RowOf(new, q)
  BY <1>1, <1>3, <1>4 DEF RowOf
<1> QED BY <1>1, <1>5 DEF new

LEMMA BookingSaveKeeps ==
  ASSUME Inv, NEW s \in Sessions, BookingSave(s)
  PROVE  Keeps
<1>q. PICK q \in Quotes, old \in BookingRow :
        q = job[s].quote /\ old = job[s].row /\ RowOf(old, q)
  BY JobTypes DEF BookingSave, SessionReady, Holding
<1>1. /\ UNCHANGED <<installationVars, payments, charges, refunds, unacked>>
      /\ UNCHANGED <<requests, crashes>>
      /\ At(s, "idle", IdleJob)
  BY DEF BookingSave, Finish, paystackVars
<1>2. PICK row \in BookingRow : RowOf(row, q) /\ bookings' = [bookings EXCEPT ![q] = row]
  <2>1. CASE job[s].kind = "cancel"
    <3> DEFINE row == [old EXCEPT !.status = "cancelled"]
    <3>1. /\ row \in BookingRow /\ row.status = "cancelled"
          /\ row.line = old.line /\ row.price = old.price
      BY <1>q DEF BookingRow, BookingStatus
    <3>2. RowOf(row, q)
      BY <1>q, <3>1 DEF RowOf, PaidBeforeWork
    <3>3. bookings' = [bookings EXCEPT ![q] = row]
      BY <1>q, <2>1 DEF BookingSave
    <3> HIDE DEF row
    <3> QED BY <3>1, <3>2, <3>3
  <2>2. CASE job[s].kind # "cancel"
    <3>1. PICK to \in BookingStatus : to = job[s].status /\ AllowedTransition(old.status, to)
      BY <1>q, <2>2, JobTypes DEF BookingSave, SessionReady
    <3>2. bookings' = [bookings EXCEPT ![q] = StatusRow(old, to)]
      BY <1>q, <2>2, <3>1 DEF BookingSave
    <3> QED BY <1>q, <3>1, <3>2, StatusRowOf
  <2> QED BY <2>1, <2>2
<1>3. payments' \in [Quotes -> PaymentRow] /\ unacked' \subseteq unacked
  BY <1>1 DEF Inv, TypeOK
<1>4. SessionReady("idle", IdleJob) /\ "idle" \in Labels /\ IdleJob \in Job
  BY RowTypes DEF Labels
<1> QED BY <1>1, <1>2, <1>3, <1>4, SaveKeeps

-----------------------------------------------------------------------------
(* Time and Paystack. *)

LEMMA FallsDueKeeps ==
  ASSUME Inv, NEW q \in Quotes, FallsDue(q)
  PROVE  Keeps
<1>1. /\ UNCHANGED <<offers, quotes, lines, bookings, payments, charges, refunds, unacked>>
      /\ UNCHANGED <<pc, job, requests, crashes>>
      /\ due' = due \cup {q}
  BY DEF FallsDue, paystackVars
<1>2. SessionsReady'
  BY <1>1 DEF Inv, SessionsReady, SessionReady, RowOf, Booked
<1>3. /\ offers' \in [Mechanics -> SUBSET Jobs] /\ due' \subseteq Quotes
      /\ unacked' \subseteq Events /\ pc' \in [Sessions -> Labels]
      /\ job' \in [Sessions -> Job]
      /\ requests' \in 0 .. MaxRequests /\ crashes' \in 0 .. MaxCrashes
  BY <1>1 DEF Inv, TypeOK, Events, Labels, Job
<1> QED BY <1>1, <1>2, <1>3, TablesRest

\* Paystack changes its own tables only.
LEMMA PaystackKeeps ==
  ASSUME Inv, UNCHANGED <<installationVars, bookings, payments, pc, job>>,
         requests' \in 0 .. MaxRequests, crashes' \in 0 .. MaxCrashes,
         charges' \in [References -> [quote : Quotes \cup {None}, paid : BOOLEAN]],
         refunds' \in [RefundIds -> [reference : References \cup {None},
                                     state : {"none", "queued", "processed", "failed"}]],
         unacked' \subseteq Events,
         ChargesSound', RefundsSound'
  PROVE  Keeps
<1>1. Stands
  BY BookingTypes DEF Stands, RowOf, Booked
<1>2. TypeOK'
  BY DEF Inv, TypeOK, installationVars, Events
<1>3. SessionsReady'
  BY DEF Inv, SessionsReady, SessionReady, RowOf, Booked
<1>4. BookingsSound' /\ SelectedIsBooked' /\ PaymentsSound'
  BY DEF Inv, BookingsSound, SelectedIsBooked, PaymentsSound, Booked, installationVars
<1> QED BY <1>1, <1>2, <1>3, <1>4 DEF Keeps, Inv

LEMMA CustomerPaysKeeps ==
  ASSUME Inv, NEW ref \in References, CustomerPays(ref)
  PROVE  Keeps
<1> DEFINE Charge == [quote : Quotes \cup {None}, paid : BOOLEAN]
           new == [charges[ref] EXCEPT !.paid = TRUE]
<1>1. /\ UNCHANGED <<installationVars, bookings, payments, refunds, pc, job>>
      /\ requests' \in 0 .. MaxRequests /\ crashes' \in 0 .. MaxCrashes
      /\ charges' = [charges EXCEPT ![ref] = new]
      /\ unacked' = unacked \cup {ChargeEvent(ref)}
      /\ charges[ref] # NoCharge /\ ~charges[ref].paid
  BY DEF CustomerPays, Inv, TypeOK
<1>2. charges \in [References -> Charge] /\ charges[ref] \in Charge
  BY DEF Inv, TypeOK
<1>3. new \in Charge /\ new.quote = charges[ref].quote
  BY <1>2
<1>4. charges[ref].quote # None
  BY <1>1, <1>2 DEF NoCharge
<1> HIDE DEF new
<1>5. /\ charges' \in [References -> Charge] /\ charges'[ref] = new
      /\ \A x \in References \ {ref} : charges'[x] = charges[x]
  BY <1>1, <1>2, <1>3
<1>6. \A x \in References : charges'[x].quote = charges[x].quote
  BY <1>3, <1>5
<1>7. ChargesSound'
  BY <1>1, <1>4, <1>5, <1>6 DEF Inv, ChargesSound, Booked
<1>8. unacked' \subseteq Events
  BY <1>1 DEF Inv, TypeOK, Events, ChargeEvent
<1>9. refunds' \in [RefundIds -> [reference : References \cup {None},
                                  state : {"none", "queued", "processed", "failed"}]]
      /\ RefundsSound'
  BY <1>1 DEF Inv, TypeOK, RefundsSound
<1> QED BY <1>1, <1>5, <1>7, <1>8, <1>9, PaystackKeeps

LEMMA RefundSettlesKeeps ==
  ASSUME Inv, NEW id \in RefundIds, NEW outcome \in {"processed", "failed"},
         RefundSettles(id, outcome)
  PROVE  Keeps
<1> DEFINE Refund == [reference : References \cup {None},
                      state : {"none", "queued", "processed", "failed"}]
           new == [refunds[id] EXCEPT !.state = outcome]
<1>1. /\ UNCHANGED <<installationVars, bookings, payments, charges, pc, job>>
      /\ requests' \in 0 .. MaxRequests /\ crashes' \in 0 .. MaxCrashes
      /\ refunds' = [refunds EXCEPT ![id] = new]
      /\ unacked' = unacked \cup {RefundEvent(id)}
      /\ refunds[id].state = "queued"
  BY DEF RefundSettles, Inv, TypeOK
<1>2. refunds \in [RefundIds -> Refund] /\ refunds[id] \in Refund
  BY DEF Inv, TypeOK
<1>3. new \in Refund /\ new.reference = refunds[id].reference
  BY <1>2
<1>4. refunds[id].reference # None
  BY <1>1 DEF Inv, RefundsSound
<1> HIDE DEF new
<1>5. /\ refunds' \in [RefundIds -> Refund] /\ refunds'[id] = new
      /\ \A x \in RefundIds \ {id} : refunds'[x] = refunds[x]
  BY <1>1, <1>2, <1>3
<1>6. RefundsSound'
  BY <1>3, <1>4, <1>5 DEF Inv, RefundsSound
<1>7. unacked' \subseteq Events
  BY <1>1 DEF Inv, TypeOK, Events, RefundEvent
<1>8. charges' \in [References -> [quote : Quotes \cup {None}, paid : BOOLEAN]]
      /\ ChargesSound'
  BY <1>1 DEF Inv, TypeOK, ChargesSound, Booked
<1> QED BY <1>1, <1>5, <1>6, <1>7, <1>8, PaystackKeeps

LEMMA LookupFailsKeeps ==
  ASSUME Inv, NEW s \in Sessions, NEW id \in RefundIds, LookupFails(s, id)
  PROVE  Keeps
<1>1. /\ UNCHANGED <<installationVars, bookings, payments, charges, refunds, pc, job>>
      /\ requests' \in 0 .. MaxRequests /\ crashes' \in 0 .. MaxCrashes
      /\ unacked' \subseteq Events
  BY InstallationConstants DEF LookupFails, Inv, TypeOK, Events
<1>2. charges' \in [References -> [quote : Quotes \cup {None}, paid : BOOLEAN]]
      /\ ChargesSound'
  BY <1>1 DEF Inv, TypeOK, ChargesSound, Booked
<1>3. refunds' \in [RefundIds -> [reference : References \cup {None},
                                 state : {"none", "queued", "processed", "failed"}]]
      /\ RefundsSound'
  BY <1>1 DEF Inv, TypeOK, RefundsSound
<1> QED BY <1>1, <1>2, <1>3, PaystackKeeps

-----------------------------------------------------------------------------
(* The whole system. *)

LEMMA InitInv == Init => Inv
<1> SUFFICES ASSUME Init PROVE Inv
  OBVIOUS
<1>1. 0 \in 0 .. MaxRequests /\ 0 \in 0 .. MaxCrashes
  BY InstallationConstants
<1>2. NoCharge \in [quote : Quotes \cup {None}, paid : BOOLEAN]
  BY DEF NoCharge
<1>3. NoRefund \in [reference : References \cup {None},
                    state : {"none", "queued", "processed", "failed"}]
  BY DEF NoRefund
<1>4. TypeOK
  BY <1>1, <1>2, <1>3, RowTypes DEF Init, Idle, TypeOK, Job
<1>5. SessionsReady
  BY RowTypes DEF Init, Idle, SessionsReady
<1>6. BookingsSound /\ SelectedIsBooked /\ PaymentsSound
  BY DEF Init, BookingsSound, SelectedIsBooked, PaymentsSound, Booked, NoLine, ManualPayment
<1>7. ChargesSound /\ RefundsSound
  BY DEF Init, Idle, ChargesSound, RefundsSound, NoCharge, NoRefund
<1> QED BY <1>4, <1>5, <1>6, <1>7 DEF Inv

LEMMA ClientKeeps ==
  ASSUME Inv, NEW s \in Sessions, Client(s)
  PROVE  Keeps
<1>1. CASE PostQuote(s) \/ GetQuote(s) \/ PutServices(s)
  BY <1>1, CreateQuoteReadKeeps, ReadQuotesKeeps, SetInstallServicesKeeps
     DEF PostQuote, GetQuote, PutServices
<1>2. CASE PostResponse(s) \/ PostBooking(s)
  BY <1>2, RespondReadKeeps, CreateBookingReadKeeps DEF PostResponse, PostBooking
<1>3. CASE PatchCancel(s)
  <2>1. PICK q \in Quotes, label \in {"call", "payment", "save"} : BeginOn(s, label, "cancel", q)
    BY <1>3 DEF PatchCancel, CancelRead
  <2> QED BY <2>1, BeginKeeps DEF Kinds
<1>4. CASE PatchStatus(s)
  BY <1>4, StatusReadKeeps DEF PatchStatus
<1>5. CASE PostPay(s)
  BY <1>5, BeginKeeps DEF PostPay, InitializeRead, Kinds
<1>6. CASE GetVerify(s)
  BY <1>6, VerifyKeeps DEF GetVerify
<1>7. CASE PostRefund(s)
  BY <1>7, BeginKeeps DEF PostRefund, RefundRead, Kinds
<1> QED BY <1>1, <1>2, <1>3, <1>4, <1>5, <1>6, <1>7 DEF Client

LEMMA ServeKeeps ==
  ASSUME Inv, NEW s \in Sessions, Serve(s)
  PROVE  Keeps
  BY CreateQuoteInsertKeeps, RespondSaveKeeps, BookKeeps, InitializeCallKeeps, PersistKeeps,
     PaidReadKeeps, PaidSaveKeeps, PaymentReadKeeps, RefundCallKeeps, CallFailsKeeps,
     RereadKeeps, MarkSaveKeeps, RefundColumnsKeeps, SettleLocallyKeeps, BookingSaveKeeps
     DEF Serve

LEMMA FailureKeeps ==
  ASSUME Inv, NEW s \in Sessions, Failure(s)
  PROVE  Keeps
  BY CallFailsKeeps, InitializeCallKeeps, RefundCallKeeps, LookupFailsKeeps DEF Failure

LEMMA StepsKeep == ASSUME Inv, [Next]_vars PROVE Inv' /\ (Stands \/ UNCHANGED vars)
<1>1. CASE UNCHANGED vars
  <2>1. SessionsReady'
    BY <1>1 DEF vars, Inv, SessionsReady, SessionReady, RowOf, Booked
  <2>2. /\ offers' \in [Mechanics -> SUBSET Jobs] /\ due' \subseteq Quotes
        /\ unacked' \subseteq Events /\ pc' \in [Sessions -> Labels]
        /\ job' \in [Sessions -> Job]
        /\ requests' \in 0 .. MaxRequests /\ crashes' \in 0 .. MaxCrashes
        /\ UNCHANGED <<quotes, lines, bookings, payments, charges, refunds>>
    BY <1>1 DEF vars, Inv, TypeOK, Events, Labels, Job
  <2> QED BY <1>1, <2>1, <2>2, TablesRest DEF Keeps
<1>2. ASSUME NEW s \in Sessions, Client(s) \/ Webhook(s) \/ Serve(s) \/ Failure(s) PROVE Keeps
  BY <1>2, ClientKeeps, ServeKeeps, VerifyKeeps, RefundHookKeeps, FailureKeeps DEF Webhook
<1>3. CASE World
  BY <1>3, FallsDueKeeps, CustomerPaysKeeps, RefundSettlesKeeps DEF World, Keeps
<1> QED BY <1>1, <1>2, <1>3 DEF Next, Keeps

\* What holds of quotes, bookings, payments and sessions in every reachable state.
THEOREM InvHolds == Spec => []Inv
<1>1. Inv /\ [Next]_vars => Inv'
  BY StepsKeep
<1> QED BY <1>1, InitInv, PTL DEF Spec

\* TypeOK: every variable has its type, whatever rows were saved over which.
THEOREM TypesHold == Spec => []TypeOK
<1>1. Inv => TypeOK
  BY DEF Inv
<1> QED BY <1>1, InvHolds, PTL

\* SelectedIsBooked: no line is selected that nobody booked, whatever expires, is answered
\* or is booked at the same time.
THEOREM SelectedLinesAreBooked == Spec => []SelectedIsBooked
<1>1. Inv => SelectedIsBooked
  BY DEF Inv
<1> QED BY <1>1, InvHolds, PTL

\* NoUnpaidWork: no booking past its payment says pending, though mechanics, customers and
\* webhooks save rows they read before the others' changes.
THEOREM WorkIsPaid == Spec => []NoUnpaidWork
<1>1. Inv => NoUnpaidWork
  <2> SUFFICES ASSUME Inv, NEW q \in Quotes,
                      bookings[q].status \in {"confirmed", "en_route", "in_progress", "completed"}
               PROVE  bookings[q].payment # "pending"
    BY DEF NoUnpaidWork
  <2>1. Booked(q)
    BY DEF Booked, NoBooking
  <2> QED BY <2>1 DEF Inv, BookingsSound, PaidBeforeWork
<1> QED BY <1>1, InvHolds, PTL

\* BookingStands: of two bookings of a quote the second changes nothing, and no save of a
\* stale row takes the line or the price of the first away.
THEOREM BookingsStand == Spec => BookingStands
<1>1. Inv /\ [Next]_vars =>
        [\A q \in Quotes :
           bookings[q] # NoBooking =>
             /\ bookings'[q].line = bookings[q].line
             /\ bookings'[q].price = bookings[q].price
             /\ bookings'[q].status # "none"]_vars
  BY StepsKeep DEF Stands
<1> QED BY <1>1, InvHolds, PTL DEF Spec, BookingStands
=============================================================================
