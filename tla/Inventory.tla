------------------------------ MODULE Inventory ------------------------------
(***************************************************************************)
(* Stock of the store: product rows, the stock_movements ledger, the       *)
(* orders that take stock and the cancellations that give it back, and the *)
(* low-stock alerts (internal/services/inventory_service.go,               *)
(* internal/services/order_service.go and the handlers that write product  *)
(* rows).                                                                  *)
(*                                                                         *)
(* The database is Postgres at its default level, READ COMMITTED, reached  *)
(* through GORM.  A First or Find reads the last committed row, or the     *)
(* transaction's own write, and takes no lock.  A Save writes EVERY column *)
(* of the struct that was read earlier; it waits for the lock of its row   *)
(* and holds it until the transaction ends.  What a transaction has        *)
(* written is private until it commits, so the statements that follow a    *)
(* Save on the row it has locked are part of the Save's action.            *)
(***************************************************************************)
EXTENDS Integers, Sequences, FiniteSets

CONSTANTS
  Sessions,          \* the goroutines that serve requests
  Products,
  Orders,            \* the identities new orders can get
  Users,
  InitCarts,         \* the carts a run starts from: a set of [Users -> Seq(Line)]
  InitStock,         \* [Products -> Nat]
  InitThreshold,     \* [Products -> Nat]
  Thresholds,        \* the values the threshold requests carry
  Quantities,        \* the non-zero deltas of stock requests
  Statuses,          \* the statuses an administrator sets by hand
  DefaultThreshold,  \* models.DefaultLowStockThreshold
  Recipients,        \* a sequence: the administrators, then the vendor
  Admins,            \* how many of them are administrators
  Kinds,             \* the requests this instance's clients send
  MaxRequests,       \* bound: requests started in a behaviour
  MaxCrashes,        \* bound: process crashes in a behaviour
  None

AllKinds ==
  {"order", "cancel", "adjust", "update", "settings", "bulk", "status", "scan"}

OrderStatus ==
  {"pending", "confirmed", "processing", "shipped", "delivered", "cancelled"}

Line == [product : Products, qty : Int]

Recipient == {Recipients[i] : i \in DOMAIN Recipients}

ASSUME ConstantsAssumption ==
  /\ Products \cap Orders = {}
  /\ None \notin Sessions \cup Products \cup Orders \cup Users
  /\ InitStock \in [Products -> Nat]
  /\ InitThreshold \in [Products -> Nat]
  /\ InitCarts \subseteq [Users -> Seq(Line)]
  /\ Thresholds \subseteq Int
  /\ Quantities \subseteq Int \ {0}
  /\ Statuses \subseteq OrderStatus
  /\ Recipients \in Seq(Recipient) \ {<<>>}
  /\ Admins \in 0..Len(Recipients)
  /\ DefaultThreshold \in Nat \ {0}
  /\ Kinds \subseteq AllKinds
  /\ MaxRequests \in Nat
  /\ MaxCrashes \in Nat

VARIABLES
  products,  \* the committed product rows
  ledger,    \* per product, the committed stock_movements rows in commit order
  orders,    \* the committed order rows
  cart,      \* cart_items, per user
  locks,     \* row locks: the session whose open transaction wrote the row
  pc,        \* where each session is in its request
  tx,        \* what each session has read and, inside its transaction, written
  scan,      \* the worker's ScanLowStock: the products listed and still to visit
  alerts,    \* the sendLowStockAlerts goroutines under way
  sent,      \* the notifications table, for low-stock notifications
  requests,  \* requests started so far
  crashes,   \* crashes so far
  \* History, which no action reads:
  missed,    \* the notifications that failed or went with their process
  overtaken, \* the rows that were written while another request held its copy
  reopened   \* the orders an administrator set back to pending

history == <<missed, overtaken, reopened>>

vars == <<products, ledger, orders, cart, locks, pc, tx, scan, alerts, sent,
          requests, crashes, missed, overtaken, reopened>>

-----------------------------------------------------------------------------
(* Rows and types. *)

Row == [stock : Int, threshold : Int, notified : BOOLEAN, cycle : Nat]

Movement ==
  [delta : Int, after : Int, reason : {"order", "cancel", "adjustment"},
   ref : Orders \cup {None}]

\* An order identity no row has yet.
NoOrder == [status |-> "none", lines |-> <<>>]

BlankRow == [stock |-> 0, threshold |-> 0, notified |-> FALSE, cycle |-> 0]

\* A session between requests.
IdleTx ==
  [kind |-> "none", user |-> None, order |-> None, todo |-> <<>>, lines |-> <<>>,
   row |-> BlankRow, work |-> [p \in Products |-> BlankRow],
   entries |-> [p \in Products |-> <<>>]]

Tx ==
  [kind : AllKinds \cup {"none"}, user : Users \cup {None}, order : Orders \cup {None},
   todo : Seq(Line), lines : Seq(Line), row : Row, work : [Products -> Row],
   entries : [Products -> Seq(Movement)]]

NoScan == [todo |-> {}, rows |-> [p \in Products |-> BlankRow]]

TypeOK ==
  /\ products \in [Products -> Row]
  /\ ledger \in [Products -> Seq(Movement)]
  /\ orders \in [Orders -> [status : OrderStatus \cup {"none"}, lines : Seq(Line)]]
  /\ cart \in [Users -> Seq(Line)]
  /\ locks \in [Products \cup Orders -> Sessions \cup {None}]
  /\ pc \in [Sessions -> {"idle", "check", "read", "save", "commit", "clear",
                          "ordersave", "rowsave"}]
  /\ tx \in [Sessions -> Tx]
  /\ scan \in [todo : SUBSET Products, rows : [Products -> Row]]
  /\ alerts \subseteq [product : Products, cycle : Nat, next : Nat \ {0},
                       by : {"api", "worker"}]
  /\ sent \subseteq [product : Products, cycle : Nat, user : Recipient]
  /\ requests \in Nat
  /\ crashes \in Nat
  /\ missed \subseteq [product : Products, cycle : Nat, user : Recipient]
  /\ overtaken \subseteq Products \cup Orders
  /\ reopened \subseteq Orders

-----------------------------------------------------------------------------
(* handleThreshold on a product struct. *)

Threshold(row) ==
  IF row.threshold <= 0 THEN DefaultThreshold ELSE row.threshold

IsLow(row) == row.stock <= Threshold(row)

\* The goroutine that tells people is started at a first crossing only.
CrossesLow(row) == IsLow(row) /\ ~row.notified

HandleThreshold(row) ==
  [row EXCEPT !.notified = IsLow(row),
              !.cycle = IF CrossesLow(row) THEN @ + 1 ELSE @]

\* `go s.sendLowStockAlerts`: it does not wait for the transaction to commit.
SpawnFor(p, row, cycle, who) ==
  alerts' = IF CrossesLow(row)
            THEN alerts \cup {[product |-> p, cycle |-> cycle, next |-> 1, by |-> who]}
            ELSE alerts

\* Mutant: the goroutine gets the cycle as it was before the crossing.
SpawnAlertEarly(p, row, who) == SpawnFor(p, row, row.cycle, who)

SpawnAlert(p, row, who) == SpawnFor(p, row, row.cycle + 1, who)

-----------------------------------------------------------------------------
(* Transactions. *)

Target(s) == Head(tx[s].todo).product

\* An order takes its quantities out of stock, every other request puts them in.
Delta(s) == IF tx[s].kind = "order" THEN -Head(tx[s].todo).qty
                                    ELSE Head(tx[s].todo).qty

Wrote(s, p) == tx[s].entries[p] # <<>>

\* What a First inside the transaction of s returns.
View(s, p) == IF Wrote(s, p) THEN tx[s].work[p] ELSE products[p]

MayWrite(s, row) == locks[row] \in {None, s}

Unlocked(s) == [r \in DOMAIN locks |-> IF locks[r] = s THEN None ELSE locks[r]]

\* The row a blocked statement of s waits for.
Wanted(s) == IF pc[s] = "ordersave" THEN tx[s].order ELSE Target(s)

Blocked(s) == /\ pc[s] \in {"save", "ordersave"}
              /\ ~MayWrite(s, Wanted(s))

\* s is on a cycle of transactions each waiting for the next one's row.
Deadlocked(s) ==
  \E ring \in SUBSET {t \in Sessions : Blocked(t)} :
     /\ s \in ring
     /\ {locks[Wanted(t)] : t \in ring} = ring

\* s has read the row of p and may still save what it read.
HoldsRow(s, p) ==
  \/ Wrote(s, p)
  \/ pc[s] \in {"save", "rowsave"} /\ Target(s) = p

\* s has seen o pending and will cancel it.
Cancels(s, o) == tx[s].kind = "cancel" /\ tx[s].order = o

\* The rows among these that another request has in hands when s writes them.
InHands(s, rows) ==
  {r \in rows : \E t \in Sessions \ {s} :
                   IF r \in Products THEN HoldsRow(t, r) ELSE Cancels(t, r)}

Start(s, kind) ==
  /\ kind \in Kinds
  /\ pc[s] = "idle"
  /\ requests < MaxRequests
  /\ requests' = requests + 1

\* Mutant: a request that fails leaves its transaction open.
RollbackLeftOpen(s) ==
  /\ tx' = [tx EXCEPT ![s] = IdleTx]
  /\ pc' = [pc EXCEPT ![s] = "idle"]
  /\ UNCHANGED <<products, ledger, orders, cart, locks, scan, alerts, sent,
                 requests, crashes, history>>

Rollback(s) ==
  /\ locks' = Unlocked(s)
  /\ tx' = [tx EXCEPT ![s] = IdleTx]
  /\ pc' = [pc EXCEPT ![s] = "idle"]
  /\ UNCHANGED <<products, ledger, orders, cart, scan, alerts, sent, requests,
                 crashes, history>>

\* Postgres ends a deadlock by failing one of the waiting statements.
DeadlockVictim(s) == Deadlocked(s) /\ Rollback(s)

-----------------------------------------------------------------------------
(* OrderService.Create.  The addresses are the user's and always exist.   *)

OrderStart(s, u) ==
  /\ Start(s, "order")
  /\ cart[u] # <<>>
  /\ tx' = [tx EXCEPT ![s] = [IdleTx EXCEPT !.kind = "order", !.user = u,
                                            !.todo = cart[u]]]
  /\ pc' = [pc EXCEPT ![s] = "check"]
  /\ UNCHANGED <<products, ledger, orders, cart, locks, scan, alerts, sent,
                 crashes, history>>

\* productRepo.GetByID for one cart line; a line the stock cannot serve is skipped.
CheckLine(s) ==
  /\ pc[s] = "check"
  /\ tx[s].todo # <<>>
  /\ LET line == Head(tx[s].todo)
     IN tx' = [tx EXCEPT ![s].todo = Tail(@),
                         ![s].lines = IF products[line.product].stock < line.qty
                                      THEN @ ELSE Append(@, line)]
  /\ UNCHANGED <<products, ledger, orders, cart, locks, pc, scan, alerts, sent,
                 requests, crashes, history>>

\* No line left: ErrEmptyCart.
NothingToOrder(s) ==
  /\ pc[s] = "check"
  /\ tx[s].todo = <<>>
  /\ tx[s].lines = <<>>
  /\ Rollback(s)

\* Identities no order has, committed or not; which one BeforeCreate makes up does
\* not matter.
FreshOrders == {o \in Orders : orders[o] = NoOrder /\ locks[o] = None}

\* The transaction begins by inserting the order row, under a new identity.
InsertOrder(s, o) ==
  /\ pc[s] = "check"
  /\ tx[s].todo = <<>>
  /\ tx[s].lines # <<>>
  /\ o \in FreshOrders
  /\ o = CHOOSE fresh \in FreshOrders : TRUE
  /\ locks' = [locks EXCEPT ![o] = s]
  /\ tx' = [tx EXCEPT ![s].order = o, ![s].todo = tx[s].lines]
  /\ pc' = [pc EXCEPT ![s] = "read"]
  /\ UNCHANGED <<products, ledger, orders, cart, scan, alerts, sent, requests,
                 crashes, history>>

\* cartRepo.Clear, after the commit and outside of it: every row of the user.
ClearCart(s) ==
  /\ pc[s] = "clear"
  /\ cart' = [cart EXCEPT ![tx[s].user] = <<>>]
  /\ tx' = [tx EXCEPT ![s] = IdleTx]
  /\ pc' = [pc EXCEPT ![s] = "idle"]
  /\ UNCHANGED <<products, ledger, orders, locks, scan, alerts, sent, requests,
                 crashes, history>>

-----------------------------------------------------------------------------
(* OrderService.Cancel and UpdateStatus. *)

\* Mutant: any order can be cancelled.
CancellableAlways(order) == order # NoOrder

Cancellable(order) == order.status = "pending"

\* The order is read, and its status tested, before the transaction.
CancelStart(s, o) ==
  /\ Start(s, "cancel")
  /\ Cancellable(orders[o])
  /\ tx' = [tx EXCEPT ![s] = [IdleTx EXCEPT !.kind = "cancel", !.order = o,
                                            !.todo = orders[o].lines,
                                            !.lines = orders[o].lines]]
  /\ pc' = [pc EXCEPT ![s] = "ordersave"]
  /\ UNCHANGED <<products, ledger, orders, cart, locks, scan, alerts, sent,
                 crashes, history>>

CancelSave(s) ==
  /\ pc[s] = "ordersave"
  /\ MayWrite(s, tx[s].order)
  /\ locks' = [locks EXCEPT ![tx[s].order] = s]
  /\ pc' = [pc EXCEPT ![s] = "read"]
  /\ UNCHANGED <<products, ledger, orders, cart, tx, scan, alerts, sent,
                 requests, crashes, history>>

\* UpdateStatus: any status from any status, and no stock moves.  What it saves
\* does not depend on the status it read, so the read is not a step of its own.
UpdateStatus(s, o, status) ==
  /\ Start(s, "status")
  /\ orders[o] # NoOrder
  /\ locks[o] = None
  /\ orders' = [orders EXCEPT ![o].status = status]
  /\ reopened' = IF status = "pending" /\ ~Cancellable(orders[o])
                 THEN reopened \cup {o} ELSE reopened
  /\ UNCHANGED <<products, ledger, cart, locks, pc, tx, scan, alerts, sent, crashes,
                 missed, overtaken>>

-----------------------------------------------------------------------------
(* adjustStockTx, one line of the transaction at a time. *)

\* AdjustStock without a surrounding transaction (PATCH .../stock).
AdjustStart(s, p, qty) ==
  /\ Start(s, "adjust")
  /\ tx' = [tx EXCEPT ![s] = [IdleTx EXCEPT !.kind = "adjust",
                                !.todo = <<[product |-> p, qty |-> qty]>>]]
  /\ pc' = [pc EXCEPT ![s] = "read"]
  /\ UNCHANGED <<products, ledger, orders, cart, locks, scan, alerts, sent,
                 crashes, history>>

\* Mutants: no check, or one of the quantity before the change.
StockAllowsAll(row, delta) == TRUE
StockAllowsBefore(row, delta) == row.stock >= 0

StockAllows(row, delta) == row.stock + delta >= 0

AdjustRead(s) ==
  /\ pc[s] = "read"
  /\ StockAllows(View(s, Target(s)), Delta(s))
  /\ tx' = [tx EXCEPT ![s].row = View(s, Target(s))]
  /\ pc' = [pc EXCEPT ![s] = "save"]
  /\ UNCHANGED <<products, ledger, orders, cart, locks, scan, alerts, sent,
                 requests, crashes, history>>

\* Mutant: a line that fails is left out, as in the check before the transaction.
AdjustSkip(s) ==
  /\ pc[s] = "read"
  /\ ~StockAllows(View(s, Target(s)), Delta(s))
  /\ tx' = [tx EXCEPT ![s].todo = Tail(@)]
  /\ pc' = [pc EXCEPT ![s] = IF Tail(tx[s].todo) = <<>> THEN "commit" ELSE "read"]
  /\ UNCHANGED <<products, ledger, orders, cart, locks, scan, alerts, sent,
                 requests, crashes, history>>

\* ErrInvalidStockDelta: the whole transaction is rolled back.
AdjustRefuse(s) ==
  /\ pc[s] = "read"
  /\ ~StockAllows(View(s, Target(s)), Delta(s))
  /\ Rollback(s)

\* Mutant: the request's own word for it is stored.
ReasonAsGiven(kind) == kind

Reason(kind) == IF kind \in {"order", "cancel"} THEN kind ELSE "adjustment"

\* The struct AdjustRead returned, with the new quantity, is what is saved.
\* Mutant: the sign of the movement is lost.
AdjustedRowUp(s) == [tx[s].row EXCEPT !.stock = @ + Head(tx[s].todo).qty]

AdjustedRow(s) == [tx[s].row EXCEPT !.stock = @ + Delta(s)]

AdjustMovement(s) ==
  [delta |-> Delta(s), after |-> AdjustedRow(s).stock, reason |-> Reason(tx[s].kind),
   ref |-> tx[s].order]

\* The transaction with the row and the movement of this line in it.
AdjustedTx(s) ==
  LET p == Target(s)
  IN [tx[s] EXCEPT !.work[p] = HandleThreshold(AdjustedRow(s)),
                   !.entries[p] = Append(@, AdjustMovement(s)),
                   !.todo = Tail(@),
                   !.row = BlankRow]

\* Save, the movement, handleThreshold and its goroutine.
AdjustSave(s) ==
  /\ pc[s] = "save"
  /\ MayWrite(s, Target(s))
  /\ locks' = [locks EXCEPT ![Target(s)] = s]
  /\ tx' = [tx EXCEPT ![s] = AdjustedTx(s)]
  /\ SpawnAlert(Target(s), AdjustedRow(s), "api")
  /\ pc' = [pc EXCEPT ![s] = IF Tail(tx[s].todo) = <<>> THEN "commit" ELSE "read"]
  /\ UNCHANGED <<products, ledger, orders, cart, scan, sent, requests, crashes,
                 history>>

\* Mutant: Cancel forgets to save the order.
CommittedOrderUnsaved(s) ==
  CASE tx[s].kind = "order" -> [status |-> "pending", lines |-> tx[s].lines]
    [] tx[s].kind = "cancel" -> orders[tx[s].order]

CommittedOrder(s) ==
  CASE tx[s].kind = "order" -> [status |-> "pending", lines |-> tx[s].lines]
    [] tx[s].kind = "cancel" -> [orders[tx[s].order] EXCEPT !.status = "cancelled"]

\* The rows the transaction of s has changed.
Written(s) ==
  {p \in Products : Wrote(s, p)} \cup {o \in Orders : Cancels(s, o)}

Commit(s) ==
  /\ pc[s] = "commit"
  /\ products' = [p \in Products |-> View(s, p)]
  /\ ledger' = [p \in Products |-> ledger[p] \o tx[s].entries[p]]
  /\ orders' = IF tx[s].order = None THEN orders
               ELSE [orders EXCEPT ![tx[s].order] = CommittedOrder(s)]
  /\ locks' = Unlocked(s)
  /\ IF tx[s].kind = "order"
     THEN /\ tx' = [tx EXCEPT ![s] = [IdleTx EXCEPT !.kind = "order",
                                                    !.user = tx[s].user]]
          /\ pc' = [pc EXCEPT ![s] = "clear"]
     ELSE /\ tx' = [tx EXCEPT ![s] = IdleTx]
          /\ pc' = [pc EXCEPT ![s] = "idle"]
  /\ overtaken' = overtaken \cup InHands(s, Written(s))
  /\ UNCHANGED <<cart, scan, alerts, sent, requests, crashes, missed, reopened>>

-----------------------------------------------------------------------------
(* Requests that save a whole product row they read earlier. *)

\* UpdateSettings ("settings") and ProductHandler.Update ("update").
RowRead(s, kind, p) ==
  /\ kind \in {"settings", "update"}
  /\ Start(s, kind)
  /\ tx' = [tx EXCEPT ![s] = [IdleTx EXCEPT !.kind = kind, !.row = products[p],
                                !.todo = <<[product |-> p, qty |-> 0]>>]]
  /\ pc' = [pc EXCEPT ![s] = "rowsave"]
  /\ UNCHANGED <<products, ledger, orders, cart, locks, scan, alerts, sent,
                 crashes, history>>

SavedRow(s, threshold) == [tx[s].row EXCEPT !.threshold = threshold]

SaveRow(s, threshold) ==
  /\ pc[s] = "rowsave"
  /\ locks[Target(s)] = None
  /\ products' = [products EXCEPT ![Target(s)] = SavedRow(s, threshold)]
  /\ overtaken' = overtaken \cup InHands(s, {Target(s)})
  /\ UNCHANGED <<ledger, orders, cart, locks, scan, alerts, sent, requests, crashes,
                 missed, reopened>>

SettingsSave(s, threshold) ==
  /\ tx[s].kind = "settings"
  /\ threshold >= 0
  /\ SaveRow(s, threshold)
  /\ tx' = [tx EXCEPT ![s] = IdleTx]
  /\ pc' = [pc EXCEPT ![s] = "idle"]

\* The product form: the row as read with a new threshold or the one it had; when
\* the form holds a stock quantity other than the one read, AdjustStock follows.
UpdateSave(s, threshold, quantity) ==
  /\ tx[s].kind = "update"
  /\ SaveRow(s, threshold)
  /\ IF quantity = tx[s].row.stock
     THEN /\ tx' = [tx EXCEPT ![s] = IdleTx]
          /\ pc' = [pc EXCEPT ![s] = "idle"]
     ELSE /\ tx' = [tx EXCEPT ![s].row = BlankRow,
                   ![s].todo = <<[product |-> Target(s),
                                  qty |-> quantity - tx[s].row.stock]>>]
          /\ pc' = [pc EXCEPT ![s] = "read"]

\* One UPDATE of one column, for a set of products.
BulkSetThreshold(s, chosen, threshold) ==
  /\ Start(s, "bulk")
  /\ threshold > 0
  /\ \A p \in chosen : locks[p] = None
  /\ products' = [p \in Products |->
        IF p \in chosen THEN [products[p] EXCEPT !.threshold = threshold]
                        ELSE products[p]]
  /\ UNCHANGED <<ledger, orders, cart, locks, pc, tx, scan, alerts, sent,
                 crashes, history>>

-----------------------------------------------------------------------------
(* The worker: ScanLowStock, and the delivery of alerts. *)

\* Mutant: a product exactly at its threshold is not listed.
UnnotifiedBelow(row) == row.stock < row.threshold /\ ~row.notified

\* ListUnnotifiedLowStock's query compares with the stored threshold, where
\* handleThreshold takes DefaultThreshold for a stored one of 0 or less.
Unnotified(row) == row.stock <= row.threshold /\ ~row.notified

ScanList ==
  /\ "scan" \in Kinds
  /\ scan = NoScan
  /\ \E p \in Products : Unnotified(products[p])
  /\ scan' = [todo |-> {p \in Products : Unnotified(products[p])},
              rows |-> products]
  /\ UNCHANGED <<products, ledger, orders, cart, locks, pc, tx, alerts, sent,
                 requests, crashes, history>>

\* Mutant: the whole listed row is saved.
ScannedRowWhole(p) == HandleThreshold(scan.rows[p])

\* handleThreshold on the listed row: only the two alert columns are written.
ScannedRow(p) ==
  LET row == HandleThreshold(scan.rows[p])
  IN [products[p] EXCEPT !.notified = row.notified, !.cycle = row.cycle]

ScanVisit(p) ==
  LET left == scan.todo \ {p}
  IN /\ p \in scan.todo
     /\ locks[p] = None
     /\ products' = [products EXCEPT ![p] = ScannedRow(p)]
     /\ SpawnAlert(p, scan.rows[p], "worker")
     /\ scan' = IF left = {} THEN NoScan ELSE [scan EXCEPT !.todo = left]
     /\ UNCHANGED <<ledger, orders, cart, locks, pc, tx, sent, requests,
                    crashes, history>>

\* The key of a low-stock notification: the product and its alert cycle.
AlertKey(n) == <<n.product, n.cycle>>

\* The notification of the alert's i-th recipient.
Notification(a, i) ==
  [product |-> a.product, cycle |-> a.cycle, user |-> Recipients[i]]

\* The goroutine has done with its recipients up to the i-th, and ends with the last.
DoneWith(a, i) ==
  alerts' = (alerts \ {a}) \cup
     (IF i = Len(Recipients) THEN {} ELSE {[a EXCEPT !.next = i + 1]})

\* notifier.LowStockAlert for the next recipient.  The unique index on the key
\* makes the check and the insert of Notify one step.
DeliverAlert(a) ==
  /\ a.next <= Len(Recipients)
  /\ sent' = IF \E n \in sent : AlertKey(n) = AlertKey(a)
             THEN sent
             ELSE sent \cup {Notification(a, a.next)}
  /\ DoneWith(a, a.next)
  /\ UNCHANGED <<products, ledger, orders, cart, locks, pc, tx, scan, requests,
                 crashes, history>>

\* Mutant: the goroutine returns at the first error.
PassOverReturns(a, last) ==
  /\ missed' = missed \cup {Notification(a, a.next)}
  /\ alerts' = alerts \ {a}
  /\ UNCHANGED <<products, ledger, orders, cart, locks, pc, tx, scan, sent, requests,
                 crashes, overtaken, reopened>>

\* Errors are dropped: the goroutine goes on to the recipient after the last one missed.
PassOver(a, last) ==
  /\ missed' = missed \cup {Notification(a, i) : i \in a.next..last}
  /\ DoneWith(a, last)
  /\ UNCHANGED <<products, ledger, orders, cart, locks, pc, tx, scan, sent, requests,
                 crashes, overtaken, reopened>>

\* Notify fails for the next recipient.
NotifyFails(a) == a.next <= Len(Recipients) /\ PassOver(a, a.next)

\* userRepo.ListByRole fails: no administrator is told, only the vendor if there is one.
ListAdminsFails(a) == a.next = 1 /\ Admins > 0 /\ PassOver(a, Admins)

-----------------------------------------------------------------------------
(* Crashes: open transactions are rolled back and goroutines disappear. *)

\* The recipients a goroutine of this process has not come to hear nothing.
LoseAlerts(who) ==
  LET gone == {a \in alerts : a.by = who}
  IN /\ alerts' = alerts \ gone
     /\ missed' = missed \cup
          UNION {{Notification(a, i) : i \in a.next..Len(Recipients)} : a \in gone}

ApiCrash ==
  /\ crashes < MaxCrashes
  /\ crashes' = crashes + 1
  /\ locks' = [r \in DOMAIN locks |-> None]
  /\ tx' = [s \in Sessions |-> IdleTx]
  /\ pc' = [s \in Sessions |-> "idle"]
  /\ LoseAlerts("api")
  /\ UNCHANGED <<products, ledger, orders, cart, scan, sent, requests, overtaken,
                 reopened>>

WorkerCrash ==
  /\ crashes < MaxCrashes
  /\ crashes' = crashes + 1
  /\ scan' = NoScan
  /\ LoseAlerts("worker")
  /\ UNCHANGED <<products, ledger, orders, cart, locks, pc, tx, sent, requests,
                 overtaken, reopened>>

-----------------------------------------------------------------------------
(* The specification. *)

Init ==
  /\ products = [p \in Products |-> [stock |-> InitStock[p],
                                     threshold |-> InitThreshold[p],
                                     notified |-> FALSE, cycle |-> 0]]
  /\ ledger = [p \in Products |-> <<>>]
  /\ orders = [o \in Orders |-> NoOrder]
  /\ cart \in InitCarts
  /\ locks = [r \in Products \cup Orders |-> None]
  /\ pc = [s \in Sessions |-> "idle"]
  /\ tx = [s \in Sessions |-> IdleTx]
  /\ scan = NoScan
  /\ alerts = {}
  /\ sent = {}
  /\ requests = 0
  /\ crashes = 0
  /\ missed = {}
  /\ overtaken = {}
  /\ reopened = {}

\* A client sends a request.
Request(s) ==
  \/ \E u \in Users : OrderStart(s, u)
  \/ \E o \in Orders : CancelStart(s, o)
  \/ \E o \in Orders, status \in Statuses : UpdateStatus(s, o, status)
  \/ \E p \in Products, qty \in Quantities : AdjustStart(s, p, qty)
  \/ \E kind \in {"settings", "update"}, p \in Products : RowRead(s, kind, p)
  \/ \E chosen \in SUBSET Products, threshold \in Thresholds :
        BulkSetThreshold(s, chosen, threshold)

\* The session serves the request it has taken.
Serve(s) ==
  \/ CheckLine(s)
  \/ NothingToOrder(s)
  \/ \E o \in Orders : InsertOrder(s, o)
  \/ CancelSave(s)
  \/ AdjustRead(s)
  \/ AdjustRefuse(s)
  \/ AdjustSave(s)
  \/ Commit(s)
  \/ ClearCart(s)
  \/ DeadlockVictim(s)
  \/ \E threshold \in Thresholds : SettingsSave(s, threshold)
  \/ \E threshold \in Thresholds \cup {tx[s].row.threshold},
        change \in Quantities \cup {0} :
          UpdateSave(s, threshold, tx[s].row.stock + change)

Worker ==
  \/ ScanList
  \/ \E p \in Products : ScanVisit(p)

Deliver ==
  \E a \in alerts : DeliverAlert(a) \/ NotifyFails(a) \/ ListAdminsFails(a)

Next ==
  \/ \E s \in Sessions : Request(s) \/ Serve(s)
  \/ Worker
  \/ Deliver
  \/ ApiCrash
  \/ WorkerCrash

Spec == Init /\ [][Next]_vars

\* A goroutine that can run runs, Postgres breaks deadlocks, and the worker's
\* ticker keeps calling ScanLowStock.  Nobody has to send a request.
Fairness ==
  /\ \A s \in Sessions : WF_vars(Serve(s))
  /\ WF_vars(Worker)
  /\ WF_vars(Deliver)

FairSpec == Spec /\ Fairness

-----------------------------------------------------------------------------
(* Properties. *)

\* Stock is never negative (ErrInvalidStockDelta), although adjustStockTx checks a
\* row it does not lock and other requests save rows they read long before.
StockNeverNegative == \A p \in Products : products[p].stock >= 0

\* No request saves a whole product row outside adjustStockTx.
Disciplined == Kinds \cap {"settings", "update"} = {}

\* When only adjustStockTx writes stock, the quantity_after of the movement that
\* committed last is the stock of the product: lost updates do not put the ledger
\* and the row out of step, since both are written under one row lock.
LedgerTip ==
  Disciplined =>
    \A p \in Products :
      products[p].stock = IF ledger[p] = <<>> THEN InitStock[p]
                                              ELSE ledger[p][Len(ledger[p])].after

\* The places in a sequence that members of a set have.
Places(seq, members) == {i \in DOMAIN seq : seq[i] \in members}

\* The movements one order caused on one product, for one reason and by so many units.
Caused(o, reason, delta) ==
  [delta : {delta}, after : Int, reason : {reason}, ref : {o}]
MovementsOf(o, p, reason, delta) == Places(ledger[p], Caused(o, reason, delta))

\* The lines of an order that name so many units of a product.
LinesOf(o, p, qty) == Places(orders[o].lines, {[product |-> p, qty |-> qty]})

Moved(p) == {ledger[p][i].delta : i \in DOMAIN ledger[p]}
Units(o, p) ==
  {orders[o].lines[i].qty : i \in DOMAIN orders[o].lines}
    \cup Moved(p) \cup {-delta : delta \in Moved(p)}

\* Order and stock change together: an order that exists has taken each of its lines
\* from stock once, and stock was taken for no order that does not exist, whatever
\* was refused, deadlocked or crashed half way through its lines.
OrdersBooked ==
  \A o \in Orders, p \in Products : \A qty \in Units(o, p) :
    Cardinality(MovementsOf(o, p, "order", -qty)) = Cardinality(LinesOf(o, p, qty))

\* When only Cancel sets the status, a cancelled order's lines have been put back, each
\* of them, and nothing was put back for an order that is not cancelled.
CancelReturnsStock ==
  "status" \notin Kinds =>
    \A o \in Orders, p \in Products : \A qty \in Units(o, p) :
      IF orders[o].status = "cancelled"
      THEN Cardinality(MovementsOf(o, p, "cancel", qty)) >= Cardinality(LinesOf(o, p, qty))
      ELSE MovementsOf(o, p, "cancel", qty) = {}

\* The lines of an order have been put back at most once.
PutBackOnce(o) ==
  \A p \in Products : \A qty \in Units(o, p) :
    Cardinality(MovementsOf(o, p, "cancel", qty)) <= Cardinality(LinesOf(o, p, qty))

\* Whatever else goes on, Cancel returns the lines of an order once, but for two causes:
\* another cancellation had seen the order pending when one committed, or an
\* administrator set it back to pending.
CancelledOnce == \A o \in Orders : o \in overtaken \cup reopened \/ PutBackOnce(o)

\* "only pending orders can be cancelled" (order_service.go): one cancellation ends that,
\* until an administrator sets the order back to pending.
NoSecondCancellation == \A o \in Orders : o \in reopened \/ PutBackOnce(o)

\* The stock the ledger accounts for: what there was plus every committed delta.
LedgerStock(p) ==
  LET total[n \in 0..Len(ledger[p])] ==
        IF n = 0 THEN InitStock[p] ELSE total[n - 1] + ledger[p][n].delta
  IN total[Len(ledger[p])]

\* The ledger accounts for every unit of a product's stock, whole-row saves, roll-backs,
\* scans and crashes included, but for one cause: its row was written while another
\* request held a copy of it.
LedgerExact ==
  \A p \in Products : p \in overtaken \/ products[p].stock = LedgerStock(p)

\* The store never takes more units out than it had ("stock quantity cannot be
\* negative", inventory_service.go).
NotOversold == \A p \in Products : LedgerStock(p) >= 0

Keys(notes) == {AlertKey(n) : n \in notes}

\* A product flagged low_stock_notified has its alert on record or on its way, even
\* when the flag was written from a stale row: ScanLowStock and handleThreshold skip
\* flagged products, so an alert lost here would never be sent.  It takes the failure of
\* each recipient's notification, or the end of the process before it, to lose one.
AlertNotLost ==
  \A p \in Products : products[p].notified =>
    LET key == [product |-> p, cycle |-> products[p].cycle]
    IN \/ AlertKey(key) \in Keys(sent) \cup Keys(alerts)
       \/ \A i \in DOMAIN Recipients : Notification(key, i) \in missed

\* "Low-stock alerts notify all admins and the product vendor" (docs/endpoints.md): once
\* its goroutine is done, every recipient has the alert, but for those whose notification
\* failed.
AllRecipientsAlerted ==
  \A n \in sent :
    AlertKey(n) \notin Keys(alerts) =>
      \A i \in DOMAIN Recipients : Notification(n, i) \in sent \cup missed

\* Every request ends: no request waits for ever for a row another one holds, orders
\* with their lines in opposite order included.
RequestsFinish == \A s \in Sessions : pc[s] # "idle" ~> pc[s] = "idle"

\* A low product that nobody has been told of.
Unnoticed(row) == IsLow(row) /\ ~row.notified

\* A low product whose stored threshold hides it from the query of the scan.
Overlooked(row) == Unnoticed(row) /\ ~Unnotified(row)

\* A low product does not stay unflagged, however it got low (a threshold raised one at a
\* time or in bulk, a flag undone by a stale save): ScanLowStock comes by, unless the
\* stored threshold is 0 or less and hides the product from it.
LowStockIsNoticed ==
  "scan" \in Kinds =>
    \A p \in Products :
      Unnoticed(products[p]) ~>
        \/ ~Unnoticed(products[p])
        \/ Overlooked(products[p]) /\ products[p].threshold <= 0

\* "Alerts fire once per threshold crossing" (docs/endpoints.md), with low as the product's
\* own status has it: a product at or below its threshold, DefaultThreshold for a stored
\* one of 0 or less, is flagged in the end.
EveryCrossingNoticed ==
  "scan" \in Kinds =>
    \A p \in Products : Unnoticed(products[p]) ~> ~Unnoticed(products[p])

\* With Disciplined requests, the inventory implements the book of StockBook.
Book == INSTANCE StockBook
          WITH stock <- [p \in Products |-> products[p].stock], book <- ledger

ImplementsBook == Book!BookSpec

=============================================================================
