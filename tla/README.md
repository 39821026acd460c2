# A formal model of auto-store-api

This directory models parts of auto-store-api in TLA+, checks the models with TLC
on small instances and proves the central results with TLAPS for every value of
the constants. `PROJECT.json` says, definition by definition, which lines of the
source a definition stands for; this file says what the parts are, what is shown
and how.

1. [The system](#1-the-system)
2. [Plan](#2-plan)
3. [The modules](#3-the-modules)
4. [What the runs show](#4-what-the-runs-show)
5. [Where the code and what it says disagree](#5-where-the-code-and-what-it-says-disagree)
6. [What is proved](#6-what-is-proved)
7. [Abstractions and what is not modelled](#7-abstractions-and-what-is-not-modelled)
8. [Running it](#8-running-it)

## 1. The system

Two processes share one Postgres database and one Redis.

- `cmd/api` serves HTTP. A goroutine runs each request: handler, service,
  repository. Some requests start further goroutines (low-stock alerts,
  notifications, chat fan-out) that outlive them.
- `cmd/worker` sends queued emails, polls the database for notifications that
  were left behind, and calls `ScanLowStock` on a ticker.

Almost everything that is hard in this code comes from one habit: a service reads
a row with `First`, decides on what it read, and then calls GORM's `Save`, which
writes *every* column of the struct. Postgres runs at READ COMMITTED and no read
asks for a lock, so between the read and the save any other request may have
written the row, and the save puts the old values back. `db.Transaction` gives
atomicity and the row locks that updates take, not isolation from this.

### Components

| component | state | operations | talks to | hard behaviour |
|---|---|---|---|---|
| inventory (`inventory_service.go`) | stock, threshold, alert flag and alert cycle on product rows; `stock_movements` | `AdjustStock`, `adjustStockTx`, `handleThreshold`, `UpdateSettings`, `BulkSetThreshold`, `ScanLowStock` | orders call `adjustStockTx` in their transaction; the notifier is called from a goroutine; the worker calls the scan | unlocked read and whole-row save; alert goroutine started before the commit; scan works on a list that ages |
| orders (`order_service.go`) | order rows and items, payment columns | `Create`, `Cancel`, `UpdateStatus` | cart, inventory, payments | several products in one transaction (deadlock, partial failure), checks made before the transaction |
| order payments and refunds (`payment_service.go`, `payment_refund.go`) | payment columns of orders; Paystack's transactions and refunds | initialize, verify, webhook (`charge.success`, `refund.processed`, `refund.failed`), refund | Paystack over HTTP, its webhooks back | external call between read and save; repeated and reordered events; crash after Paystack has acted |
| booking payments (same files) | `booking_payments`, payment columns of bookings | initialize, verify, webhook, refund on cancellation | Paystack, installation | as above, in two tables |
| products (`product_handler.go`, `product_service.go`) | product rows, images, categories, tags | create, update, delete, bulk import | inventory | `Update` saves the row it read, stock included, then adjusts the stock by a difference it computed before |
| cart (`cart_service.go`) | `cart_items` | add, update, remove, clear | products, orders | check then insert; clamps to a stock that changes; cleared after the order's commit |
| installation (`installation_service.go`) | quotes, quote lines, bookings | request, respond, select, book, confirm, complete, cancel, expire | payments, notifier, mechanics | one booking per quote; whole-row saves of lines and bookings; expiry against booking |
| notifications (`notification_service.go`, `notifier.go`, `pkg/queue`) | `notifications`, Redis list | `Notify`, `ProcessDelivery`, poll | everything that notifies; the worker | idempotency keys; a job lost with its worker; queue and poll delivering the same row |
| worker (`cmd/worker`) | none of its own | consume, poll, scan | notifications, inventory | runs beside the API without coordination |
| chat hub (`chat/hub.go`, `chat/redis.go`) | subscriber maps, send channels | subscribe, broadcast, remove | Redis pub/sub, WebSocket handler | channels closed while another goroutine may send |
| conversations (`chat_service.go`) | conversations, messages, read marks | get-or-create, link guest, send, close, update | hub, notifier | at most one open conversation per identity without a constraint for it |
| mechanics and payouts (`mechanic_service.go`, `mechanic_payout_service.go`) | profiles, documents, payout accounts, the user's role | apply, verify, suspend, reject, update, payout set-up | users, Paystack | profile saves against an administrator's decision |
| questions (`question_service.go`) | questions, answers | ask, answer, accept, close | mechanics, notifier | one answer per mechanic by a count; whole-row save of the question |
| authentication and users (`auth_service.go`, `user_service.go`) | users, Redis keys for lockout and reset tokens | register, login, refresh, reset, profile | mail | first user becomes administrator; counters and tokens in several Redis calls |
| reviews, wishlist, vehicle compatibility | one table each | check and insert | products | check then insert |
| categories, addresses, search, uploads, middleware, configuration, utilities | tables, files, nothing | single statements, reads, I/O | | none of their own |

### What makes each component correct

The aims the properties were chosen from. Not all of them hold: section 5.

- **inventory**: stock is never negative; the ledger explains the stock; a product
  at or below its threshold is flagged; a flagged product has its alert; one alert
  per crossing, to every recipient.
- **orders**: an order and the stock it took appear together or not at all; a
  cancelled order has given its stock back, once; every request ends.
- **order payments**: paid orders, refunded orders and refunds are backed by a
  payment of that order; a payment received shows; a payment is refunded once; no
  shipped order is refunded; a failed refund is not a refund.
- **booking payments, installation**: a quote has one booking; a booking is paid
  exactly when its payment row is; a line selected or declined does not go back; an
  expired quote is not booked.
- **notifications**: each notification is stored once per key and channel, is
  eventually sent or failed, and is not sent after it failed for good.
- **chat hub**: nobody sends on a closed channel; a removed client is in no
  subscriber map; a message reaches a subscriber once.
- **conversations**: at most one open conversation per user or guest; nothing is
  added to a closed one.
- **mechanics**: a suspended or rejected mechanic stays so until an administrator
  says otherwise; role and profile status agree.
- **questions**: one answer per mechanic; at most one accepted answer; a closed
  question gets no answers.
- **authentication**: one first administrator; a reset token works once; the
  lockout counts every failure.
- **cart**: one row per product; no more than the stock at the time it was put in.

## 2. Plan

The order follows what matters most to a shop: goods, then money, then people.

| | module | state |
|---|---|---|
| 1 | `StockBook`, `Inventory` with the orders that move stock | written, checked, proved about |
| 2 | `OrderPayments` | written, checked, proved about |
| 3 | `Installation`: quotes, lines, bookings and their payments | written, checked, proved about |
| 4 | `Delivery`, `Notifications`: rows, list, consumer, poll | written, checked, with a refinement and its liveness, proved about |
| 5 | `ChatHub`, `SupportChat` which composes it with the conversations | written, checked, proved about |
| 6 | `Accounts`: users, sign-in, mechanics, payouts, addresses | written, checked, proved about |
| 7 | `Catalog`, and `Storefront` which composes it with carts, wishes, reviews, questions | written, checked, proved about |
| 8 | `Listings`: every paged listing and the clients that walk it | written, checked, proved about |

Left:

- `Store`, a composition of `Inventory` with `OrderPayments` over one order row, so that
  payment and stock meet in `Cancel`: in the two modules each sees its own columns of
  the row.
- The hazards of `PROJECT.json` that no property covers yet; each has a note there.

Every invariant a passing run checks, and every action property, is also a theorem; what
stays with TLC is named at the end of section 6.

## 3. The modules

| module | is |
|---|---|
| `StockBook` | the promise of the inventory: stock follows the book, the book only grows |
| `Inventory` | product rows, ledger, orders, carts, locks, sessions, alerts, worker |
| `InventoryProofs` | theorems about `Inventory` |
| `OrderPayments` | the payment side of an order: handlers, Paystack, crashes |
| `OrderPaymentsProofs` | theorems about `OrderPayments` |
| `Installation` | quotes, their lines, bookings, booking payments, Paystack |
| `InstallationProofs` | theorems about `Installation` |
| `Delivery` | the promise of the notifications: an accepted email is sent or given up; `Safe` is its safety half |
| `Notifications` | notification rows, the Redis list, Notify, consumer and poll |
| `NotificationsProofs` | theorems about `Notifications`, the safety half of the refinement among them |
| `Accounts` | users, tokens, lockout, mechanic profiles, payouts, addresses |
| `AccountsProofs` | theorems about `Accounts` |
| `ChatHub` | the WebSocket hubs of all instances, and Redis between them |
| `SupportChat` | conversations and messages, on top of `ChatHub` |
| `SupportChatProofs` | theorems about `SupportChat`, and about `ChatHub` by itself |
| `Catalog` | products, categories, images, vehicles and their links |
| `Storefront` | carts, wishes, reviews, questions and answers, on top of `Catalog` |
| `StorefrontProofs` | theorems about `Storefront` and the `Catalog` under it |
| `Listings` | 19 paged listings, one client that walks or polls one of them |
| `ListingsProofs` | theorems about `Listings` |
| `MC...` | instances for TLC: initial states, symmetry, constants that are not model values |

Common to all: a variable stands for a table (or for what Redis, Paystack or the
process keeps), `pc[s]` is the next statement of session `s`, `job[s]` (`tx[s]` in
`Inventory`) what its handler holds in local variables, above all the rows it has read.
A session is a goroutine that serves one request after another. `requests` and
`crashes` count against the bounds. Between any two statements of a handler anything
else may happen; one SQL statement, one Redis command or one transaction of which
nobody else sees a part is one step.

### Inventory

The database is modelled statement by statement. `products`, `ledger`, `orders` and
`cart` are what is committed. `tx[s]` is what session `s` has read and, inside its
transaction, written (`work`, `entries`); nobody else sees it until `Commit`.
`locks` says which open transaction has written a row. `pc[s]` is the next
statement of the session.

| code | actions |
|---|---|
| `OrderService.Create` | `OrderStart` (reads the cart), `CheckLine` per cart line, `NothingToOrder`, `InsertOrder`, then per line `AdjustRead` / `AdjustRefuse` / `AdjustSave`, `Commit`, `ClearCart` |
| `OrderService.Cancel` | `CancelStart` (reads and tests), `CancelSave`, the lines as above, `Commit` |
| `OrderService.UpdateStatus` | `UpdateStatus` |
| `AdjustStock` | `AdjustStart`, `AdjustRead` / `AdjustRefuse`, `AdjustSave`, `Commit` |
| `UpdateSettings`, `ProductHandler.Update` | `RowRead`, then `SettingsSave` or `UpdateSave`; the form's stock difference goes on through `AdjustRead` |
| `BulkSetThreshold` | one statement, `BulkSetThreshold` |
| `ScanLowStock` | `ScanList`, `ScanVisit` per product |
| `sendLowStockAlerts` | `DeliverAlert`, `NotifyFails` per recipient; `ListAdminsFails` for all administrators at once: the errors are dropped and the loop goes on |
| Postgres | `MayWrite`, `Deadlocked`, `DeadlockVictim` |
| a process ends | `ApiCrash`, `WorkerCrash` |

A read takes no lock and is a step. A save waits for the row's lock, keeps it until
the transaction ends, and is one step with the statements that follow it on the same
row: nobody else can see or write that row in between, and what they write is
private. The one effect that is not private is `go s.sendLowStockAlerts`, and it is
in the same step as the save that causes it, before the commit, as in the code.

`missed`, `overtaken` and `reopened` are history, read by properties alone: the
notifications that failed or went with their process, the rows (products and orders)
that were written while another request held a copy of them, and the orders an
administrator set back to pending.

### OrderPayments

`orders` holds the payment columns. `charges` and `refunds` are Paystack's own
records, `unacked` the events it has not had a 200 for. A handler is a read (the row
goes into `job[s].row`), for some a call to Paystack, for some a second read, and a
`Save` of the row that was read. Between any two, other handlers, the customer's
card, Paystack's refund processing and a crash may come.

| code | actions |
|---|---|
| `InitializeOrderPayment` | `InitializeRead`, `InitializeCall` / `InitializeUnanswered` / `CallFails`, `Save` |
| `VerifyPayment`; `charge.success`; `markOrderPaid` | `Verify` or `ChargeHook`, `PaidRead`, `Save` |
| `RefundOrder`, `markOrderRefunded` | `RefundRead`, `RefundCall` / `RefundUnanswered` / `CallFails`, `MarkRead`, `Save` |
| `handleRefundWebhook` | `RefundHook` / `LookupFails`, `RefundHookRead`, `Save` |
| `Cancel`, `UpdateStatus` | `CancelRead` or `StatusRead`, `Save` |
| a statement of any of them fails | `StatementFails`; a webhook is then answered with an error and comes again |
| Paystack and the customer | `CustomerPays`, `RefundSettles`, `PaystackAccepts` |
| the process ends | `Crash` |

`InitializeUnanswered` and `RefundUnanswered` are the client's timeout: Paystack did what
it was asked and the handler got an error. `LookupFails` is a failed query taken for an
unknown reference: the event is answered 200. `unmarked`, `overtaken` and `dropped` are
history: the refunds whose handler ended before it marked the order, the orders two of
whose handlers got in each other's way, and the refunds whose event was answered 200
without being looked into.

### Installation

`quotes`, `lines`, `bookings` and `payments` are the tables; a booking is known by its
quote, as the unique index on `quote_id` has it. Paystack is modelled as in
`OrderPayments`. `FallsDue` lets a quote's time run out; it is expired by the sweep that
every read of quotes begins with.

| code | actions |
|---|---|
| `CreateQuote`, `buildQuoteLines` | `CreateQuoteRead`, `CreateQuoteInsert` |
| `GetQuoteForUser`, `ListQuotesForUser`, `ExpireQuotesBefore` | `ReadQuotes` |
| `RespondToQuoteLine` | `RespondRead`, `RespondSave` |
| `SetMechanicInstallServices` | `SetInstallServices` |
| `CreateBooking` | `CreateBookingRead`, `Book` (its transaction) |
| `InitializeBookingPayment` | `InitializeRead`, `InitializeCall` / `InitializeUnanswered`, `Persist` |
| `VerifyPayment`; `charge.success`; `markBookingPaid` | `Verify` or `ChargeHook`, `PaidRead`, `PaidSave` |
| `RefundBooking`, `refundBooking` | `RefundRead`, `PaymentRead`, `RefundCall` / `RefundUnanswered` / `CallFails`, `Reread`, `MarkSave` |
| `handleRefundWebhook` | `RefundHook` / `LookupFails`, `RefundColumns` |
| `CancelBooking` | `CancelRead`, the refund's steps, `SettleLocally`, `BookingSave` |
| `UpdateBookingStatus` | `StatusRead`, `BookingSave` with the row `StatusRow` |
| outside | `FallsDue`, `CustomerPays`, `RefundSettles`, `Fails` (a crash or a failed statement) |

### Notifications

`rows[k][ch]` is the row of idempotency key `k` and channel `ch`, `queue` the Redis
list. The worker's two threads are `consumer` and `poller`; both run `ProcessDelivery`
on a row they have read and save all of it.

| code | actions |
|---|---|
| `Notify` | `NotifyStart`, then per channel `NotifyCheck`, `NotifyCreate`, `NotifyPush`, `NotifyUnqueue` |
| `UpdatePreferences`, `MarkRead`, `MarkAllRead` | `ReadPreferences`, `SavePreferences`, `MarkRead` |
| `DequeueNotification` | `Dequeue` |
| `pollPending`, `PollAndProcessPending` | `PollTick`, `PollNext` |
| `ProcessDelivery`, `markFailed`, `RequeuePending` | `ReadRow`, `Send` / `SendFails`, `SaveSent` / `SaveFailed`, `Requeue` |
| a process ends | `WorkerCrashes`, `ApiCrashes` |

`Delivery` says of each email: none, accepted, delivered or failed. `Outcome` maps a key
to that: delivered once it was sent, whatever its row still says. A thread that had read
a row before another gave it up may take it up again (`TakeUp`); nothing undoes a
delivery.

### Accounts

| code | actions |
|---|---|
| `Register` | `RegisterRead`, `RegisterInsert` |
| `Login` | `LoginIncr`, `LoginExpire`, `LoginGet`, `LoginCompare`, `LoginUnlock`; a Redis command that fails is `LoginIncrFails`, `LoginExpireFails`, `LoginGetFails`, `LoginUnlockFails`, after each of which the login goes on |
| `Refresh`, `Logout` | `Refresh` |
| `ForgotPassword`, `ResetPassword` | `ForgotPassword`; `ResetRead`, `SaveUser`, `DropToken` |
| `UpdateProfile`, `UpdateRole` | `UpdateProfile`, `UpdateRole`, both then `SaveUser` |
| addresses | `AddAddress`; `UpdateAddress`, `SaveAddress`; `DeleteAddress` |
| `Apply` | `ApplyRead`, `ApplyInsert` |
| `UpdateOwnProfile`, payout `Setup` | `UpdateOwnProfile` or `SetupPayout`, `CallPaystack`; then `SaveProfile` |
| documents | `AddDocument`, `RemoveDocument`, `SaveDocument` |
| `Verify`, `Suspend`, `Reject` | `Judge`, `SaveVerdict`, `SeedInstallServices` |
| time and failure | `LockExpires`, `TokenExpires`, `ResetExpires`, `Fails` |

History: `tries`, the passwords compared in this life of a user's counter; `blind`, those
of them that Redis failed to count or to hold back; `orphaned`, the users whose counter
lost the command that was to set its expiry; `granted`, the role and the verdict *in
force*, replaced by each role form and verdict that is saved; `overtaken`, the users whose
role or profile one request changed while another held what it had read, and those who
were counted as first while another was.

### ChatHub and SupportChat

The hub's mutex makes `Register`, `Subscribe`, `RemoveClient` and one `Broadcast` one
step each. What runs outside it, `readPump`, `writePump` and the `go removeClient` of a
Broadcast that met a full channel, are steps of their own: `Write`, `Return`,
`RemoveClient`. `Broadcast` sends on every subscriber's channel; one that is closed ends
it (`BroadcastPanics`): in a request the recovery middleware catches the panic
(`PublishPanics`, `SendPanics`), in the Redis loop nothing does and the process ends
(`RelayPanics`, `RelayEndsInstance`). `conns[c]` is a connection: the conversation it
is at, its channel, its pumps, how often it was closed, and what was written to it.

`SupportChat` extends `ChatHub` and conjoins its actions with those of the service:
`SendPublish` is `PublishMessage` of the message the session has stored, `SubscribeFrame`
is `Subscribe` behind `canAccess`.

| code | actions |
|---|---|
| `GetOrCreateConversation` | `CreateRead`, `CreateInsert` |
| `LinkGuest` | `LinkRead`, `LinkUpdate` |
| `UpdateConversation` | `UpdateRead`, `UpdateSave` |
| `MarkRead` | `MarkReadStart`, `MarkReadUpdate` |
| `SendMessage`, `dispatchMessageNotifications` | `SendRead`, `SendInsert`, `SendTouch` / `TouchFails`, `SendPublish` / `SendPanics`, `SendNotify` |
| WebSocket | `Connects`, `SubscribeFrame`, `MessageFrame` |
| Redis, failure | `RelayMessage`, `RelayEndsInstance`, `Crash`, `Fails` |

### Catalog and Storefront

`serving[s]` numbers the requests and `together` holds the pairs that were in progress
at the same time: rows remember the request that made them, so a property can say that
two rows come from requests that overlapped.

| code | actions |
|---|---|
| categories | `PostCategory`, `InsertCategory`; `PutCategory`, `SaveCategory`; `RemoveCategory` |
| `Create`, `CreateBatch` | `PostProducts`, `InsertProduct`, `ClearCategories`, `AddCategory`, `InitialStock` |
| `ProductHandler.Update` | `PutProduct`, `SaveProduct`, `ClearCategories`, `AddCategory`, `FormStock`, `ReplaceSees`, `ReplaceCommits` |
| images | `PostImages`, `UnsetPrimary`, `InsertImage`; `RemoveImage` |
| vehicles | `PostVehicle` or `PostCompatibility`, `FindVehicle`, `CreateVehicle`, `FindLink`, `LinkProduct`, once per item of the request (`Linked`) |
| reviews, wishes | `PostReview` or `PostWish`, `CheckEntry`, `InsertReview` or `InsertWish`; `RemoveWish` |
| cart | `PostItem`, `FindLine`, `InsertLine` or `SetQuantity`; `PutItem`, `ReadStock`; `RemoveLines` |
| questions | `PostQuestion`, `InsertQuestion`; `ViewQuestion`, `CountView`; `PostAnswer`, `CountAnswers`, `CommitAnswer`; `AcceptAnswer`, `ReadAnswer`, `CommitAccept`; `CloseQuestion`, `CommitClose` |
| other parts, failure | `StockMoves`, `Abort` |

### Listings

`Listings` is a table of what the 19 listings are: which rows pass which filter, what
they are sorted by, and what the service does with a limit it does not like (takes it,
cuts it, or uses its default). A walk is one request per page, `Count` then `ReadPage`,
until `total_pages` as `JSONPaginated` computes it; a poll is `PollMessages`. A filter by
category or vehicle is a query of its own, whose failure (`FilterFails`) leaves the filter
out or the page empty: what the client then walks is another list, and the walk ends there. Between
any two statements rows are inserted (`TakeTime`, then `Insert`: gorm takes
`created_at` before the statement) and changed (`Change`). `stayed` and `causes` are
history: the rows that were there all the time, and what happened to the table.

## 4. What the runs show

### Runs that pass

| run | instance | shows |
|---|---|---|
| `inv_orders` | 2 sessions, 2 products, 2 orders, 2 users, 3 requests, 1 crash; orders, cancellations, adjustments, bulk thresholds, scan | `TypeOK`; `LedgerTip`: the last movement of a product says how many there are; `OrdersBooked`: an order and the movements that took its lines exist together, whatever failed half way; `CancelReturnsStock`: cancelled means given back; `ImplementsBook`: every step is a step of `StockBook` or changes neither stock nor ledger |
| `inv_rows` | 2 sessions, 1 product, 1 order, 4 requests, 1 crash; orders, cancellations, adjustments, the product form, statuses by hand, scan; an administrator and a vendor to alert | `LedgerExact`: stock is the initial stock plus every movement, and `CancelledOnce`: an order's lines are given back once, each but for the causes it names; `StockNeverNegative`; `AlertNotLost`: a flag has its alert, or every recipient's was missed |
| `inv_live` | 2 sessions, 2 products, 2 orders, 2 requests of every kind, thresholds of 0 and 2, scan, 1 crash; fair | `RequestsFinish` although two orders lock the same rows in opposite order; `LowStockIsNoticed` unless the scan's query cannot see the product |
| `pay_races` | 2 sessions, 1 order, 2 references, 2 refunds, partial or full, 4 requests, 1 crash, failed statement or lost answer | `TypeOK`; `PaidIsBacked`, `RefundsAreBacked`, `RefundedIsBacked`; `OneRefundPerPayment` but for the causes it names |
| `pay_live` | the same with 3 requests; fair | `ChargeIsRecorded`, `RefundIsRecorded`: what Paystack repeats reaches the order, unless the event was dropped or two handlers got in each other's way |
| `booking_races` | 2 sessions, 2 mechanics (one with a payout account), 1 quote, 2 prices, 2 references, 2 refunds, 4 requests, 1 crash, failed statement or lost answer; from nothing or from a quote just booked | `TypeOK`; `SelectedIsBooked`: no line is selected that nobody booked; `BookingStands`: the second of two bookings changes nothing of the first, nor does any stale save; `NoUnpaidWork` |
| `notify` | 2 sessions, 2 users, 1 event whose key has no user in it, 2 Notify calls, 2 retries, 2 failing sends, 1 crash of either process; fair | `TypeOK`; `StatusIsTrue`: a row says sent only of an email that was, failed only after its retries; `ImplementsDelivery`: every step is one of `Delivery`, and every accepted email is sent or given up |
| `accounts` | 2 sessions, 2 users, 2 passwords, 3 requests, a lockout after 1 attempt, 1 crash, failed statement or failed Redis command; from an empty database or one with an administrator and a verified mechanic | `TypeOK`; `GuessesAreLimited`: no more passwords are compared than the limit, but for those Redis failed to count or to hold back; `LockoutEnds`: the counter will run out; `PowersWereGranted`: the powers a user has are those last given to him, unless two requests held his row at once |
| `support_chat` | 1 instance, 2 sessions, 1 connection with a channel of one place, a guest, a user, an administrator, 2 conversations, 2 messages, 3 requests, 1 crash | `TypeOK`; `OwnersAreEntitled`; `AnnouncedOnce`; `HeardOrDropped`: a broadcast reaches a subscriber or drops it; `ClosedOnce` |
| `storefront` | 2 sessions, 2 products, 2 categories, 2 vehicles, 2 users, 2 questions, 2 requests, 1 failure; from a new shop or one in use | `TypeOK`; `AnswersMatchStatus`: open without answers, answered with; `NoLoneDuplicates`: what a check keeps single is doubled only by requests that overlap or by a query whose error is ignored |
| `listings` | 19 listings, 3 rows, 3 keys, 1 change, 2 writers, limits up to 3 with a default of 1 and a cap of 2 | `TypeOK`; `NothingSkipped`, `NothingRepeated`: what can hide or repeat a row of a walk is exactly what they name |

Many properties here name the ways in which the code may go wrong and say that there is
no other: `LedgerExact`, `CancelledOnce`, `AlertNotLost`, `LowStockIsNoticed`,
`OneRefundPerPayment`, `ChargeIsRecorded`, `RefundIsRecorded`, `GuessesAreLimited`,
`LockoutEnds`, `PowersWereGranted`, `NoLoneDuplicates`, `NothingSkipped`,
`NothingRepeated`. That the code does go wrong in these ways is seen by dropping one from
the list: section 5 does it for those that break a promise.

### Bounds, and why they are enough

- *Sessions*. A lost update, a double cancel, a double refund and a deadlock each
  need two requests at once. Two sessions give all of them.
- *Products*. Two products are needed for a deadlock, and for a transaction that
  fails on its second line. Stock is 3 and 2, order lines take 1 or 2, so that a
  second order fails on stock, and one order crosses the threshold of 1. One of the
  two initial carts of `inv_orders` lists one product twice, for more than there is:
  it passes the check before the transaction and fails in it.
- `DefaultThreshold` is 2 in the instances and 5 in the code: it only has to differ
  from the explicit thresholds.
- *Requests* (`MaxRequests`) count requests started, so behaviours are finite without
  cutting one off in the middle. Three requests make an order, its cancellation and a
  third party; `inv_rows` has four, for an order, its cancellation, the administrator who
  sets it back to pending, and the cancellation after that; `inv_live` has two, which
  deadlock, undo each other's flag, or raise a threshold while the other sells. There are as many order identities as a run can use.
- *Crashes* (`MaxCrashes`): one, at any point. In `OrderPayments`, `Installation` and
  `Accounts` a failed statement, a failed Redis command or a lost answer counts against
  the same bound. In `Inventory` the lookups and notifications of an alert fail without
  any bound.
- *References and refunds*: two, for a second checkout of one order and a second
  refund of one payment. References, refunds and sessions are interchangeable in
  `pay_races`. Symmetry is declared only in runs without liveness properties, and only
  between values the constants and initial states do not tell apart.
- *`booking_races`*: one quote has lines of two mechanics, hence two bookings that race
  for it; four requests make a booking, its checkout, and two that race on the row. With
  the booking already there they reach a cancellation against a payment and a mechanic.
- *`notify`*: two calls with one key, two threads of the worker, and a failing send more
  than it takes to give up on one thread. One event is enough, as keys do not interact.
- *`accounts`*: three requests are two that race and one before them. A lockout after one
  attempt makes the second the one too many.
- *`support_chat`*: `Buffer` is 1 instead of 16, so two messages fill it. One instance
  hears its own messages from Redis, as in the code, so every message is broadcast twice.
- *`storefront`*: every hazard here is one check overlapping one write, so two requests;
  the shop in use stands for the requests that came before.
- *`listings`*: a walk over three rows by pages of one has an inside; a limit above the
  cap, one within it, one not given and zero are all asked for.
- `CHECK_DEADLOCK FALSE` everywhere: when the bound on requests is used up the model
  stops, as the server does when nobody sends anything. That no request gets stuck is
  `RequestsFinish`, not the absence of TLC deadlocks.

### Fairness

`Inventory`: weak fairness of each session's `Serve`, of the worker, and of alert
delivery. The Go scheduler runs goroutines that can run; Postgres grants a lock when
its holder ends and breaks a deadlock by failing a statement (`deadlock_timeout`); the
worker's ticker keeps calling. No client has to send anything.

`OrderPayments`: weak fairness of each session's `Serve`, of webhook delivery, and of
Paystack settling queued refunds. Paystack repeats an event until it has a 200; this
is its documented behaviour and the code relies on it ("rely on the webhook",
`docs/payments.md`). Nobody has to pay or to ask. A crash or a failed statement is
never required and happens at most `MaxCrashes` times: with unlimited failures nothing
is promised.

`Notifications`: weak fairness of the poll alone (`LiveSpec`). The worker's loop ticks
as long as the process runs, and the process is restarted; the consumer need not run, as
Redis may be gone for good. A send fails at most `MaxFailures` times.

The other modules have safety properties only and assume no fairness.

### Properties stated under a condition

- `LedgerTip` and `ImplementsBook` while no request saves a whole product row
  outside `adjustStockTx` (`Disciplined`). With `UpdateSettings` or the product form
  the stock a stale row carries goes back without a movement.
- `CancelReturnsStock` while no administrator sets statuses by hand: `UpdateStatus`
  allows any status from any status and moves no stock.
- `LedgerExact` but for a product whose row was written while another request held a copy
  of it (`overtaken`), and `CancelledOnce` but for an order another cancellation had read
  before (`overtaken`), or that was set back to pending by hand (`reopened`).
- `AlertNotLost` but for a product each of whose recipients' notification was `missed`:
  its lookup or `Notify` failed, or the process ended first. The code drops the errors and
  looks for no alert that is missing.
- `LowStockIsNoticed` but for a stored threshold of 0 or less, which counts as
  `DefaultThreshold` in `IsLow` and as itself in the query of the scan.
- `OneRefundPerPayment` but for orders two of whose handlers got in each other's way
  (`overtaken`), and not counting refunds whose handler ended, with a lost answer, an
  error or its process, before it marked the order (`unmarked`).
- `ChargeIsRecorded` but for `overtaken` orders; `RefundIsRecorded` but for those and for
  refunds whose event was `dropped`.
- `GuessesAreLimited` but for attempts whose own INCR or GET failed (`blind`), and
  `LockoutEnds` but for a counter whose EXPIRE was lost (`orphaned`).
- `PowersWereGranted` but for `overtaken` users: of two requests that hold one user's row
  the last save wins, and of two first registrations both do.
- `AnnouncedOnce` speaks of a conversation with one message whose request was not cut
  short, since two first messages sent at once announce nobody.
- `NothingSkipped` while the limit the server uses is the one it tells.

## 5. Where the code and what it says disagree

The run `oversold` must find `NotOversold` violated: two orders read stock 3, both take
2, both save 1, and four units have left a store that had three. It is kept so that a fix
shows: the run then passes.

The modules state further promises the code does not keep. Each has a configuration of its
own, which TLC refutes within a minute, with a trace that can be followed in the source:

| configuration | property | what happens |
|---|---|---|
| `cancelled_twice` | `NoSecondCancellation` | two `Cancel`s find the order pending ("only pending orders can be cancelled", `order_service.go:159`) and each returns its lines |
| `told_one` | `AllRecipientsAlerted` | the idempotency key has no user in it (`notifier.go:194`), so of "all admins and the product vendor" (`docs/endpoints.md:65`) only the first is told |
| `unnoticed` | `EveryCrossingNoticed` | the threshold of a product that is low at 5 is set to 0: it stays low, as 0 counts as 5 (`product.go:71`), but the scan compares with the stored 0 (`inventory_repository.go:50`) and never lists it; "Alerts fire once per threshold crossing" (`docs/endpoints.md:65`) |
| `refunded_twice` | `NoSecondRefund` | two handlers read the order paid and without a refund, and each has a partial refund accepted ("refund already initiated for this payment", `payment_refund.go:17`) |
| `refund_dropped` | `RefundIsConfirmed` | one handler at a time: the order misses a refund Paystack took (a crash, a failed statement, a lost answer), and the webhook that is to confirm it ("confirmed via `refund.processed` webhook", `docs/payments.md:58`) finds no order, because its reference has been replaced or the lookup fails, and is answered 200 |
| `failed_refund` | `FailedRefundIsNotRefunded` | `refund.failed` is handled like `refund.processed` (`payment_refund.go:283`) and the order stays refunded, against the same sentence |
| `cancelled_unrefunded` | `CancelRefunds` | a cancellation that read the booking unpaid is saved after the webhook recorded the payment (`installation_service.go:473`): nothing is refunded, though cancelling "automatically initiates a Paystack refund when the booking was paid via Paystack" (`docs/payments.md:79`) |
| `lockout_fails` | `LockoutHolds` | INCR or GET fails, the count is taken for 0 (`auth_service.go:91-95`), and a password is compared beyond the "Failed logins before lockout" (`README.md:149`) |
| `two_admins` | `FirstSignupIsAdmin` | two registrations count no user (`auth_service.go:64`) and both become administrators; the count is "used to assign ADMIN to first signup" (`user_repository.go:50`) |
| `verified_again` | `OnlyVerdictsVerify` | a mechanic's profile form, or payout set-up, read before a suspension and saved after it (`mechanic_service.go:171`) makes the profile verified again; the docs have "suspended --> verified: Admin verify" (`docs/mechanics.md:81`) |
| `two_open` | `OneOpenConversation` | two get-or-create calls both find none (`chat_service.go:136`), or a guest with an open conversation is linked to a user who has one; "at most one `status = open` conversation per `user_id` or per `guest_id`" (`docs/support-chat.md:115`) |
| `cut_short` | `EverySubscriberIsSent` | a connection that ends, or that subscribed to another conversation before, is left in a subscriber map with its channel closed (`hub.go:76`); the next broadcast there panics before it has reached "all subscribers" (`hub.go:184`). In the Redis loop the panic ends the process |

`EveryRecipientNotified` of `Notifications`, put into `notify`, is `told_one` seen from
`Notify`.

Seen while modelling, in the actions of the modules, without a property of their own:

- A shop's alert cycle is announced by a goroutine started before the commit
  (`inventory_service.go:120`). A crossing that is rolled back, or overwritten by a
  whole-row save, has used the key of the next one, which is then not announced.
- Two first messages sent at once both count two messages, and administrators are told of
  neither (`chat_service.go:232`).
- A session that ends between INCR and EXPIRE, or an EXPIRE that fails, leaves a lockout
  counter that never runs out (`auth_service.go:91`).
- A handler that read the order before the payment and saves it after makes it pending
  again, and the webhook has had its 200 (`payment_service.go:228`).
- `PostAnswer` and `AcceptAnswer` save the question they read: one closed meanwhile is
  open to answers again.
- A form, of a product or an address, that was read before a deletion and saved after it
  brings the row back: GORM's `Save` inserts what it cannot update. `Save` of a category
  writes the parents of the children it read, and nothing keeps a category from becoming
  its own ancestor or its level from being stale.
- A cart line is capped to the stock of the moment, which may be 0: the line stays, with
  a quantity of 0.
- `JSONPaginated` divides by the limit of the request: `limit=0` panics where the handler
  lets it through, and where a service replaces a limit above 100 by its default,
  `total_pages` is that of pages larger than those served, so a client that trusts it
  stops early.
- The lists of orders and of reviews ignore the error of their count: a walk ends after
  one page. The list of a category's products counts every link, has no order, and its
  pages overlap as Postgres pleases.
- A poll with `since` misses a message that was stamped before, and committed after, the
  last one it has seen.

## 6. What is proved

Every theorem is about the specification the runs check, with its condition if it has
one, for every value of the constants that satisfies the `ASSUME` of its module. One idea
carries most of them: the stored rows alone are not inductive, since a handler may save
any row it once read. So each invariant speaks of every *copy* of a row too, and says of
it something that stays true however late it is saved.

**`InventoryProofs`**, for any number of sessions, products, orders, users and requests,
any quantities and thresholds, from the assumption `ConstantsAssumption` of
`Inventory` alone:

| theorem | says | argument |
|---|---|---|
| `TypeCorrect` | `Spec => []TypeOK` | `TypesHold`: `TypeOK` with what sessions must hold for it (`TypeInv`) is inductive. `Target(s)` is the head of the lines still to do, so a session at `read`, `save` or `rowsave` must have one left, and one that commits with an order must have a kind `CommittedOrder` knows |
| `StockStaysNonNegative` | `Spec => []StockNeverNegative` | `StockInv`: every row a save can still put somewhere, the committed one, the one in a transaction, the one a session has read, has no negative stock, and a row read for an adjustment has enough for it. The check and the saved quantity come from the same read, which is why lost updates cannot make stock negative although they can oversell |
| `LedgerTipHolds` | `Spec => []LedgerTip` | `LedgerInv`: inside a transaction the last entry for a product carries the stock of its working copy, and only the holder of a product's lock has entries for it, so no two transactions publish entries for one product at once |
| `InventoryImplementsBook` | `Disciplined => (Spec => ImplementsBook)` | step simulation: only `Commit` changes the ledger, by appending; that the stock is what the last entry says and is not negative is `LedgerTip'` and `StockNeverNegative'` |
| `AlertsAreNotLost` | `Spec => []AlertNotLost` | `FlagInv`: every copy of a row that may still be written (stored, in a transaction, about to be saved, on the scan's list) says "notified" only if the alert of its cycle is recorded or on its way, or every recipient's notification of it was missed; and a goroutine under way has done with each recipient before its place. Lookups and notifications may fail at any time, and both processes end |
| `OrdersAreBooked`, `CancelledStockReturns` | `Spec => []OrdersBooked`, `[]CancelReturnsStock` | `Books` follows an open transaction line by line: its entries and the lines still to do are together the lines of its order (`Progress`), counted for each product and quantity with cardinalities; the order is not there yet, or its cancellation not seen, before the commit that publishes the entries with it |
| `CancelledOnlyOnce` | `Spec => []CancelledOnce` | any number of sessions. `Once`: an order that is neither overtaken nor reopened has been given back no more lines than it has, and none while it is pending or somebody who saw it pending is about to cancel it (`NotYet`): a commit that leaves such a somebody behind overtakes the order |
| `LedgerIsExact` | `Spec => []LedgerExact` | any number of sessions. `Sums`: of a product that is not overtaken (`Balanced`) the stored stock is the initial stock and all movements, the row a session sees the same with the session's own movements added, and a row read for a save has the stock its session sees; a write while others hold copies overtakes the product, so a copy is saved while it is still true or is not spoken of. `StockAfter` is a recursive function of the ledger's length: what appending an entry does to it follows from there being only one such function, by a least place where two would differ |

**`OrderPaymentsProofs`**, for any number of sessions, orders, references, refunds,
requests and crashes, from `PaymentConstants`:

| theorem | says | argument |
|---|---|---|
| `TypeCorrect` | `Spec => []TypeOK` | `TypesHold`: with `TypeOK`, a working session has a kind, and an order unless it is a refund webhook that found none; what has been paid was paid for an order |
| `PaidOrdersAreBacked`, `RefundsStayBacked`, `RefundedOrdersAreBacked` | `Spec => []PaidIsBacked`, `[]RefundsAreBacked`, `[]RefundedIsBacked` | `BackingHolds`: `BackingInv` says of *every* row, the stored ones and the copies handlers hold (`RowBacked`), that its reference is a checkout of its order, that it is paid only if that checkout is, and refunded only with a refund of that order; and of every handler that what it is about to write is backed (`JobBacked`). It is inductive because Paystack forgets nothing (`Remembers`, `StaysBacked`): a copy that was backed when it was read is backed when it is saved, however late |
| `PaymentsAreRefundedOnce` | `Spec => []OneRefundPerPayment` | any number of sessions, crashes, failures and lost answers. `OnlyRefund`: of an order that is not overtaken at most one refund is not unmarked (`Counts`), and its row names it unless the one handler that asked for it is about to save that, so the check of the next request sees it |

**`InstallationProofs`**, for any number of sessions, mechanics, quotes, prices,
references, refunds, requests and crashes, from `InstallationConstants`:

| theorem | says | argument |
|---|---|---|
| `TypesHold` | `Spec => []TypeOK` | `InvHolds`: one invariant for all four |
| `SelectedLinesAreBooked` | `Spec => []SelectedIsBooked` | a line becomes selected only in the transaction that books it, and the booking's line stays: a later save of lines may turn a selected one back, but selects none |
| `WorkIsPaid` | `Spec => []NoUnpaidWork` | `RowOf`: every booking row a session holds is one of the booking it will be saved over, with its line and price, and satisfies `PaidBeforeWork` whatever has become of the stored row |
| `BookingsStand` | `Spec => BookingStands` | the same: since a held row has the line and the price of its booking, no save takes them away. Every step lemma gives `Inv'` and `Stands` together (`Keeps`) |

**`NotificationsProofs`**, for any number of sessions, users, events, requests, retries,
failing sends and crashes, from `NotificationsConstants`:

| theorem | says | argument |
|---|---|---|
| `TypesHold` | `Spec => []TypeOK` | `Inv`; that a row counts no more retries than sends failed (`RetriesAreFailures`) bounds them |
| `StatusesAreTrue` | `Spec => []StatusIsTrue` | `ThreadsReady`: what a thread of the worker is about to save was true of the email when it was read and still is, as neither a delivery nor a failed send is undone |
| `ImplementsSafely` | `Spec => D!Safe` | step simulation: every step is one of `Delivery` or changes no outcome. `ListsReady`: list and poll hold only emails that have a row. The fairness of `Delivery` is left to TLC |

**`AccountsProofs`**, for any number of sessions, users, passwords, tokens, requests and
crashes and any limit of attempts, from `AccountsConstants`:

| theorem | says | argument |
|---|---|---|
| `TypesHold` | `Spec => []TypeOK` | `InvHolds` |
| `LockoutsEnd` | `Spec => []LockoutEnds` | a counter without expiry was made by an INCR whose session is still before its EXPIRE, or is remembered as lost |
| `GuessesStayLimited` | `Spec => []GuessesAreLimited` | `GuessesCounted`: passwords compared and attempts under way are together no more than the counter and the `blind`, and compared ones and those let through to compare no more than the limit and the `blind`; an attempt whose INCR or GET failed goes on and is one of them. INCR counts before it is known whether the attempt goes through, so attempts at once cannot pass on one count, and no number of failures lets an attempt past that did not meet one itself |
| `PowersStayGranted` | `Spec => []PowersWereGranted` | `Agrees`: of a user who is not overtaken, the role or status in every row a session holds is the one in force; a role form or a verdict replaces what is in force, and overtakes the user if another session holds his row |

**`SupportChatProofs`**, for any number of connections, conversations, messages, requests,
instances and crashes and any capacity of the channels, from `ChatHubConstants` and
`SupportChatConstants`:

| theorem | says | argument |
|---|---|---|
| `TypesHold` | `Spec => []TypeOK` | `InvHolds`: `Inv` is inductive; with the types it says that a request which is about a conversation has one that exists (`Ready`) |
| `ChannelsAreClosedOnce`, `MessagesAreHeardOrClientsDropped` | `Spec => []ClosedOnce`, `[]HeardOrDropped` | `HubInv` adds `Unheard`: a connection that has not subscribed is in no subscriber map and is owed nothing, so one that registers, and is a client again for `HeardOrDropped`, starts with nothing owed. Every step of a hub keeps it, and the requests of `SupportChat` touch the hubs only through `PublishMessage` |
| `HubsHold` | `HubSpec => [](ClosedOnce /\ HeardOrDropped)` | the same lemmas, for hubs with any publishers |
| `OwnersStayEntitled` | `Spec => []OwnersAreEntitled` | `Owned` holds of the stored rows and of the row every `UpdateConversation` is about to save; it survives because links and openers are never undone (`Grows`), so what was right when it was read is right when it is saved. A link takes rows whose guest is the opener, as guests are linked to users only |
| `ConversationsAreAnnouncedOnce` | `Spec => []AnnouncedOnce` | `ToldInv`: one request stamps a message, stores it once and then names it; the message that was announced is one whose request has ended, so while another is being sent there are two and nobody is told; a single message of a customer was announced, is still being sent, or was cut short. `Messages` is `1 .. n`, and so finite |

**`StorefrontProofs`**, for any number of sessions, users, products, categories, vehicles,
questions, requests and failures, from `CatalogConstants` and `StorefrontConstants`:

| theorem | says | argument |
|---|---|---|
| `TypesHold` | `Spec => []TypeOK` | `InvHolds` |
| `AnswersAgreeWithStatus` | `Spec => []AnswersMatchStatus` | a question stays asked and one that is not open never opens by itself, so a question row saved late still agrees with the answers (`Unanswered`, `Follows`) |
| `DuplicatesOverlapped` | `Spec => []NoLoneDuplicates` | `Knows(s)`: what the request of `s` found missing (`Unfound`, `Unset`, `Unseen`, `Unlisted`) has since been added only by requests in progress together with it. `Grows(N)` says how a step made for request `N` may extend the tables, and `KnowsStill` that this keeps what the others know |

**`ListingsProofs`**, for any number of rows, keys, writers and changes and any limits, from
`ListingsConstants` and `NoneConstant`:

| theorem | says | argument |
|---|---|---|
| `TypesHold` | `Spec => []TypeOK` | `InvHolds` |
| `NothingIsSkipped` | `Spec => []NothingSkipped` | `PlacesOK`: a row's `Rank` is how many of the fitting rows come before it. Without ties, the rows that stayed have been shown exactly if they are among the first `Passed`, but for those a change before them has pulled back or pushed on; `CountOK`, `EndOK`: a walk ends only past the last place that was counted; `PollOK` is the same for a poll and its time |
| `NothingIsRepeated` | `Spec => []NothingRepeated` | the same ranks: a page shows places not passed yet. The lemmas say what a page of a sorted set is (`PlaceIsRank`, `PagesCover`) and what an insertion or a change does to the ranks (`PlacesAfterChange`) |

What is only model-checked is liveness: `RequestsFinish`, `LowStockIsNoticed`,
`ChargeIsRecorded`, `RefundIsRecorded`, and that an accepted email is sent or given up,
the fairness half of `ImplementsDelivery`. All need `ENABLED` of the fair actions, which
the provers cannot reason about.

The inductive invariants were evaluated by TLC on the runs' instances before they were
proved, except for three: `Books` and `Once` quantify over all integers, which TLC cannot
enumerate, and `ToldInv` was proved directly.

## 7. Abstractions and what is not modelled

- An order's lines are products and quantities; prices, totals, addresses and
  notes are left out. In `OrderPayments` a refund is partial or full, and Paystack
  gives back at most what was paid. The code only logs a charge of the wrong amount,
  so amounts of charges do not matter to what it does.
- In `Inventory` each recipient is notified over one channel, and two goroutines for the
  same alert count as one; `Notifications` has the channels, the list and the email.
- What is in a cart comes from `InitCarts` in `Inventory`; the cart's own operations are
  in `Storefront`. An order identity is fresh and which one it is does not matter.
- `BulkSetThreshold` is one statement for a set of products. A bulk threshold of 0 is
  refused by the request binding. The scan's limit of 100 products is ignored.
- Manual movements (restock, adjustment, and a cancellation or refund typed in by
  hand, which carry no order) have the reason `adjustment`.
- `UpdateStatus` in `Inventory` is one step, since what it saves there does not depend
  on what it read; in `OrderPayments` it does, and it is two.
- `Installation`: which mechanics are near enough and do the jobs is a set of lines;
  prices are a few numbers. Paystack takes several partial refunds of one payment, as it
  does in `OrderPayments`; how much of it they are is left out otherwise: part of a payment
  does to the rows what all of it does.
- `Notifications`: a key is an event, and a user if the event's keys have one. SMS and
  push are wanted by no default and sent by nobody, so they are left out. Users are not
  deleted: a job whose user is gone would go back to the list again and again. A push may
  fail whenever it likes; a Redis the API was started without stays away.
- `Accounts`: cryptography is left out: a token is who it is for and of which type, and
  it may expire at any time. `Logout` deletes a key nobody reads. `ChangePassword` is
  reached by no route and e-mail verification tokens are issued by nothing.
- `SupportChat`: time is the number of messages stamped. The rate limits of chats, the
  counts of unread messages and the notification of an administrator's reply are left
  out.
- `Catalog`: tags are set as categories are; names, prices and descriptions change
  nothing a property is about. Stock is adjusted in one step there: how its adjustments
  interleave is `Inventory`'s.
- `Listings`: a row is its identity, its sort key and what the filters ask of it. Clients
  that ask for page 0 or for a negative limit are left out.
- The database does not lose committed data, and Redis not what it was given.

Not modelled: uploads and storage (files in and out, no state); rate limiting and the
other middleware (a library's token buckets behind a mutex, headers); configuration,
start-up, migrations and connections (wiring); validation, formatting and distances (pure
functions); full-text ranking of the search. `PROJECT.json` lists them as components with
the reason.

## 8. Running it

    tlc -workers 2 -config inv_orders.cfg MCInventory
    tlc -workers 2 -config booking_races.cfg MCInstallation
    tlc -workers 2 -config notify.cfg Notifications
    tlapm InventoryProofs.tla
    tlapm OrderPaymentsProofs.tla
    tlapm InstallationProofs.tla
    tlapm NotificationsProofs.tla
    tlapm AccountsProofs.tla
    tlapm SupportChatProofs.tla
    tlapm StorefrontProofs.tla
    tlapm ListingsProofs.tla

and so on for the runs of section 4; `PROJECT.json` names the module of each, and the
configurations of section 5 go with the module of their property: `MCInventory`
(`cancelled_twice`, `told_one`, `unnoticed`), `MCOrderPayments` (`refunded_twice`,
`refund_dropped`, `failed_refund`), `MCInstallation` (`cancelled_unrefunded`),
`MCAccounts` (`lockout_fails`, `two_admins`, `verified_again`), `MCSupportChat` (`two_open`,
`cut_short`). With two workers none takes more than about two minutes: the runs that check
liveness, `inv_live` and `pay_live`, and `inv_rows`, which has the most states (2.3
million), take longest. A module of proofs takes some minutes from scratch.

`Mutant:` comments in the modules mark definitions that change one operator the way a
plausible bug would: put in its place, the property named in `PROJECT.json` is violated.
