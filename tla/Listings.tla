------------------------------ MODULE Listings ------------------------------
(***************************************************************************)
(* Every listing of the API that comes in pages, and the clients that read *)
(* it: one that walks the pages from the first to the last, as             *)
(* meta.total_pages tells it, and one that polls a conversation with the   *)
(* time of the last message it has (docs/support-chat.md).                 *)
(*                                                                         *)
(* A request is two statements, one that counts and one that reads with    *)
(* OFFSET and LIMIT, and between any two of them rows come, change and go. *)
(* What a row says is abstracted to what a filter asks; a row's key is     *)
(* what the listing is sorted by, and rows with one key come in any order. *)
(***************************************************************************)
EXTENDS Integers, FiniteSets, Sequences, SequencesExt

CONSTANTS
  None,
  Default,      \* 20 (50 for messages): the limit used when none, or a bad one, is asked for
  Cap,          \* 100
  MaxLimit,     \* bound: the limits clients ask for; negative ones are left out
  MaxKey,       \* bound: the clock, and the keys that are not times
  MaxRows,      \* bound: rows that are ever inserted
  MaxChanges,   \* bound: changes of rows
  Writers       \* requests that insert at the same time

ASSUME ListingsConstants ==
  /\ Default \in Nat \ {0} /\ Cap \in Nat /\ Default <= Cap
  /\ MaxLimit \in Nat /\ MaxKey \in Nat \ {0}
  /\ MaxRows \in Nat \ {0} /\ MaxChanges \in Nat

VARIABLES
  list,      \* which listing the clients read
  rows,      \* the rows of its table
  clock,
  stamps,    \* created_at of the insert a writer is about to make, or 0
  changes,
  walk,      \* the client's requests
  stayed,    \* history: rows that have fitted, unmoved, since the walk began
  causes     \* history: what happened to the table during the walk

vars == <<list, rows, clock, stamps, changes, walk, stayed, causes>>

-----------------------------------------------------------------------------
(* The listings: what their rows say, what requests ask of them, which rows  *)
(* fit, what they are sorted by and how they take a limit.  "reset" makes a  *)
(* limit out of range the default, "cut" makes a large one Cap, "free" takes *)
(* any positive one.                                                         *)

Listing(data, asks, fits, order, limits) ==
  [data |-> data, asks |-> asks, fits |-> fits, order |-> order, limits |-> limits]

\* Of one user, product, mechanic or conversation.
Owned(order, limits) ==
  Listing({"ours", "theirs"}, {"ours"}, {<<"ours", "ours">>}, order, limits)

\* Any, or those with one status.
WithStatus(statuses, asks, order, limits) ==
  Listing(statuses, asks, {p \in asks \X statuses : p[1] \in {None, p[2]}}, order, limits)

MyOrders == Owned("newest", "free")
AllOrders == WithStatus({"pending", "shipped"}, {None, "shipped"}, "newest", "free")
Movements == Owned("newest", "free")
Reviews == Owned("newest", "free")
QuoteLines == Owned("newest", "reset")
Quotes == Owned("newest", "reset")
MyBookings == Owned("greatest", "reset")
MechanicBookings == Owned("least", "reset")

Messages == Owned("oldest", "reset")

Mechanics ==
  WithStatus({"pending", "verified"}, {None, "pending", "verified"}, "newest", "reset")

\* Sorted by the quantity in stock; an administrator sees every vendor's.
LowStock ==
  LET data == [low : BOOLEAN, vendor : {"ours", "theirs"}]
      asks == {None, "ours"} IN
  Listing(data, asks, {p \in asks \X data : p[2].low /\ p[1] \in {None, p[2].vendor}},
          "least", "free")

Notifications ==
  LET data == [channel : {"in_app", "email"}, read : BOOLEAN]
      asks == {[unreadOnly |-> b] : b \in BOOLEAN} IN
  Listing(data, asks,
    {p \in asks \X data : p[2].channel = "in_app" /\ (p[1].unreadOnly => ~p[2].read)},
    "newest", "reset")

\* Closed questions are listed only when asked for.
Questions ==
  LET data == [status : {"open", "closed"}, product : {"ours", "theirs"}]
      asks == [status : {None, "closed"}, product : {None, "ours"}] IN
  Listing(data, asks,
    {p \in asks \X data :
       /\ IF p[1].status = None THEN p[2].status # "closed" ELSE p[2].status = p[1].status
       /\ p[1].product \in {None, p[2].product}},
    "newest", "reset")

\* Sorted by last_message_at, which every message sets; narrow: it has the status, and is
\* a guest's, if the request asks for that.
Inbox ==
  LET data == [narrow : BOOLEAN, unread : BOOLEAN]
      asks == {[narrow |-> b, unreadOnly |-> b] : b \in BOOLEAN} IN
  Listing(data, asks,
    {p \in asks \X data :
       /\ p[1].narrow => p[2].narrow
       /\ p[1].unreadOnly => p[2].unread},
    "newest", "reset")

\* hit: the row has the category, words, price, condition or vehicle asked for.
Found(order, limits) ==
  LET data == [live : BOOLEAN, hit : BOOLEAN]
      asks == {[all |-> b] : b \in BOOLEAN} IN
  Listing(data, asks, {p \in asks \X data : p[2].live /\ (p[1].all \/ p[2].hit)}, order, limits)

Products == Found("newest", "free")
ProductsByPrice == Found("least", "free")
Search == Found("newest", "cut")

\* The products of a category, or of its children, which may have them again: links
\* counts how often.
CategoryProducts ==
  LET data == {d \in [live : BOOLEAN, links : 0 .. 2] : d.live \/ d.links > 0} IN
  Listing(data, {None}, {p \in {None} \X data : p[2].links > 0}, "none", "free")

Vehicles ==
  Listing({"hit", "miss"}, {None, "hit"},
    {p \in {None, "hit"} \X {"hit", "miss"} : p[1] \in {None, p[2]}}, "least", "cut")

Listings ==
  [myOrders |-> MyOrders, allOrders |-> AllOrders, movements |-> Movements,
   reviews |-> Reviews, quoteLines |-> QuoteLines, quotes |-> Quotes,
   myBookings |-> MyBookings, mechanicBookings |-> MechanicBookings,
   messages |-> Messages, mechanics |-> Mechanics, lowStock |-> LowStock,
   notifications |-> Notifications, questions |-> Questions, inbox |-> Inbox,
   products |-> Products, byPrice |-> ProductsByPrice, search |-> Search,
   category |-> CategoryProducts, vehicles |-> Vehicles]

This == Listings[list]

ASSUME NoneConstant ==
  \A l \in DOMAIN Listings : None \notin [id : Nat, key : Nat, data : Listings[l].data]

\* Rows that no request changes once they are there: what is listed of them, and what
\* they are sorted by, stays.
Fixed == {"myOrders", "movements", "reviews", "quoteLines", "quotes", "myBookings",
          "mechanicBookings", "messages", "vehicles"}

\* Sorted by a time that an insert takes from its own clock.
Timed == {l \in DOMAIN Listings : Listings[l].order \in {"newest", "oldest"}}

\* Sorted by what requests change.
Moving == {"inbox", "lowStock", "byPrice"}

\* An error of the counting query is ignored.
Unchecked == {"myOrders", "allOrders", "reviews"}

\* Filtered by a category, or a vehicle, that a query of its own looks up.
Filtered == {"products", "byPrice", "search"}

-----------------------------------------------------------------------------
(* Pages *)

\* Mutant: a page may be of any size.
AnyLimit(limit) == IF limit < 1 THEN Default ELSE limit

UsedLimit(limit) ==
  IF limit < 1 THEN Default
  ELSE IF limit <= Cap \/ This.limits = "free" THEN limit
  ELSE IF This.limits = "cut" THEN Cap ELSE Default

Offset(page, limit) == (page - 1) * UsedLimit(limit)

\* Search alone corrects the limit before it tells it to the client.
MetaLimit(limit) == IF list = "search" THEN UsedLimit(limit) ELSE limit

\* Mutant: the last page counts only when it is full.
FullPages(total, limit) == total \div limit

TotalPages(total, limit) == total \div limit + IF total % limit > 0 THEN 1 ELSE 0

Before(r, t) == IF This.order \in {"least", "oldest"} THEN r.key < t.key ELSE r.key > t.key

Sorted(set) ==
  {seq \in SetToSeqs(set) :
     This.order = "none" \/ \A i, j \in 1 .. Len(seq) : i < j => ~Before(seq[j], seq[i])}

PageOf(seq, offset, limit) ==
  SubSeq(seq, offset + 1, Min({offset + limit, Len(seq)}))

Fits(data) == <<walk.asked, data>> \in This.fits

\* Mutant: from the time given on.
SinceThen(r) == r.key >= walk.since

Newer(r) == r.key > walk.since

Fitting == {r \in rows : Fits(r.data) /\ Newer(r)}

Links(set) ==
  Cardinality({r \in set : r.data.links > 0}) + Cardinality({r \in set : r.data.links > 1})

Counted == IF list = "category" THEN Links(rows) ELSE Cardinality(Fitting)

\* The products of a category are found by the ids its links had, deleted ones left out.
Readable ==
  IF list = "category" THEN {r \in rows : r.id \in walk.ids /\ r.data.live} ELSE Fitting

-----------------------------------------------------------------------------
(* The client *)

NoWalk == [pc |-> "idle", asked |-> None, page |-> 0, limit |-> 0, total |-> 0,
           ids |-> {}, seen |-> <<>>, since |-> 0, polls |-> FALSE]

Ids(set) == {r.id : r \in set}
Seen == {walk.seen[i] : i \in 1 .. Len(walk.seen)}

Row == [id : 1 .. MaxRows, key : 1 .. MaxKey, data : This.data]

TypeOK ==
  /\ list \in DOMAIN Listings
  /\ rows \subseteq Row /\ Cardinality(Ids(rows)) = Cardinality(rows)
  /\ clock \in 1 .. MaxKey /\ stamps \in [Writers -> 0 .. clock]
  /\ changes \in 0 .. MaxChanges
  /\ walk.pc \in {"idle", "ask", "counted", "done", "failed"}
  /\ walk.page \in 0 .. 2 * MaxRows /\ walk.limit \in (0 .. MaxLimit) \cup {Default}
  /\ walk.total \in 0 .. 2 * MaxRows /\ walk.ids \subseteq 1 .. MaxRows
  /\ walk.seen \in Seq(1 .. MaxRows) /\ walk.since \in 0 .. MaxKey
  /\ This.limits # "free" /\ ~walk.polls => Len(walk.seen) <= Cap * walk.page
  /\ stayed \subseteq 1 .. MaxRows
  /\ causes \subseteq {"pulled", "pushed", "tied", "uncounted"}

Start(l, first) ==
  /\ list = l /\ walk.pc = "idle"
  /\ \E asked \in first, limit \in 0 .. MaxLimit :
       walk' = [NoWalk EXCEPT !.pc = "ask", !.asked = asked, !.page = 1, !.limit = limit]
  /\ UNCHANGED <<list, rows, clock, stamps, changes, stayed, causes>>

Asks(l) == Listings[l].asks

GetOrders == Start("myOrders", Asks("myOrders"))
GetAllOrders == Start("allOrders", Asks("allOrders"))
GetMovements == Start("movements", Asks("movements"))
GetLowStock == Start("lowStock", Asks("lowStock"))
GetReviews == Start("reviews", Asks("reviews"))
GetQuoteLines == Start("quoteLines", Asks("quoteLines"))
GetQuotes == Start("quotes", Asks("quotes"))
GetBookings == Start("myBookings", Asks("myBookings"))
GetMechanicBookings == Start("mechanicBookings", Asks("mechanicBookings"))
GetMessages == Start("messages", Asks("messages"))
GetVerified == Start("mechanics", {"verified"})
GetMechanics == Start("mechanics", Asks("mechanics"))
GetNotifications == Start("notifications", Asks("notifications"))
GetQuestions == Start("questions", Asks("questions"))
GetProductQuestions == Start("questions", [status : {None}, product : {"ours"}])
GetInbox == Start("inbox", Asks("inbox"))
GetProducts == Start("products", Asks("products")) \/ Start("byPrice", Asks("byPrice"))
GetSearch == Start("search", Asks("search"))
GetCategoryProducts == Start("category", {None})
GetVehicles == Start("vehicles", Asks("vehicles"))

\* A client without a connection asks for what is newer than the last message it has.
PollMessages ==
  /\ list = "messages" /\ walk.pc = "idle"
  /\ walk' = [NoWalk EXCEPT !.pc = "ask", !.asked = "ours", !.page = 1, !.limit = Default,
                            !.polls = TRUE]
  /\ UNCHANGED <<list, rows, clock, stamps, changes, stayed, causes>>

First == walk.seen = <<>> /\ walk.total = 0

Count ==
  /\ walk.pc = "ask"
  /\ walk' = [walk EXCEPT !.pc = "counted", !.total = Counted, !.ids = Ids(Fitting)]
  /\ stayed' = IF First THEN Ids(Fitting) ELSE stayed
  /\ causes' = IF First THEN {} ELSE causes \ {"uncounted"}
  /\ UNCHANGED <<list, rows, clock, stamps, changes>>

CountFails ==
  /\ walk.pc = "ask" /\ list \in Unchecked
  /\ walk' = [walk EXCEPT !.pc = "counted", !.total = 0]
  /\ stayed' = IF First THEN Ids(Fitting) ELSE stayed
  /\ causes' = (IF First THEN {} ELSE causes) \cup {"uncounted"}
  /\ UNCHANGED <<list, rows, clock, stamps, changes>>

\* An error of that query is ignored: the filter is dropped, or lets nothing through, and
\* the page is not of what was asked for.  The walk is not followed any further.
FilterFails ==
  /\ walk.pc = "ask" /\ list \in Filtered /\ ~walk.asked.all
  /\ walk' = [walk EXCEPT !.pc = "failed"]
  /\ UNCHANGED <<list, rows, clock, stamps, changes, stayed, causes>>

Tied(set) == \E r, t \in set : r # t /\ r.key = t.key

LastKey(page) == IF page = <<>> THEN walk.since ELSE Last(page).key

\* JSONPaginated divides by the limit that was asked for: 0 panics, and Recovery answers
\* 500.
Answered(page) ==
  LET next == [walk EXCEPT !.seen = @ \o [i \in DOMAIN page |-> page[i].id]]
      meta == MetaLimit(walk.limit) IN
    IF meta = 0 THEN [walk EXCEPT !.pc = "failed"]
    ELSE IF walk.polls THEN [next EXCEPT !.pc = "ask", !.since = LastKey(page)]
    ELSE IF walk.page >= TotalPages(walk.total, meta) THEN [next EXCEPT !.pc = "done"]
    ELSE [next EXCEPT !.pc = "ask", !.page = @ + 1]

ReadPage ==
  /\ walk.pc = "counted"
  /\ \E seq \in Sorted(Readable) :
       walk' = Answered(PageOf(seq, Offset(walk.page, walk.limit), UsedLimit(walk.limit)))
  /\ causes' = causes \cup IF Tied(Readable) THEN {"tied"} ELSE {}
  /\ UNCHANGED <<list, rows, clock, stamps, changes, stayed>>

-----------------------------------------------------------------------------
(* What other requests do to the table meanwhile. *)

\* The rows the client has been through, by their number.
Passed ==
  IF walk.pc \in {"ask", "counted"} THEN Offset(walk.page, walk.limit) ELSE 0

Place(r) == Cardinality({t \in Fitting : Before(t, r)}) + 1

\* A row is inserted (old is None) or changed; history notes what that does to the walk.
Became(old, new) ==
  LET left == old # None /\ old \in Fitting
      came == Fits(new.data) /\ Newer(new)
      behind(r) == Cardinality({t \in Fitting \ {old} : Before(t, r)}) < Passed
      unmoved == old # None /\ old.key = new.key IN
  /\ rows' = (rows \ {old}) \cup {new}
  /\ stayed' = (IF left /\ ~(came /\ unmoved) THEN stayed \ {old.id} ELSE stayed)
                \cup IF walk.polls /\ came THEN {new.id} ELSE {}
  /\ causes' = causes \cup (IF left /\ ~(came /\ unmoved) /\ behind(old) THEN {"pulled"} ELSE {})
                      \cup (IF came /\ ~(left /\ unmoved) /\ behind(new) THEN {"pushed"} ELSE {})
                      \cup (IF came /\ ~left /\ walk.pc = "counted" THEN {"uncounted"} ELSE {})

TakeTime(w) ==
  /\ list \in Timed /\ stamps[w] = 0
  /\ Cardinality(rows) + Cardinality({v \in Writers : stamps[v] > 0}) < MaxRows
  /\ stamps' = [stamps EXCEPT ![w] = clock]
  /\ clock' \in {clock, clock + 1} /\ clock' <= MaxKey
  /\ UNCHANGED <<list, rows, changes, walk, stayed, causes>>

NextId == Cardinality(rows) + 1

Insert(w, data) ==
  /\ NextId <= MaxRows
  /\ IF list \in Timed
     THEN stamps[w] > 0 /\ Became(None, [id |-> NextId, key |-> stamps[w], data |-> data])
     ELSE \E key \in 1 .. MaxKey : Became(None, [id |-> NextId, key |-> key, data |-> data])
  /\ stamps' = [stamps EXCEPT ![w] = 0]
  /\ UNCHANGED <<list, clock, changes, walk>>

\* A notification is marked as read; a question keeps its product, and a product its
\* vendor.
MayBecome(old, new) ==
  /\ list = "notifications" => old.channel = "in_app" /\ new = [old EXCEPT !.read = TRUE]
  /\ list = "questions" => new.product = old.product
  /\ list = "lowStock" => new.vendor = old.vendor

\* A status, a read mark, a stock, a price, a time of the last message, a deletion.
Change(r, data, key) ==
  /\ list \notin Fixed /\ changes < MaxChanges
  /\ list \in Moving \/ key = r.key
  /\ list = "inbox" => key <= clock
  /\ MayBecome(r.data, data)
  /\ Became(r, [r EXCEPT !.data = data, !.key = key])
  /\ changes' = changes + 1
  /\ UNCHANGED <<list, clock, stamps, walk>>

Read ==
  \/ GetOrders \/ GetAllOrders \/ GetMovements \/ GetLowStock \/ GetReviews
  \/ GetQuoteLines \/ GetQuotes \/ GetBookings \/ GetMechanicBookings \/ GetMessages
  \/ GetVerified \/ GetMechanics \/ GetNotifications \/ GetQuestions
  \/ GetProductQuestions \/ GetInbox \/ GetProducts \/ GetSearch
  \/ GetCategoryProducts \/ GetVehicles \/ PollMessages
  \/ Count \/ CountFails \/ FilterFails \/ ReadPage

Write ==
  \/ \E w \in Writers : TakeTime(w) \/ \E data \in This.data : Insert(w, data)
  \/ \E r \in rows, data \in This.data, key \in 1 .. MaxKey : Change(r, data, key)

Next == Read \/ Write

Init ==
  /\ list \in DOMAIN Listings
  /\ rows = {} /\ clock = 1 /\ stamps = [w \in Writers |-> 0] /\ changes = 0
  /\ walk = NoWalk /\ stayed = {} /\ causes = {}

Spec == Init /\ [][Next]_vars

-----------------------------------------------------------------------------
\* A walk that has come to its end has shown every row that was there all the time.
\* What may hide one: a row before it that left, rows that share a key (or a listing
\* without an order), a limit the server does not take although it repeats it, or a row
\* that came, or a count that failed, between the last request's two statements.  A poll
\* misses only a message that was committed after a later one was, or shares its time.
NothingSkipped ==
  /\ walk.pc = "done" /\ causes \cap {"pulled", "tied", "uncounted"} = {}
       /\ This.order # "none" /\ MetaLimit(walk.limit) = UsedLimit(walk.limit)
     => stayed \subseteq Seen
  /\ walk.polls => \A r \in rows :
       r.id \in stayed /\ r.key <= walk.since =>
         r.id \in Seen \/ \E t \in rows : t.id \in Seen /\ t.key = r.key

\* A walk shows a row that stays where it is twice only when another came in before what
\* had been shown, or when rows share a key; a poll shows nothing twice.
NothingRepeated ==
  \A i, j \in 1 .. Len(walk.seen) :
    i # j /\ walk.seen[i] = walk.seen[j] =>
      \/ ~walk.polls /\ walk.seen[i] \notin stayed
      \/ ~walk.polls /\ (This.order = "none" \/ causes \cap {"pushed", "tied"} # {})
=============================================================================
