----------------------------- MODULE Storefront -----------------------------
(***************************************************************************)
(* What customers and mechanics add to the catalogue: carts, wishlists,    *)
(* reviews, and questions with their answers (cart_service.go,             *)
(* wishlist_service.go, review_service.go, question_service.go), served by *)
(* the same process, and against the same products, as module Catalog.     *)
(*                                                                         *)
(* One cart line, one wish and one review per product, and one answer per  *)
(* mechanic: each is a check in one statement and an insert in a later     *)
(* one, and no index stands behind them.  Some of the checks treat a       *)
(* failed query like "there is none".                                      *)
(***************************************************************************)
EXTENDS Catalog

CONSTANTS
  Users,
  Mechanics,     \* users that are verified mechanics
  Admins,
  Questions,
  MaxQuantity    \* bound: units a request asks for

ASSUME StorefrontConstants ==
  Mechanics \subseteq Users /\ Admins \subseteq Users /\ MaxQuantity \in Nat \ {0}

VARIABLES
  questions,  \* question rows
  answers,    \* answer rows
  reviews, wishes, cart

storefront == <<questions, answers, reviews, wishes, cart>>
vars == <<rows, sessions, storefront>>

Most(m, n) == IF m < n THEN n ELSE m

NoQuestion == [status |-> "none", author |-> None, views |-> 0]
QuestionRow == [status : {"open", "answered", "closed"}, author : Users, views : Nat]
AnswerRow == [question : Questions, user : Users, accepted : BOOLEAN, request : Nat]
WishRow == [user : Users, product : Products, request : Nat, blind : BOOLEAN]
ReviewRow == [user : Users, product : Products, request : Nat, blind : BOOLEAN,
              verified : BOOLEAN]
CartRow == [user : Users, product : Products, request : Nat, blind : BOOLEAN,
            quantity : 0 .. Most(MaxStock, MaxQuantity)]

TypeOK ==
  /\ CatalogTypeOK
  /\ questions \in [Questions -> QuestionRow \cup {NoQuestion}]
  /\ answers \subseteq AnswerRow
  /\ reviews \subseteq ReviewRow
  /\ wishes \subseteq WishRow
  /\ cart \subseteq CartRow

-----------------------------------------------------------------------------
(* Reviews and wishes. *)

\* UserHasReviewed and Exists answer "no" when their query fails.
EntriesOf(table, u, p) == {r \in table : r.user = u /\ r.product = p}

PostReview(s, u, p) ==
  /\ Begin(s, "has reviewed", [user |-> u, product |-> p, blind |-> FALSE])
  /\ UNCHANGED <<rows, storefront>>

PostWish(s, u, p) ==
  /\ Begin(s, "has wished", [user |-> u, product |-> p, blind |-> FALSE])
  /\ UNCHANGED <<rows, storefront>>

CheckEntry(s, check, table, insert, fails) ==
  /\ At(s, check)
  /\ IF ~fails /\ EntriesOf(table, job[s].user, job[s].product) # {}
     THEN Finish(s)
     ELSE Go(s, insert, [job[s] EXCEPT !.blind = fails])
  /\ UNCHANGED <<rows, storefront>>

NewEntry(s) == [user |-> job[s].user, product |-> job[s].product,
                request |-> serving[s], blind |-> job[s].blind]

\* verified says whether the orders show a purchase; a product that has no row
\* fails the foreign key.
InsertReview(s, verified) ==
  /\ At(s, "insert review")
  /\ reviews' = IF job[s].product \notin Stored(products) THEN reviews
                ELSE reviews \cup {[user |-> job[s].user, product |-> job[s].product,
                       request |-> serving[s], blind |-> job[s].blind,
                       verified |-> verified]}
  /\ Finish(s)
  /\ UNCHANGED <<rows, questions, answers, wishes, cart>>

InsertWish(s) ==
  /\ At(s, "insert wish")
  /\ wishes' = IF job[s].product \in Stored(products)
               THEN wishes \cup {NewEntry(s)} ELSE wishes
  /\ Finish(s)
  /\ UNCHANGED <<rows, questions, answers, reviews, cart>>

RemoveWish(s, u, p) ==
  /\ AtOnce(s)
  /\ wishes' = wishes \ EntriesOf(wishes, u, p)
  /\ UNCHANGED <<rows, questions, answers, reviews, cart>>

-----------------------------------------------------------------------------
(* The cart. *)

\* Mutant: the quantity is not capped to the stock.
Uncapped(quantity, stock) == quantity

Capped(quantity, stock) == IF quantity > stock THEN stock ELSE quantity

PostItem(s, u, p, quantity) ==
  /\ p \in Live(products) /\ quantity <= products[p].stock
  /\ Begin(s, "find line", [user |-> u, product |-> p, quantity |-> quantity,
                            stock |-> products[p].stock, blind |-> FALSE])
  /\ UNCHANGED <<rows, storefront>>

\* Any error of GetItem means "not in the cart yet".
FindLine(s, fails) ==
  /\ At(s, "find line")
  /\ LET j == job[s]
         found == EntriesOf(cart, j.user, j.product) IN
       \/ \E l \in found : ~fails /\ Go(s, "set quantity",
            [line |-> l, quantity |-> Capped(l.quantity + j.quantity, j.stock)])
       \/ (fails \/ found = {}) /\ Go(s, "insert line", [j EXCEPT !.blind = fails])
  /\ UNCHANGED <<rows, storefront>>

InsertLine(s) ==
  /\ At(s, "insert line")
  /\ cart' = cart \cup {[user |-> job[s].user, product |-> job[s].product,
       request |-> serving[s], blind |-> job[s].blind, quantity |-> job[s].quantity]}
  /\ Finish(s)
  /\ UNCHANGED <<rows, questions, answers, reviews, wishes>>

\* UPDATE by id writes the quantity computed from what was read; a line that is
\* gone is not updated.
SetQuantity(s) ==
  /\ At(s, "set quantity")
  /\ LET l == job[s].line IN
       cart' = {IF k.request = l.request THEN [k EXCEPT !.quantity = job[s].quantity] ELSE k
                  : k \in cart}
  /\ Finish(s)
  /\ UNCHANGED <<rows, questions, answers, reviews, wishes>>

PutItem(s, l, quantity) ==
  /\ l \in cart
  /\ Begin(s, "read stock", [line |-> l, quantity |-> quantity])
  /\ UNCHANGED <<rows, storefront>>

\* Capped to the stock, down to 0; a product that is gone caps nothing.
ReadStock(s) ==
  /\ At(s, "read stock")
  /\ LET p == job[s].line.product IN
       Go(s, "set quantity", [job[s] EXCEPT !.quantity =
         IF p \in Live(products) THEN Capped(@, products[p].stock) ELSE @])
  /\ UNCHANGED <<rows, storefront>>

\* RemoveItem takes one line, Clear (and an order) all of them.
RemoveLines(s, u, gone) ==
  /\ gone \subseteq {l \in cart : l.user = u} /\ gone # {}
  /\ AtOnce(s)
  /\ cart' = cart \ gone
  /\ UNCHANGED <<rows, questions, answers, reviews, wishes>>

-----------------------------------------------------------------------------
(* Questions and answers. *)

\* A question is about a live product, a live category or a vehicle.
PostQuestion(s, q, u, about) ==
  /\ about \in Live(products) \cup Live(categories) \cup {None}
  /\ Begin(s, "insert question", [question |-> q, user |-> u])
  /\ UNCHANGED <<rows, storefront>>

\* The unique index refuses a slug that has been taken since it was looked for.
InsertQuestion(s) ==
  /\ At(s, "insert question")
  /\ LET q == job[s].question IN
       questions' = IF questions[q] # NoQuestion THEN questions
         ELSE [questions EXCEPT ![q] =
                 [status |-> "open", author |-> job[s].user, views |-> 0]]
  /\ Finish(s)
  /\ UNCHANGED <<rows, answers, reviews, wishes, cart>>

Asked(q) == questions[q] # NoQuestion
Closed(q) == questions[q].status = "closed"

\* GetBySlug
ViewQuestion(s, q) ==
  /\ Asked(q) /\ ~Closed(q)
  /\ Begin(s, "count view", [question |-> q])
  /\ UNCHANGED <<rows, storefront>>

\* IncrementViewCount: UPDATE adds to the column, whatever the row is by now.
CountView(s) ==
  /\ At(s, "count view")
  /\ LET q == job[s].question IN
       questions' = IF Asked(q) THEN [questions EXCEPT ![q].views = @ + 1] ELSE questions
  /\ Finish(s)
  /\ UNCHANGED <<rows, answers, reviews, wishes, cart>>

\* The three requests that save the question row they read.
ReadsQuestion(s, q, u, step) ==
  /\ Asked(q)
  /\ Begin(s, step, [question |-> q, user |-> u, row |-> questions[q], answer |-> None])
  /\ UNCHANGED <<rows, storefront>>

PostAnswer(s, q, u) == u \in Mechanics /\ ~Closed(q) /\ ReadsQuestion(s, q, u, "count answers")

AcceptAnswer(s, q, u) ==
  u = questions[q].author /\ ~Closed(q) /\ ReadsQuestion(s, q, u, "read answer")

CloseQuestion(s, q, u) ==
  (u \in Admins \/ u = questions[q].author) /\ ReadsQuestion(s, q, u, "close")

AnswersTo(q) == {a \in answers : a.question = q}

CountAnswers(s) ==
  /\ At(s, "count answers")
  /\ IF \E a \in AnswersTo(job[s].question) : a.user = job[s].user
     THEN Finish(s) ELSE Go(s, "answer", job[s])
  /\ UNCHANGED <<rows, storefront>>

SavedAs(s, status) == [questions EXCEPT ![job[s].question] = [job[s].row EXCEPT !.status = status]]

\* Mutant: the question is not saved with the answer.
CommitAnswerAlone(s) ==
  /\ At(s, "answer")
  /\ answers' = answers \cup {[question |-> job[s].question, user |-> job[s].user,
                               accepted |-> FALSE, request |-> serving[s]]}
  /\ Finish(s)
  /\ UNCHANGED <<rows, questions, reviews, wishes, cart>>

\* One transaction inserts the answer and, if the question was open when it was
\* read, saves it as answered.
CommitAnswer(s) ==
  /\ At(s, "answer")
  /\ answers' = answers \cup {[question |-> job[s].question, user |-> job[s].user,
                               accepted |-> FALSE, request |-> serving[s]]}
  /\ questions' = IF job[s].row.status = "open" THEN SavedAs(s, "answered") ELSE questions
  /\ Finish(s)
  /\ UNCHANGED <<rows, reviews, wishes, cart>>

ReadAnswer(s) ==
  /\ At(s, "read answer")
  /\ \/ \E a \in AnswersTo(job[s].question) :
          Go(s, "accept", [job[s] EXCEPT !.answer = [request |-> a.request]])
     \/ AnswersTo(job[s].question) = {} /\ Finish(s)
  /\ UNCHANGED <<rows, storefront>>

\* One transaction: UPDATE clears every answer of the question, and keeps others
\* from them until the commit; the accepted one and the question are saved.
CommitAccept(s) ==
  /\ At(s, "accept")
  /\ answers' = {IF a.question # job[s].question THEN a
                 ELSE [a EXCEPT !.accepted = a.request = job[s].answer.request] : a \in answers}
  /\ questions' = SavedAs(s, "answered")
  /\ Finish(s)
  /\ UNCHANGED <<rows, reviews, wishes, cart>>

CommitClose(s) ==
  /\ At(s, "close")
  /\ questions' = SavedAs(s, "closed")
  /\ Finish(s)
  /\ UNCHANGED <<rows, answers, reviews, wishes, cart>>

-----------------------------------------------------------------------------
CustomerRequest(s, u) ==
  \/ \E p \in Products : PostReview(s, u, p) \/ PostWish(s, u, p) \/ RemoveWish(s, u, p)
  \/ \E p \in Products, quantity \in 1 .. MaxQuantity : PostItem(s, u, p, quantity)
  \/ \E l \in {l \in cart : l.user = u}, quantity \in 1 .. MaxQuantity : PutItem(s, l, quantity)
  \/ \E gone \in {{l} : l \in cart} \cup {{l \in cart : l.user = u}} : RemoveLines(s, u, gone)
  \/ \E q \in Questions, about \in Products \cup Categories \cup {None} :
       PostQuestion(s, q, u, about)
  \/ \E q \in Questions :
       PostAnswer(s, q, u) \/ AcceptAnswer(s, q, u) \/ CloseQuestion(s, q, u)

CustomerStep(s) ==
  \/ \E fails \in BOOLEAN :
       \/ CheckEntry(s, "has reviewed", reviews, "insert review", fails)
       \/ CheckEntry(s, "has wished", wishes, "insert wish", fails)
       \/ FindLine(s, fails)
  \/ \E verified \in BOOLEAN : InsertReview(s, verified)
  \/ InsertWish(s) \/ InsertLine(s) \/ SetQuantity(s) \/ ReadStock(s)
  \/ InsertQuestion(s) \/ CountView(s) \/ CountAnswers(s) \/ CommitAnswer(s)
  \/ ReadAnswer(s) \/ CommitAccept(s) \/ CommitClose(s)

Next ==
  \/ CatalogNext /\ UNCHANGED storefront
  \/ \E s \in Sessions :
       \/ \E u \in Users : CustomerRequest(s, u)
       \/ \E q \in Questions : ViewQuestion(s, q)
       \/ CustomerStep(s)

Init ==
  /\ \E stocked \in SUBSET Products, listed \in SUBSET Categories :
       CatalogInit(stocked, listed)
  /\ questions = [q \in Questions |-> NoQuestion]
  /\ answers = {} /\ reviews = {} /\ wishes = {} /\ cart = {}

Spec == Init /\ [][Next]_vars

-----------------------------------------------------------------------------
\* The status tells a visitor whether anybody has answered: an open question has no
\* answer, an answered one has, whatever stale question rows PostAnswer, AcceptAnswer
\* and Close save over each other.  (That a closed one stays closed is not so: a row
\* read before the close is saved after it.)
AnswersMatchStatus ==
  \A q \in Questions :
    /\ questions[q].status = "open" => AnswersTo(q) = {}
    /\ questions[q].status = "answered" => AnswersTo(q) # {}

\* Two entries of one user for one product, or two answers of one mechanic, come from
\* requests that overlapped, or from one whose check failed and counted as "none".
OneEach ==
  /\ \A table \in {reviews, wishes, cart} : \A r, t \in table :
       r.user = t.user /\ r.product = t.product /\ r.request # t.request
         => Overlapped(r, t) \/ r.blind \/ t.blind
  /\ \A a, b \in answers :
       a.question = b.question /\ a.user = b.user /\ a # b => Overlapped(a, b)

\* What the checks keep single, in the catalogue and in what customers add to it, is
\* doubled by requests that overlap or by a query whose failure is ignored, and never
\* by requests that follow each other, crashes and half-done requests between them.
NoLoneDuplicates == VehiclesAreFound /\ OnePrimary /\ OneEach
=============================================================================
