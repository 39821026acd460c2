-------------------------- MODULE StorefrontProofs --------------------------
(***************************************************************************)
(* What holds of Storefront, and of the Catalog under it, for any number   *)
(* of requests, products, categories, vehicles, images, customers and      *)
(* questions: proofs for TLAPS.                                            *)
(***************************************************************************)
EXTENDS Storefront, FiniteSetTheorems, TLAPS

-----------------------------------------------------------------------------
(* Requests. *)

RequestsOK ==
  /\ pc = [s \in Sessions |-> pc[s]]
  /\ job = [s \in Sessions |-> job[s]]
  /\ serving \in [Sessions -> 0 .. requests]
  /\ \A s \in Sessions : serving[s] = 0 <=> pc[s] = "idle"
  /\ \A s, t \in Sessions :
       s # t /\ serving[s] # 0 /\ serving[t] # 0 => {serving[s], serving[t]} \in together
  /\ requests \in 0 .. MaxRequests
  /\ \A pair \in together : pair \subseteq 1 .. requests /\ Cardinality(pair) = 2
  /\ crashes \in 0 .. MaxCrashes

\* A step of session s, after which it is at step with values.
Acts(s, step, values) ==
  /\ RequestsOK'
  /\ together \subseteq together'
  /\ pc'[s] = step /\ job'[s] = values
  /\ \A t \in Sessions \ {s} :
       pc'[t] = pc[t] /\ job'[t] = job[t] /\ serving'[t] = serving[t]

LEMMA TwoNumbers ==
  ASSUME NEW m, NEW n, m # n PROVE Cardinality({m, n}) = 2
<1>1. IsFiniteSet({m}) /\ Cardinality({m}) = 1
  BY FS_Singleton
<1>2. {m, n} = {m} \cup {n} /\ n \notin {m}
  OBVIOUS
<1> QED BY <1>1, <1>2, FS_AddElement

\* A new request has been in progress with all those that are.
LEMMA ArrivalMeets ==
  ASSUME RequestsOK, NEW s \in Sessions, Arrives(s)
  PROVE  /\ serving[s] = 0 /\ pc[s] = "idle"
         /\ requests \in Nat /\ requests' = requests + 1 /\ requests' \in 0 .. MaxRequests
         /\ together \subseteq together'
         /\ \A pair \in together' : pair \subseteq 1 .. requests' /\ Cardinality(pair) = 2
         /\ \A t \in Sessions : serving[t] # 0 => {requests + 1, serving[t]} \in together'
<1>1. /\ requests \in Nat /\ requests' = requests + 1 /\ requests < MaxRequests
      /\ serving[s] = 0 /\ pc[s] = "idle"
      /\ together' = together \cup
           {{requests + 1, serving[t]} : t \in {t \in Sessions : serving[t] # 0}}
  BY DEF RequestsOK, Arrives
<1>2. ASSUME NEW pair \in together' PROVE pair \subseteq 1 .. requests' /\ Cardinality(pair) = 2
  <2>1. CASE pair \in together
    <3>1. pair \subseteq 1 .. requests /\ Cardinality(pair) = 2
      BY <2>1 DEF RequestsOK
    <3> QED BY <3>1, <1>1
  <2>2. CASE pair \notin together
    <3>1. PICK t \in Sessions : serving[t] # 0 /\ pair = {requests + 1, serving[t]}
      BY <1>1, <2>2
    <3>2. serving[t] \in 1 .. requests
      BY <3>1, <1>1 DEF RequestsOK
    <3>3. pair \subseteq 1 .. requests'
      BY <3>1, <3>2, <1>1
    <3>4. requests + 1 # serving[t]
      BY <3>2, <1>1
    <3>5. Cardinality(pair) = 2
      BY <3>1, <3>4, TwoNumbers, Zenon
    <3> QED BY <3>3, <3>5
  <2> QED BY <2>1, <2>2
<1>3. requests' \in 0 .. MaxRequests
  BY <1>1, CatalogConstants
<1>4. \A t \in Sessions : serving[t] # 0 => {requests + 1, serving[t]} \in together'
  BY <1>1
<1> QED BY <1>1, <1>2, <1>3, <1>4

LEMMA BeginActs ==
  ASSUME RequestsOK, NEW s \in Sessions, NEW step, step # "idle", NEW values,
         Begin(s, step, values)
  PROVE  Acts(s, step, values)
<1>1. /\ Arrives(s) /\ serving' = [serving EXCEPT ![s] = requests + 1]
      /\ pc' = [pc EXCEPT ![s] = step] /\ job' = [job EXCEPT ![s] = values]
      /\ crashes' = crashes
  BY DEF Begin, Arrives
<1>2. /\ serving[s] = 0 /\ pc[s] = "idle" /\ requests \in Nat /\ requests' = requests + 1
      /\ requests' \in 0 .. MaxRequests /\ together \subseteq together'
      /\ \A pair \in together' : pair \subseteq 1 .. requests' /\ Cardinality(pair) = 2
      /\ \A t \in Sessions : serving[t] # 0 => {requests + 1, serving[t]} \in together'
  BY <1>1, ArrivalMeets
<1>3. \A t \in Sessions :
        /\ pc'[t] = (IF t = s THEN step ELSE pc[t])
        /\ job'[t] = (IF t = s THEN values ELSE job[t])
        /\ serving'[t] = (IF t = s THEN requests + 1 ELSE serving[t])
  BY <1>1 DEF RequestsOK
<1>4. pc' = [t \in Sessions |-> pc'[t]] /\ job' = [t \in Sessions |-> job'[t]]
  BY <1>1 DEF RequestsOK
<1>5. serving' \in [Sessions -> 0 .. requests']
  BY <1>1, <1>2 DEF RequestsOK
<1>6. \A t \in Sessions : serving'[t] = 0 <=> pc'[t] = "idle"
  BY <1>2, <1>3 DEF RequestsOK
<1>7. ASSUME NEW t \in Sessions, NEW u \in Sessions, t # u, serving'[t] # 0, serving'[u] # 0
      PROVE  {serving'[t], serving'[u]} \in together'
  <2>1. CASE t = s
    BY <2>1, <1>2, <1>3, <1>7
  <2>2. CASE u = s
    <3>1. {requests + 1, serving[t]} \in together'
      BY <2>2, <1>2, <1>3, <1>7
    <3>2. {serving'[t], serving'[u]} = {requests + 1, serving[t]}
      BY <2>2, <1>3, <1>7
    <3> QED BY <3>1, <3>2
  <2>3. CASE t # s /\ u # s
    BY <2>3, <1>2, <1>3, <1>7 DEF RequestsOK
  <2> QED BY <2>1, <2>2, <2>3
<1>8. RequestsOK'
  BY <1>1, <1>2, <1>4, <1>5, <1>6, <1>7 DEF RequestsOK
<1> QED BY <1>2, <1>3, <1>8 DEF Acts

LEMMA GoActs ==
  ASSUME RequestsOK, NEW s \in Sessions, NEW step, step # "idle", NEW values,
         pc[s] # "idle", Go(s, step, values)
  PROVE  Acts(s, step, values) /\ serving[s] # 0 /\ serving' = serving
<1>1. /\ pc' = [pc EXCEPT ![s] = step] /\ job' = [job EXCEPT ![s] = values]
      /\ UNCHANGED <<serving, requests, together, crashes>>
  BY DEF Go
<1>2. \A t \in Sessions :
        /\ pc'[t] = (IF t = s THEN step ELSE pc[t])
        /\ job'[t] = (IF t = s THEN values ELSE job[t])
  BY <1>1 DEF RequestsOK
<1>3. pc' = [t \in Sessions |-> pc'[t]] /\ job' = [t \in Sessions |-> job'[t]]
  BY <1>1 DEF RequestsOK
<1>4. \A t \in Sessions : serving'[t] = 0 <=> pc'[t] = "idle"
  BY <1>1, <1>2 DEF RequestsOK
<1>5. RequestsOK'
  BY <1>1, <1>3, <1>4 DEF RequestsOK
<1>6. serving[s] # 0
  BY DEF RequestsOK
<1> QED BY <1>1, <1>2, <1>5, <1>6 DEF Acts

\* A request that has come to its end, or is cut off.
LEMMA EndActs ==
  ASSUME RequestsOK, NEW s \in Sessions,
         serving' = [serving EXCEPT ![s] = 0], pc' = [pc EXCEPT ![s] = "idle"],
         job' = [job EXCEPT ![s] = None], UNCHANGED <<requests, together>>,
         crashes' \in 0 .. MaxCrashes
  PROVE  Acts(s, "idle", None)
<1>1. \A t \in Sessions :
        /\ pc'[t] = (IF t = s THEN "idle" ELSE pc[t])
        /\ job'[t] = (IF t = s THEN None ELSE job[t])
        /\ serving'[t] = (IF t = s THEN 0 ELSE serving[t])
  BY DEF RequestsOK
<1>2. pc' = [t \in Sessions |-> pc'[t]] /\ job' = [t \in Sessions |-> job'[t]]
  BY DEF RequestsOK
<1>3. serving' \in [Sessions -> 0 .. requests']
  BY DEF RequestsOK
<1>4. /\ \A t \in Sessions : serving'[t] = 0 <=> pc'[t] = "idle"
      /\ \A t, u \in Sessions :
           t # u /\ serving'[t] # 0 /\ serving'[u] # 0 => {serving'[t], serving'[u]} \in together'
  BY <1>1 DEF RequestsOK
<1>5. RequestsOK'
  BY <1>2, <1>3, <1>4 DEF RequestsOK
<1> QED BY <1>1, <1>5 DEF Acts

LEMMA FinishActs ==
  ASSUME RequestsOK, NEW s \in Sessions, Finish(s) PROVE Acts(s, "idle", None)
  BY EndActs DEF Finish, RequestsOK

LEMMA AbortActs ==
  ASSUME RequestsOK, NEW s \in Sessions, Abort(s) PROVE Acts(s, "idle", None)
<1>1. /\ serving' = [serving EXCEPT ![s] = 0] /\ pc' = [pc EXCEPT ![s] = "idle"]
      /\ job' = [job EXCEPT ![s] = None] /\ UNCHANGED <<requests, together>>
  BY DEF Abort
<1>2. crashes' \in 0 .. MaxCrashes
  BY CatalogConstants DEF Abort, RequestsOK
<1> QED BY <1>1, <1>2, EndActs

LEMMA AtOnceActs ==
  ASSUME RequestsOK, NEW s \in Sessions, AtOnce(s)
  PROVE  RequestsOK' /\ together \subseteq together' /\ UNCHANGED <<pc, job, serving>>
<1>1. Arrives(s) /\ UNCHANGED <<pc, job, serving>> /\ crashes' = crashes
  BY DEF AtOnce, Arrives
<1>2. /\ requests \in Nat /\ requests' = requests + 1 /\ requests' \in 0 .. MaxRequests
      /\ together \subseteq together'
      /\ \A pair \in together' : pair \subseteq 1 .. requests' /\ Cardinality(pair) = 2
  BY <1>1, ArrivalMeets
<1>3. serving' \in [Sessions -> 0 .. requests']
  BY <1>1, <1>2 DEF RequestsOK
<1>4. RequestsOK'
  BY <1>1, <1>2, <1>3 DEF RequestsOK
<1> QED BY <1>1, <1>2, <1>4
-----------------------------------------------------------------------------
(* What a request holds between its statements, and what it knows of the tables. *)

NewCategoryJob == [category : Categories, row : CategoryRow]
CategoryJob == [category : Categories, children : SUBSET Categories, row : CategoryRow]
BatchJob ==
  [todo : SUBSET Products, product : Products \cup {None}, created : SUBSET Products,
   categories : SUBSET Categories, named : SUBSET Categories, form : {FALSE}]
ProductJob ==
  [product : Products, row : ProductRow, given : {None} \cup SUBSET Categories, delta : Int,
   list : {None} \cup ImageLists]
FormJob ==
  [product : Products, form : {TRUE}, delta : Int, list : {None} \cup ImageLists,
   categories : SUBSET Categories, named : SUBSET Categories, todo : {{}}]
ListJob == [product : Products, list : ImageLists]
ReplaceJob == [product : Products, list : ImageLists, seen : SUBSET ImageRow]
ImagesJob == [product : Products, list : ImageLists, next : Nat \ {0}, blind : BOOLEAN]
VehicleJob == [product : Products \cup {None}, car : Cars]
LinkJob == [product : Products, car : Cars \cup {None}, vehicle : VehicleRow]
EntryJob == [user : Users, product : Products, blind : BOOLEAN]
Quantities == 0 .. Most(MaxStock, MaxQuantity)
ItemJob ==
  [user : Users, product : Products, quantity : Quantities, stock : 0 .. MaxStock,
   blind : BOOLEAN]
LineJob == [line : CartRow, quantity : Quantities]
QuestionJob == [question : Questions, user : Users]
ViewJob == [question : Questions]
AnswerJob ==
  [question : Questions, user : Users, row : QuestionRow,
   answer : {None} \cup [request : Nat]]

Saving == {"count answers", "answer", "read answer", "accept", "close"}

Fits(step, j) ==
  /\ step = "insert category" => j \in NewCategoryJob
  /\ step = "save category" => j \in CategoryJob
  /\ step \in {"insert product", "stock"} => j \in BatchJob
  /\ step \in {"clear categories", "add category"} =>
       j.product \in Products /\ (j \in BatchJob \/ j \in FormJob)
  /\ step = "save product" => j \in ProductJob
  /\ step = "form stock" => j \in FormJob
  /\ step = "replace images" => j \in ListJob
  /\ step = "commit images" => j \in ReplaceJob
  /\ step \in {"unset primary", "insert image"} =>
       j \in ImagesJob /\ j.next <= Len(j.list)
  /\ step \in {"find vehicle", "create vehicle"} => j \in VehicleJob
  /\ step \in {"find link", "link"} => j \in LinkJob
  /\ step \in {"has reviewed", "has wished", "insert review", "insert wish"} => j \in EntryJob
  /\ step \in {"find line", "insert line"} => j \in ItemJob
  /\ step \in {"set quantity", "read stock"} => j \in LineJob
  /\ step = "insert question" => j \in QuestionJob
  /\ step = "count view" => j \in ViewJob
  /\ step \in Saving => j \in AnswerJob

\* The request that made row r overlapped the one s serves.
Met(s, r) == {r.request, serving[s]} \in together

\* What was found to be missing has been added by nobody, or by an overlapping request.
Linkable(s) == At(s, "find link") \/ At(s, "link") => job[s].vehicle \in vehicles

Unfound(s) ==
  At(s, "create vehicle") => \A v \in vehicles : v.car = job[s].car => Met(s, v)

Sole(s, k) == Met(s, k) \/ k.request = serving[s] \/ k.blind \/ job[s].blind

Unset(s) ==
  At(s, "insert image") /\ HasPrimary(job[s].list) =>
    \A k \in images : k.product = job[s].product /\ k.primary => Sole(s, k)

Unseen(s) ==
  At(s, "commit images") =>
    \A k \in images : k.product = job[s].product =>
      Met(s, k) \/ \E old \in job[s].seen : k.request = old.request /\ k.place = old.place

Alone(s, table) ==
  \A r \in table : r.user = job[s].user /\ r.product = job[s].product =>
    Met(s, r) \/ r.blind \/ job[s].blind

Unlisted(s) ==
  /\ At(s, "insert review") => Alone(s, reviews)
  /\ At(s, "insert wish") => Alone(s, wishes)
  /\ At(s, "insert line") => Alone(s, cart)

Unanswered(s) ==
  At(s, "answer") =>
    \A a \in answers : a.question = job[s].question /\ a.user = job[s].user => Met(s, a)

\* A question stays asked, one that is not open stays so, and an answer stays.
Follows(s) ==
  /\ pc[s] \in Saving =>
       /\ Asked(job[s].question)
       /\ job[s].row.status # "open" => questions[job[s].question].status # "open"
  /\ At(s, "accept") => AnswersTo(job[s].question) # {}

Knows(s) ==
  /\ Fits(pc[s], job[s])
  /\ Linkable(s) /\ Unfound(s) /\ Unset(s) /\ Unseen(s)
  /\ Unlisted(s) /\ Unanswered(s) /\ Follows(s)

Plain(step) ==
  step \notin {"find link", "link", "create vehicle", "insert image", "commit images",
               "insert review", "insert wish", "insert line"} \cup Saving

\* Most steps know nothing but what they hold.
LEMMA PlainKnows ==
  ASSUME NEW s \in Sessions, NEW step, NEW values, Plain(step), Fits(step, values),
         pc'[s] = step, job'[s] = values
  PROVE  Knows(s)'
<1>1. /\ Linkable(s)' /\ Unfound(s)' /\ Unset(s)' /\ Unseen(s)'
      /\ Unlisted(s)' /\ Unanswered(s)' /\ Follows(s)'
  BY DEF Plain, Linkable, Unfound, Unset, Unseen, Unlisted, Unanswered, Follows, At, Saving
<1> QED BY <1>1 DEF Knows

LEMMA IdleKnows ==
  ASSUME NEW s \in Sessions, pc'[s] = "idle" PROVE Knows(s)'
<1>1. Plain("idle") /\ Fits("idle", job'[s])
  BY DEF Plain, Fits, Saving
<1> QED BY <1>1, PlainKnows

-----------------------------------------------------------------------------
(* How the tables change: rows are added by requests with the numbers N, and what is    *)
(* written to others disturbs nobody who has looked at them.                             *)

VehiclesGrow(N) ==
  vehicles \subseteq vehicles' /\ \A v \in vehicles' : v \in vehicles \/ v.request \in N

ImagesGrow(N) ==
  \A k \in images' : k.request \in N \/
    \E i \in images : /\ i.product = k.product /\ i.request = k.request /\ i.place = k.place
                      /\ i.blind = k.blind /\ (k.primary => i.primary)

SameEntry(r, t) ==
  r.user = t.user /\ r.product = t.product /\ r.request = t.request /\ r.blind = t.blind

EntriesGrow(table, new, N) ==
  \A r \in new : r.request \in N \/ \E t \in table : SameEntry(r, t)

AnswersGrow(N) ==
  /\ \A a \in answers' : a.request \in N \/
       \E b \in answers : a.question = b.question /\ a.user = b.user /\ a.request = b.request
  /\ \A q \in Questions : AnswersTo(q) # {} => AnswersTo(q)' # {}

QuestionsGrow ==
  \A q \in Questions : Asked(q) =>
    Asked(q)' /\ (questions[q].status # "open" => questions'[q].status # "open")

Grows(N) ==
  /\ VehiclesGrow(N) /\ ImagesGrow(N)
  /\ EntriesGrow(reviews, reviews', N) /\ EntriesGrow(wishes, wishes', N)
  /\ EntriesGrow(cart, cart', N)
  /\ AnswersGrow(N) /\ QuestionsGrow

LEMMA SameVehicles == ASSUME vehicles' = vehicles, NEW N PROVE VehiclesGrow(N)
  BY DEF VehiclesGrow

LEMMA SameImages == ASSUME images' = images, NEW N PROVE ImagesGrow(N)
  BY DEF ImagesGrow

LEMMA SameEntries == ASSUME NEW table, NEW new, new \subseteq table, NEW N
                     PROVE  EntriesGrow(table, new, N)
  BY DEF EntriesGrow, SameEntry

LEMMA SameAnswers ==
  ASSUME answers' = answers, questions' = questions, NEW N PROVE AnswersGrow(N) /\ QuestionsGrow
  BY DEF AnswersGrow, QuestionsGrow, AnswersTo, Asked

\* What another request knows stays true: those that added rows have overlapped it.
LEMMA KnowsStill ==
  ASSUME NEW s \in Sessions, Knows(s), NEW N, Grows(N), together \subseteq together',
         pc'[s] = pc[s], job'[s] = job[s], serving'[s] = serving[s],
         pc[s] # "idle" => \A n \in N : {n, serving[s]} \in together'
  PROVE  Knows(s)'
<1>1. CASE pc[s] = "idle"
  BY <1>1, IdleKnows
<1>2. CASE pc[s] # "idle"
  <2>1. /\ \A r : Met(s, r) => Met(s, r)'
        /\ \A r : r.request \in N => Met(s, r)'
    BY <1>2 DEF Met
  <2>2. Fits(pc[s], job[s])' /\ Linkable(s)'
    BY DEF Knows, Linkable, Grows, VehiclesGrow, At
  <2>3. Unfound(s)'
    BY <2>1 DEF Knows, Unfound, Grows, VehiclesGrow, At
  <2>4. Unset(s)'
    <3> SUFFICES ASSUME At(s, "insert image"), HasPrimary(job[s].list), NEW k \in images',
                        k.product = job[s].product, k.primary
                 PROVE  Sole(s, k)'
      BY DEF Unset, At
    <3>1. CASE k.request \in N
      BY <3>1, <2>1 DEF Sole
    <3>2. ASSUME NEW i \in images, i.product = k.product, i.request = k.request,
                 i.blind = k.blind, i.primary
          PROVE  Sole(s, k)'
      <4>1. Sole(s, i)
        BY <3>2 DEF Knows, Unset
      <4> QED BY <4>1, <3>2 DEF Sole, Met
    <3> QED BY <3>1, <3>2 DEF Grows, ImagesGrow
  <2>5. Unseen(s)'
    <3> DEFINE InSeen(k) ==
          \E old \in job[s].seen : k.request = old.request /\ k.place = old.place
    <3> SUFFICES ASSUME At(s, "commit images"), NEW k \in images', k.product = job[s].product
                 PROVE  Met(s, k)' \/ InSeen(k)
      BY DEF Unseen, At
    <3>1. CASE k.request \in N
      BY <3>1, <2>1
    <3>2. ASSUME NEW i \in images, i.product = k.product, i.request = k.request,
                 i.place = k.place
          PROVE  Met(s, k)' \/ InSeen(k)
      <4>1. Met(s, i) \/ InSeen(i)
        BY <3>2 DEF Knows, Unseen
      <4> QED BY <4>1, <3>2 DEF Met
    <3> QED BY <3>1, <3>2 DEF Grows, ImagesGrow
  <2>6. Unlisted(s)'
    <3>1. ASSUME NEW table, NEW new, EntriesGrow(table, new, N), Alone(s, table)
          PROVE  \A r \in new : r.user = job'[s].user /\ r.product = job'[s].product =>
                   {r.request, serving'[s]} \in together' \/ r.blind \/ job'[s].blind
      BY <3>1, <2>1 DEF EntriesGrow, SameEntry, Alone, Met
    <3>2. Alone(s, reviews) => Alone(s, reviews)'
      BY <3>1 DEF Grows, Alone, Met
    <3>3. Alone(s, wishes) => Alone(s, wishes)'
      BY <3>1 DEF Grows, Alone, Met
    <3>4. Alone(s, cart) => Alone(s, cart)'
      BY <3>1 DEF Grows, Alone, Met
    <3> QED BY <3>2, <3>3, <3>4 DEF Knows, Unlisted, At
  <2>7. Unanswered(s)'
    BY <2>1 DEF Knows, Unanswered, Met, Grows, AnswersGrow, At
  <2>8. Follows(s)'
    <3>1. PICK q : q = job[s].question
      OBVIOUS
    <3>2. pc[s] \in Saving => q \in Questions
      BY <3>1 DEF Knows, Fits, AnswerJob
    <3>3. pc[s] \in Saving => /\ Asked(q)'
                              /\ job[s].row.status # "open" => questions'[q].status # "open"
      BY <3>1, <3>2 DEF Knows, Follows, Grows, QuestionsGrow
    <3>4. pc[s] = "accept" => AnswersTo(q)' # {}
      BY <3>1, <3>2 DEF Knows, Follows, Grows, AnswersGrow, At, Saving
    <3> QED BY <3>1, <3>3, <3>4 DEF Follows, At, Asked, AnswersTo
  <2> QED BY <2>2, <2>3, <2>4, <2>5, <2>6, <2>7, <2>8 DEF Knows
<1> QED BY <1>1, <1>2
-----------------------------------------------------------------------------
(* The invariant. *)

CatalogRowsOK ==
  /\ products \in [Products -> ProductRow]
  /\ categories \in [Categories -> CategoryRow]
  /\ images \subseteq ImageRow
  /\ vehicles \subseteq VehicleRow
  /\ links \subseteq Products \X vehicles

StoreRowsOK ==
  /\ questions \in [Questions -> QuestionRow \cup {NoQuestion}]
  /\ answers \subseteq AnswerRow
  /\ reviews \subseteq ReviewRow
  /\ wishes \subseteq WishRow
  /\ cart \subseteq CartRow

\* AnswersMatchStatus, and no answer to a question that has not been asked.
Statuses ==
  \A q \in Questions :
    /\ questions[q].status \in {"none", "open"} => AnswersTo(q) = {}
    /\ questions[q].status = "answered" => AnswersTo(q) # {}

OneEntryEach(table) ==
  \A r, t \in table :
    r.user = t.user /\ r.product = t.product /\ r.request # t.request
      => Overlapped(r, t) \/ r.blind \/ t.blind

OneAnswerEach ==
  \A a, b \in answers :
    a.question = b.question /\ a.user = b.user /\ a # b => Overlapped(a, b)

Singles ==
  /\ VehiclesAreFound /\ OnePrimary
  /\ OneEntryEach(reviews) /\ OneEntryEach(wishes) /\ OneEntryEach(cart)
  /\ OneAnswerEach

Tables == CatalogRowsOK /\ StoreRowsOK /\ Statuses /\ Singles

Inv == RequestsOK /\ Tables /\ \A s \in Sessions : Knows(s)

LEMMA InvGives == Inv => TypeOK /\ AnswersMatchStatus /\ NoLoneDuplicates
<1> SUFFICES ASSUME Inv PROVE TypeOK /\ AnswersMatchStatus /\ NoLoneDuplicates
  OBVIOUS
<1>1. TypeOK
  BY DEF Inv, RequestsOK, Tables, CatalogRowsOK, StoreRowsOK, TypeOK, CatalogTypeOK
<1>2. AnswersMatchStatus
  BY DEF Inv, Tables, Statuses, AnswersMatchStatus
<1>3. NoLoneDuplicates
  BY DEF Inv, Tables, Singles, OneEntryEach, OneAnswerEach, NoLoneDuplicates, OneEach
<1> QED BY <1>1, <1>2, <1>3

\* What overlapped once has overlapped.
LEMMA SinglesStay ==
  ASSUME together \subseteq together'
  PROVE  /\ VehiclesAreFound /\ vehicles' = vehicles => VehiclesAreFound'
         /\ OnePrimary /\ images' \subseteq images => OnePrimary'
         /\ \A table, new : OneEntryEach(table) /\ new \subseteq table => OneEntryEach(new)'
         /\ OneAnswerEach /\ answers' = answers => OneAnswerEach'
<1>1. \A a, b : Overlapped(a, b) => Overlapped(a, b)'
  BY DEF Overlapped
<1> QED BY <1>1 DEF VehiclesAreFound, OnePrimary, OneEntryEach, OneAnswerEach

\* The other requests know what they knew, so a step of one keeps the invariant if the
\* tables are right after it and what that request then knows is true.
LEMMA StepKeeps ==
  ASSUME Inv, NEW s \in Sessions, NEW step, NEW values, Acts(s, step, values),
         NEW N, N \subseteq {serving[s]} \ {0}, Grows(N), Tables', Knows(s)'
  PROVE  Inv'
<1>1. ASSUME NEW t \in Sessions \ {s} PROVE Knows(t)'
  <2>1. /\ pc'[t] = pc[t] /\ job'[t] = job[t] /\ serving'[t] = serving[t]
        /\ together \subseteq together' /\ Knows(t) /\ t \in Sessions
    BY DEF Acts, Inv
  <2>2. pc[t] # "idle" => \A n \in N : {n, serving[t]} \in together'
    BY <2>1 DEF Inv, RequestsOK
  <2> QED BY <2>1, <2>2, KnowsStill
<1>2. \A t \in Sessions : Knows(t)'
  BY <1>1
<1> QED BY <1>2 DEF Inv, Acts

\* Products and categories are looked at again by every statement that needs them.
LEMMA CatalogStepKeeps ==
  ASSUME Inv, NEW s \in Sessions, NEW step, NEW values, Acts(s, step, values),
         UNCHANGED <<images, vehicles, links, storefront>>,
         products' \in [Products -> ProductRow], categories' \in [Categories -> CategoryRow],
         Knows(s)'
  PROVE  Inv'
<1>1. UNCHANGED <<questions, answers, reviews, wishes, cart>>
  BY DEF storefront
<1>2. Grows({})
  <2>1. /\ VehiclesGrow({}) /\ ImagesGrow({}) /\ AnswersGrow({}) /\ QuestionsGrow
    BY <1>1, SameVehicles, SameImages, SameAnswers
  <2>2. /\ EntriesGrow(reviews, reviews', {}) /\ EntriesGrow(wishes, wishes', {})
        /\ EntriesGrow(cart, cart', {})
    BY <1>1, SameEntries
  <2> QED BY <2>1, <2>2 DEF Grows
<1>3. CatalogRowsOK' /\ StoreRowsOK'
  BY <1>1 DEF Inv, Tables, CatalogRowsOK, StoreRowsOK
<1>4. Statuses'
  BY <1>1 DEF Inv, Tables, Statuses, AnswersTo
<1>5. Singles'
  <2>1. together \subseteq together'
    BY DEF Acts
  <2> QED BY <1>1, <2>1, SinglesStay DEF Inv, Tables, Singles
<1>6. Tables'
  BY <1>3, <1>4, <1>5 DEF Tables
<1> QED BY <1>2, <1>6, StepKeeps

\* A step that only reads.
LEMMA ReadingKeeps ==
  ASSUME Inv, NEW s \in Sessions, NEW step, NEW values, Acts(s, step, values),
         UNCHANGED <<rows, storefront>>, Knows(s)'
  PROVE  Inv'
<1>1. UNCHANGED <<products, categories, images, vehicles, links>>
  BY DEF rows
<1>2. products' \in [Products -> ProductRow] /\ categories' \in [Categories -> CategoryRow]
  BY <1>1 DEF Inv, Tables, CatalogRowsOK
<1> QED BY <1>1, <1>2, CatalogStepKeeps

\* A request of one statement, which makes no row that a check has looked for.
LEMMA AtOnceKeeps ==
  ASSUME Inv, NEW s \in Sessions, AtOnce(s), Grows({}), Tables' PROVE Inv'
<1>1. RequestsOK' /\ together \subseteq together' /\ UNCHANGED <<pc, job, serving>>
  BY AtOnceActs DEF Inv
<1>2. ASSUME NEW t \in Sessions PROVE Knows(t)'
  <2>1. Knows(t)
    BY DEF Inv
  <2> QED BY <1>1, <2>1, KnowsStill
<1> QED BY <1>1, <1>2 DEF Inv
\* A request that begins with what the first statement has read.
LEMMA BeginKeeps ==
  ASSUME Inv, NEW s \in Sessions, NEW step, step # "idle", NEW values, Begin(s, step, values),
         Plain(step), Fits(step, values), UNCHANGED <<rows, storefront>>
  PROVE  Inv'
<1>1. Acts(s, step, values)
  BY BeginActs DEF Inv
<1>2. Knows(s)'
  BY <1>1, PlainKnows DEF Acts
<1> QED BY <1>1, <1>2, ReadingKeeps

LEMMA FinishKeeps ==
  ASSUME Inv, NEW s \in Sessions, Finish(s), UNCHANGED <<rows, storefront>> PROVE Inv'
<1>1. Acts(s, "idle", None)
  BY FinishActs DEF Inv
<1> QED BY <1>1, IdleKnows, ReadingKeeps DEF Acts

\* A request that is done, or goes on, with products or categories changed.
LEMMA GoKeeps ==
  ASSUME Inv, NEW s \in Sessions, NEW step, NEW values,
         Go(s, step, values) /\ pc[s] # "idle" /\ step # "idle" /\ Plain(step)
           /\ Fits(step, values),
         UNCHANGED <<images, vehicles, links, storefront>>,
         products' \in [Products -> ProductRow], categories' \in [Categories -> CategoryRow]
  PROVE  Inv'
<1>1. Acts(s, step, values)
  BY GoActs DEF Inv
<1>2. Knows(s)'
  BY <1>1, PlainKnows DEF Acts
<1> QED BY <1>1, <1>2, CatalogStepKeeps

LEMMA DoneKeeps ==
  ASSUME Inv, NEW s \in Sessions, Finish(s), UNCHANGED <<images, vehicles, links, storefront>>,
         products' \in [Products -> ProductRow], categories' \in [Categories -> CategoryRow]
  PROVE  Inv'
<1>1. Acts(s, "idle", None)
  BY FinishActs DEF Inv
<1> QED BY <1>1, IdleKnows, CatalogStepKeeps DEF Acts

LEMMA InvTypes ==
  ASSUME Inv
  PROVE  /\ RequestsOK
         /\ products \in [Products -> ProductRow] /\ categories \in [Categories -> CategoryRow]
         /\ images \subseteq ImageRow /\ vehicles \subseteq VehicleRow
         /\ links \subseteq Products \X vehicles
         /\ \A s \in Sessions : Knows(s) /\ Fits(pc[s], job[s])
  BY DEF Inv, Tables, CatalogRowsOK, Knows

-----------------------------------------------------------------------------
(* Categories. *)

LEMMA CategoryTypes ==
  ASSUME Inv, NEW c \in Categories
  PROVE  /\ categories[c] \in CategoryRow /\ categories[c].state \in State
         /\ categories[c].parent \in Categories \cup {None} /\ categories[c].level \in Nat
         /\ Live(categories) \subseteq Categories /\ Stored(categories) \subseteq Categories
         /\ Live(products) \subseteq Products /\ Stored(products) \subseteq Products
<1>1. categories[c] \in CategoryRow
  BY InvTypes
<1>2. DOMAIN categories = Categories /\ DOMAIN products = Products
  BY InvTypes
<1> QED BY <1>1, <1>2 DEF CategoryRow, Live, Stored

LEMMA PostCategoryKeeps ==
  ASSUME Inv, NEW s \in Sessions, NEW c \in Categories,
         NEW parent \in Stored(categories) \cup {None},
         PostCategory(s, c, parent), UNCHANGED storefront
  PROVE  Inv'
<1>1. LevelUnder(parent) \in Nat /\ parent \in Categories \cup {None}
  BY CategoryTypes DEF LevelUnder
<1>2. PICK values : values = [category |-> c,
        row |-> [state |-> "live", parent |-> parent, level |-> LevelUnder(parent)]]
  OBVIOUS
<1>3. values \in NewCategoryJob
  BY <1>1, <1>2 DEF NewCategoryJob, CategoryRow, State
<1>4. Plain("insert category") /\ Fits("insert category", values)
  BY <1>3 DEF Plain, Fits, Saving
<1>5. Begin(s, "insert category", values) /\ UNCHANGED rows
  BY <1>2 DEF PostCategory
<1> QED BY <1>4, <1>5, BeginKeeps

LEMMA InsertCategoryKeeps ==
  ASSUME Inv, NEW s \in Sessions, InsertCategory(s), UNCHANGED storefront PROVE Inv'
<1>1. job[s] \in NewCategoryJob
  BY InvTypes DEF InsertCategory, At, Fits
<1>2. job[s].row \in CategoryRow
  BY <1>1 DEF NewCategoryJob
<1>3. categories' \in [Categories -> CategoryRow] /\ products' \in [Products -> ProductRow]
  BY <1>2, InvTypes DEF InsertCategory
<1> QED BY <1>3, DoneKeeps DEF InsertCategory

LEMMA PutCategoryKeeps ==
  ASSUME Inv, NEW s \in Sessions, NEW c \in Categories,
         NEW parent \in Stored(categories) \cup {None},
         PutCategory(s, c, parent), UNCHANGED storefront
  PROVE  Inv'
<1>1. parent \in Categories \cup {None} /\ Children(c) \subseteq Categories
  BY CategoryTypes DEF Children
<1>2. PICK row : row = [categories[c] EXCEPT !.parent = IF parent = None THEN @ ELSE parent]
  OBVIOUS
<1>3. row \in CategoryRow
  BY <1>1, <1>2, CategoryTypes DEF CategoryRow
<1>4. PICK values : values = [category |-> c, children |-> Children(c), row |-> row]
  OBVIOUS
<1>5. values \in CategoryJob
  BY <1>1, <1>3, <1>4 DEF CategoryJob
<1>6. Plain("save category") /\ Fits("save category", values)
  BY <1>5 DEF Plain, Fits, Saving
<1>7. Begin(s, "save category", values) /\ UNCHANGED rows
  BY <1>2, <1>4 DEF PutCategory
<1> QED BY <1>6, <1>7, BeginKeeps

LEMMA SaveCategoryKeeps ==
  ASSUME Inv, NEW s \in Sessions, SaveCategory(s), UNCHANGED storefront PROVE Inv'
<1>1. job[s] \in CategoryJob
  BY InvTypes DEF SaveCategory, At, Fits
<1>2. PICK c \in Categories : c = job[s].category
  BY <1>1 DEF CategoryJob
<1>3. PICK saved : saved = [categories EXCEPT ![c] = job[s].row]
  OBVIOUS
<1>4. saved \in [Categories -> CategoryRow]
  BY <1>1, <1>3, InvTypes DEF CategoryJob
<1>5. \A d \in Categories : [saved[d] EXCEPT !.parent = c] \in CategoryRow
  BY <1>4 DEF CategoryRow
<1>6. /\ categories' = [d \in Categories |-> categories'[d]]
      /\ \A d \in Categories : categories'[d] =
           IF d \in job[s].children THEN [saved[d] EXCEPT !.parent = c] ELSE saved[d]
  <2>1. categories' = [d \in Categories |->
          IF d \in job[s].children
          THEN [[categories EXCEPT ![job[s].category] = job[s].row][d] EXCEPT
                  !.parent = job[s].category]
          ELSE [categories EXCEPT ![job[s].category] = job[s].row][d]]
    BY DEF SaveCategory
  <2>2. \A d \in Categories : categories'[d] =
          IF d \in job[s].children
          THEN [[categories EXCEPT ![job[s].category] = job[s].row][d] EXCEPT
                  !.parent = job[s].category]
          ELSE [categories EXCEPT ![job[s].category] = job[s].row][d]
    BY <2>1
  <2>3. categories' = [d \in Categories |-> categories'[d]]
    BY <2>1
  <2> QED BY <1>2, <1>3, <2>2, <2>3, Zenon
<1>7. \A d \in Categories :
        (IF d \in job[s].children THEN [saved[d] EXCEPT !.parent = c] ELSE saved[d])
          \in CategoryRow
  BY <1>4, <1>5
<1>8. categories' \in [Categories -> CategoryRow] /\ products' \in [Products -> ProductRow]
  BY <1>6, <1>7, InvTypes DEF SaveCategory
<1> QED BY <1>8, DoneKeeps DEF SaveCategory

\* The tables after a request of one statement that changes only products or categories.
LEMMA CatalogAtOnceKeeps ==
  ASSUME Inv, NEW s \in Sessions, AtOnce(s), UNCHANGED <<images, vehicles, links, storefront>>,
         products' \in [Products -> ProductRow], categories' \in [Categories -> CategoryRow]
  PROVE  Inv'
<1>1. UNCHANGED <<questions, answers, reviews, wishes, cart>>
  BY DEF storefront
<1>2. Grows({})
  BY <1>1, SameVehicles, SameImages, SameAnswers, SameEntries DEF Grows
<1>3. CatalogRowsOK' /\ StoreRowsOK'
  BY <1>1 DEF Inv, Tables, CatalogRowsOK, StoreRowsOK
<1>4. Statuses'
  BY <1>1 DEF Inv, Tables, Statuses, AnswersTo
<1>5. Singles'
  <2>1. together \subseteq together'
    BY AtOnceActs DEF Inv
  <2> QED BY <1>1, <2>1, SinglesStay DEF Inv, Tables, Singles
<1>6. Tables'
  BY <1>3, <1>4, <1>5 DEF Tables
<1> QED BY <1>2, <1>6, AtOnceKeeps

\* A column of a row is written.
LEMMA ProductWrites ==
  ASSUME Inv, NEW p \in Products
  PROVE  /\ products[p] \in ProductRow
         /\ products[p].state \in State /\ products[p].stock \in 0 .. MaxStock
         /\ products[p].categories \subseteq Categories
         /\ \A x \in State : [products EXCEPT ![p].state = x] \in [Products -> ProductRow]
         /\ \A x \in 0 .. MaxStock : [products EXCEPT ![p].stock = x] \in [Products -> ProductRow]
         /\ \A x \in SUBSET Categories :
              [products EXCEPT ![p].categories = x] \in [Products -> ProductRow]
<1>1. products \in [Products -> ProductRow] /\ products[p] \in ProductRow
  BY InvTypes
<1>2. /\ \A x \in State : [products[p] EXCEPT !.state = x] \in ProductRow
      /\ \A x \in 0 .. MaxStock : [products[p] EXCEPT !.stock = x] \in ProductRow
      /\ \A x \in SUBSET Categories : [products[p] EXCEPT !.categories = x] \in ProductRow
  BY <1>1 DEF ProductRow
<1>3. \A row \in ProductRow : [products EXCEPT ![p] = row] \in [Products -> ProductRow]
  BY <1>1
<1>4. \A x : /\ [products EXCEPT ![p].state = x] =
                  [products EXCEPT ![p] = [products[p] EXCEPT !.state = x]]
             /\ [products EXCEPT ![p].stock = x] =
                  [products EXCEPT ![p] = [products[p] EXCEPT !.stock = x]]
             /\ [products EXCEPT ![p].categories = x] =
                  [products EXCEPT ![p] = [products[p] EXCEPT !.categories = x]]
  BY <1>1
<1>5. /\ products[p].state \in State /\ products[p].stock \in 0 .. MaxStock
      /\ products[p].categories \subseteq Categories
  BY <1>1 DEF ProductRow
<1> QED BY <1>1, <1>2, <1>3, <1>4, <1>5

LEMMA RemovalsKeep ==
  ASSUME Inv, NEW s \in Sessions, UNCHANGED storefront,
         \/ \E c \in Categories : RemoveCategory(s, c)
         \/ \E p \in Products : RemoveProduct(s, p)
  PROVE  Inv'
<1>1. ASSUME NEW c \in Categories, RemoveCategory(s, c) PROVE Inv'
  <2>1. PICK row : row = [categories[c] EXCEPT !.state = "deleted"]
    OBVIOUS
  <2>2. row \in CategoryRow
    BY <2>1, CategoryTypes DEF CategoryRow, State
  <2>3. categories' = [categories EXCEPT ![c] = row]
    BY <1>1, <2>1, InvTypes DEF RemoveCategory
  <2>4. categories' \in [Categories -> CategoryRow] /\ products' \in [Products -> ProductRow]
    BY <1>1, <2>2, <2>3, InvTypes DEF RemoveCategory
  <2> QED BY <1>1, <2>4, CatalogAtOnceKeeps DEF RemoveCategory
<1>2. ASSUME NEW p \in Products, RemoveProduct(s, p) PROVE Inv'
  <2>1. "deleted" \in State
    BY DEF State
  <2>2. products' \in [Products -> ProductRow] /\ categories' \in [Categories -> CategoryRow]
    BY <1>2, <2>1, ProductWrites, InvTypes DEF RemoveProduct
  <2> QED BY <1>2, <2>2, CatalogAtOnceKeeps DEF RemoveProduct
<1> QED BY <1>1, <1>2

-----------------------------------------------------------------------------
(* Products. *)

LEMMA PostProductsKeeps ==
  ASSUME Inv, NEW s \in Sessions, NEW items \in SUBSET Products,
         NEW named \in SUBSET Stored(categories),
         PostProducts(s, items, named), UNCHANGED storefront
  PROVE  Inv'
<1>1. named \subseteq Categories
  BY InvTypes DEF Stored
<1>2. PICK values : values = [todo |-> items, product |-> None, created |-> {},
                             categories |-> named, named |-> named, form |-> FALSE]
  OBVIOUS
<1>3. values \in BatchJob
  BY <1>1, <1>2 DEF BatchJob
<1>4. Plain("insert product") /\ Fits("insert product", values)
  BY <1>3 DEF Plain, Fits, Saving
<1>5. Begin(s, "insert product", values) /\ UNCHANGED rows
  BY <1>2 DEF PostProducts
<1> QED BY <1>4, <1>5, BeginKeeps

\* A batch goes on, with a product it has made or without.
LEMMA BatchNext ==
  ASSUME NEW j \in BatchJob
  PROVE  /\ Plain("stock") /\ Plain("insert product")
         /\ Fits("stock", j) /\ Fits("insert product", j)
         /\ Plain(AfterRow(j)) /\ AfterRow(j) # "idle"
         /\ Plain(AfterCategories(j)) /\ AfterCategories(j) # "idle"
         /\ Fits(AfterCategories(j), j)
         /\ j.product \in Products => Fits(AfterRow(j), j)
<1>1. j.form = FALSE
  BY DEF BatchJob
<1>2. /\ AfterRow(j) \in {"clear categories", "insert product", "stock"}
      /\ AfterCategories(j) \in {"insert product", "stock"}
  BY <1>1 DEF AfterRow, AfterCategories
<1> QED BY <1>2 DEF Plain, Fits, Saving

LEMMA InsertProductKeeps ==
  ASSUME Inv, NEW s \in Sessions, NEW p \in Products, NEW taken \in BOOLEAN,
         InsertProduct(s, p, taken), UNCHANGED storefront
  PROVE  Inv'
<1>1. job[s] \in BatchJob /\ pc[s] # "idle"
  BY InvTypes DEF InsertProduct, At, Fits
<1>2. PICK j : j = [job[s] EXCEPT !.todo = @ \ {p}]
  OBVIOUS
<1>3. PICK done : done = [j EXCEPT !.product = p, !.created = @ \cup {p}]
  OBVIOUS
<1>4. j \in BatchJob
  BY <1>1, <1>2 DEF BatchJob
<1>5. done \in BatchJob /\ done.product = p
  BY <1>3, <1>4 DEF BatchJob
<1>6. categories' \in [Categories -> CategoryRow]
  BY InvTypes DEF InsertProduct
<1>7. CASE taken \/ p \in Stored(products)
  <2>1. PICK step \in {"stock", "insert product"} : Go(s, step, j)
    BY <1>2, <1>7 DEF InsertProduct
  <2>2. products' \in [Products -> ProductRow]
    BY <1>7, InvTypes DEF InsertProduct
  <2> QED BY <2>1, <2>2, <1>1, <1>4, <1>6, BatchNext, GoKeeps DEF InsertProduct
<1>8. CASE ~(taken \/ p \in Stored(products))
  <2>1. Go(s, AfterRow(done), done)
    BY <1>2, <1>3, <1>8 DEF InsertProduct
  <2>2. [state |-> "live", stock |-> 0, categories |-> {}] \in ProductRow
    BY CatalogConstants DEF ProductRow, State
  <2>3. products' \in [Products -> ProductRow]
    BY <2>2, <1>8, InvTypes DEF InsertProduct
  <2>4. PICK step : step = AfterRow(done)
    OBVIOUS
  <2>5. Plain(step) /\ Fits(step, done) /\ step # "idle" /\ Go(s, step, done)
    BY <2>1, <2>4, <1>5, BatchNext
  <2> QED BY <2>3, <2>5, <1>1, <1>6, GoKeeps DEF InsertProduct
<1> QED BY <1>7, <1>8

\* What SetCategories is given, for a product of a batch or of the form.
LEMMA CategoriesNext ==
  ASSUME NEW j \in BatchJob \cup FormJob
  PROVE  /\ j.categories \subseteq Categories /\ j.named \subseteq Categories
         /\ \A S \in SUBSET Categories :
              /\ [j EXCEPT !.categories = S] \in BatchJob \cup FormJob
              /\ [j EXCEPT !.categories = S].product = j.product
              /\ [j EXCEPT !.categories = S].named = j.named
              /\ [j EXCEPT !.categories = S].categories = S
         /\ j.product \in Products =>
              /\ Plain("add category") /\ Fits("add category", j)
              /\ \A S \in SUBSET Categories :
                   LET after == AfterCategories(j)
                       given == [j EXCEPT !.categories = S] IN
                     Plain(after) /\ Fits(after, given) /\ after # "idle"
<1>1. \A S \in SUBSET Categories :
        /\ j \in BatchJob => [j EXCEPT !.categories = S] \in BatchJob
        /\ j \in FormJob => [j EXCEPT !.categories = S] \in FormJob
        /\ [j EXCEPT !.categories = S].product = j.product
        /\ [j EXCEPT !.categories = S].named = j.named
        /\ [j EXCEPT !.categories = S].categories = S
  BY DEF BatchJob, FormJob
<1>2. j.categories \subseteq Categories /\ j.named \subseteq Categories
  BY DEF BatchJob, FormJob
<1>3. /\ j \in BatchJob => AfterCategories(j) \in {"insert product", "stock"}
      /\ j \in FormJob => AfterCategories(j) = "form stock"
  BY DEF AfterCategories, BatchJob, FormJob
<1>4. ASSUME j.product \in Products, NEW S \in SUBSET Categories
      PROVE  /\ Plain(AfterCategories(j)) /\ AfterCategories(j) # "idle"
             /\ Fits(AfterCategories(j), [j EXCEPT !.categories = S])
  BY <1>1, <1>3 DEF Plain, Fits, Saving
<1>5. j.product \in Products => Plain("add category") /\ Fits("add category", j)
  BY DEF Plain, Fits, Saving
<1> QED BY <1>1, <1>2, <1>4, <1>5

LEMMA ClearCategoriesKeeps ==
  ASSUME Inv, NEW s \in Sessions, ClearCategories(s), UNCHANGED storefront PROVE Inv'
<1>1. PICK j : j = job[s]
  OBVIOUS
<1>2. j \in BatchJob \cup FormJob /\ j.product \in Products /\ pc[s] # "idle"
  BY <1>1, InvTypes DEF ClearCategories, At, Fits
<1>3. products' \in [Products -> ProductRow] /\ categories' \in [Categories -> CategoryRow]
  BY <1>1, <1>2, ProductWrites, InvTypes DEF ClearCategories
<1>4. CASE j.categories = {}
  <2>1. PICK given : given = [j EXCEPT !.categories = {}]
    OBVIOUS
  <2>2. PICK step : step = AfterCategories(j)
    OBVIOUS
  <2>3. Plain(step) /\ Fits(step, j) /\ step # "idle"
    <3>1. {} \in SUBSET Categories
      OBVIOUS
    <3>2. Plain(step) /\ Fits(step, given) /\ step # "idle"
      BY <1>2, <2>1, <2>2, <3>1, CategoriesNext
    <3>3. given = j
      BY <1>2, <1>4, <2>1 DEF BatchJob, FormJob
    <3> QED BY <3>2, <3>3
  <2>4. Go(s, step, j)
    BY <1>1, <1>4, <2>2 DEF ClearCategories
  <2> QED BY <1>2, <1>3, <2>3, <2>4, GoKeeps DEF ClearCategories
<1>5. CASE j.categories # {}
  <2>1. Go(s, "add category", j)
    BY <1>1, <1>5 DEF ClearCategories
  <2> QED BY <1>2, <1>3, <2>1, CategoriesNext, GoKeeps DEF ClearCategories
<1> QED BY <1>4, <1>5

LEMMA AddCategoryKeeps ==
  ASSUME Inv, NEW s \in Sessions, NEW c \in Categories, AddCategory(s, c),
         UNCHANGED storefront
  PROVE  Inv'
<1>1. PICK j : j = job[s]
  OBVIOUS
<1>2. j \in BatchJob \cup FormJob /\ j.product \in Products /\ pc[s] # "idle"
  BY <1>1, InvTypes DEF AddCategory, At, Fits
<1>3. PICK left : left = IF c \in products[j.product].categories THEN {} ELSE j.categories \ {c}
  OBVIOUS
<1>4. left \subseteq Categories
  BY <1>2, <1>3, CategoriesNext
<1>5. PICK k : k = [j EXCEPT !.categories = left]
  OBVIOUS
<1>6. /\ k \in BatchJob \cup FormJob /\ k.product \in Products
      /\ k.named \subseteq Categories
  BY <1>2, <1>4, <1>5, CategoriesNext
<1>7. products' \in [Products -> ProductRow] /\ categories' \in [Categories -> CategoryRow]
  <2>1. PICK S : S = products[j.product].categories \cup {c}
    OBVIOUS
  <2>2. S \in SUBSET Categories
    BY <1>2, <2>1, ProductWrites
  <2>3. PICK p \in Products : p = j.product
    BY <1>2
  <2>4. products' = [products EXCEPT ![p].categories = S]
    BY <1>1, <2>1, <2>3, InvTypes DEF AddCategory
  <2>5. [products EXCEPT ![p].categories = S] \in [Products -> ProductRow]
    BY <2>2, ProductWrites
  <2> QED BY <2>4, <2>5, InvTypes DEF AddCategory
<1>8. CASE left # {}
  <2>1. Go(s, "add category", k)
    BY <1>1, <1>3, <1>5, <1>8 DEF AddCategory
  <2> QED BY <1>2, <1>6, <1>7, <2>1, CategoriesNext, GoKeeps DEF AddCategory
<1>9. CASE left = {}
  <2>1. PICK step : step = AfterCategories(k)
    OBVIOUS
  <2>2. PICK given : given = [k EXCEPT !.categories = k.named]
    OBVIOUS
  <2>3. Plain(step) /\ Fits(step, given) /\ step # "idle"
    BY <1>6, <2>1, <2>2, CategoriesNext
  <2>4. Go(s, step, given)
    BY <1>1, <1>3, <1>5, <1>9, <2>1, <2>2 DEF AddCategory
  <2> QED BY <1>2, <1>7, <2>3, <2>4, GoKeeps DEF AddCategory
<1> QED BY <1>8, <1>9

LEMMA AdjustedTypes ==
  ASSUME Inv, NEW p \in Products, NEW delta \in Int
  PROVE  Adjusted(p, delta) \in [Products -> ProductRow]
  BY ProductWrites, InvTypes DEF Adjusted

LEMMA InitialStockKeeps ==
  ASSUME Inv, NEW s \in Sessions, NEW p \in Products, NEW units \in 0 .. MaxStock,
         InitialStock(s, p, units), UNCHANGED storefront
  PROVE  Inv'
<1>1. job[s] \in BatchJob /\ pc[s] # "idle" /\ categories' \in [Categories -> CategoryRow]
  BY InvTypes DEF InitialStock, At, Fits
<1>2. CASE job[s].created = {}
  <2>1. Finish(s) /\ products' \in [Products -> ProductRow]
    BY <1>2, InvTypes DEF InitialStock
  <2> QED BY <1>1, <2>1, DoneKeeps DEF InitialStock
<1>3. CASE job[s].created # {}
  <2>1. PICK j : j = [job[s] EXCEPT !.created = @ \ {p}]
    OBVIOUS
  <2>2. j \in BatchJob
    BY <1>1, <2>1 DEF BatchJob
  <2>3. Go(s, "stock", j)
    BY <1>3, <2>1 DEF InitialStock
  <2>4. products' \in [Products -> ProductRow]
    BY <1>3, AdjustedTypes, InvTypes, CatalogConstants DEF InitialStock
  <2> QED BY <1>1, <2>2, <2>3, <2>4, BatchNext, GoKeeps DEF InitialStock
<1> QED BY <1>2, <1>3

LEMMA PutProductKeeps ==
  ASSUME Inv, NEW s \in Sessions, NEW p \in Products,
         NEW given \in {None} \cup SUBSET Stored(categories), NEW stock \in 0 .. MaxStock,
         NEW list \in {None} \cup ImageLists,
         PutProduct(s, p, given, stock, list), UNCHANGED storefront
  PROVE  Inv'
<1>1. given \in {None} \cup SUBSET Categories
  BY InvTypes DEF Stored
<1>2. stock - products[p].stock \in Int
  BY ProductWrites, CatalogConstants
<1>3. PICK values : values = [product |-> p, row |-> products[p], given |-> given,
                             delta |-> stock - products[p].stock, list |-> list]
  OBVIOUS
<1>4. values \in ProductJob
  BY <1>1, <1>2, <1>3, ProductWrites DEF ProductJob
<1>5. Plain("save product") /\ Fits("save product", values)
  BY <1>4 DEF Plain, Fits, Saving
<1>6. Begin(s, "save product", values) /\ UNCHANGED rows
  BY <1>3 DEF PutProduct
<1> QED BY <1>5, <1>6, BeginKeeps

LEMMA SaveProductKeeps ==
  ASSUME Inv, NEW s \in Sessions, SaveProduct(s), UNCHANGED storefront PROVE Inv'
<1>1. PICK j : j = job[s]
  OBVIOUS
<1>2. j \in ProductJob /\ pc[s] # "idle"
  BY <1>1, InvTypes DEF SaveProduct, At, Fits
<1>3. /\ j.product \in Products /\ j.row \in ProductRow
      /\ j.given \in {None} \cup SUBSET Categories
      /\ j.delta \in Int /\ j.list \in {None} \cup ImageLists
  BY <1>2 DEF ProductJob
<1>4. PICK named : named = IF j.given = None THEN {} ELSE j.given
  OBVIOUS
<1>5. PICK values : values = [product |-> j.product, form |-> TRUE, delta |-> j.delta,
        list |-> j.list, categories |-> named, named |-> named, todo |-> {}]
  OBVIOUS
<1>6. values \in FormJob /\ values.product \in Products
  BY <1>3, <1>4, <1>5 DEF FormJob
<1>7. PICK step \in {"form stock", "clear categories"} : Go(s, step, values)
  BY <1>1, <1>4, <1>5 DEF SaveProduct
<1>8. Plain(step) /\ Fits(step, values) /\ step # "idle"
  BY <1>6, <1>7 DEF Plain, Fits, Saving
<1>9. PICK row : row = SavedProduct(products[j.product], j.row)
  OBVIOUS
<1>10. row \in ProductRow
  <2>1. products[j.product].categories \cup j.row.categories \subseteq Categories
    BY <1>3, ProductWrites DEF ProductRow
  <2> QED BY <1>3, <1>9, <2>1 DEF SavedProduct, ProductRow
<1>11. products' \in [Products -> ProductRow] /\ categories' \in [Categories -> CategoryRow]
  <2>1. products' = [products EXCEPT ![j.product] = row]
    BY <1>1, <1>3, <1>9, InvTypes DEF SaveProduct
  <2> QED BY <1>10, <2>1, InvTypes DEF SaveProduct
<1> QED BY <1>2, <1>7, <1>8, <1>11, GoKeeps DEF SaveProduct

LEMMA FormStockKeeps ==
  ASSUME Inv, NEW s \in Sessions, FormStock(s), UNCHANGED storefront PROVE Inv'
<1>1. PICK j : j = job[s]
  OBVIOUS
<1>2. /\ j.product \in Products /\ j.delta \in Int /\ j.list \in {None} \cup ImageLists
      /\ pc[s] # "idle"
  BY <1>1, InvTypes DEF FormStock, At, Fits, FormJob
<1>3. products' \in [Products -> ProductRow] /\ categories' \in [Categories -> CategoryRow]
  BY <1>1, <1>2, AdjustedTypes, InvTypes DEF FormStock
<1>4. CASE Finish(s)
  BY <1>3, <1>4, DoneKeeps DEF FormStock
<1>5. CASE ~Finish(s)
  <2>1. PICK values : values = [product |-> j.product, list |-> j.list]
    OBVIOUS
  <2>2. Go(s, "replace images", values) /\ j.list # None
    BY <1>1, <1>5, <2>1 DEF FormStock
  <2>3. values \in ListJob
    BY <1>2, <2>1, <2>2 DEF ListJob
  <2>4. Plain("replace images") /\ Fits("replace images", values)
    BY <2>3 DEF Plain, Fits, Saving
  <2> QED BY <1>2, <1>3, <2>2, <2>4, GoKeeps DEF FormStock
<1> QED BY <1>4, <1>5
-----------------------------------------------------------------------------
(* Images. *)

\* The tables after a step that changes only images.
LEMMA ImageTables ==
  ASSUME Inv, together \subseteq together',
         UNCHANGED <<products, categories, vehicles, links, storefront>>,
         NEW N, ImagesGrow(N), images' \subseteq ImageRow, OnePrimary'
  PROVE  Grows(N) /\ Tables'
<1>1. UNCHANGED <<questions, answers, reviews, wishes, cart>>
  BY DEF storefront
<1>2. Grows(N)
  <2>1. VehiclesGrow(N) /\ AnswersGrow(N) /\ QuestionsGrow
    BY <1>1, SameVehicles, SameAnswers
  <2>2. /\ EntriesGrow(reviews, reviews', N) /\ EntriesGrow(wishes, wishes', N)
        /\ EntriesGrow(cart, cart', N)
    BY <1>1, SameEntries
  <2> QED BY <2>1, <2>2 DEF Grows
<1>3. CatalogRowsOK' /\ StoreRowsOK'
  BY <1>1 DEF Inv, Tables, CatalogRowsOK, StoreRowsOK
<1>4. Statuses'
  BY <1>1 DEF Inv, Tables, Statuses, AnswersTo
<1>5. Singles'
  BY <1>1, SinglesStay DEF Inv, Tables, Singles
<1> QED BY <1>2, <1>3, <1>4, <1>5 DEF Tables

\* Images that are demoted or removed.
LEMMA NoNewImage ==
  ASSUME OnePrimary, together \subseteq together', ImagesGrow({}) PROVE OnePrimary'
<1> SUFFICES ASSUME NEW i \in images', NEW k \in images', i.product = k.product,
                    i.primary, k.primary, i.request # k.request
             PROVE  Overlapped(i, k)' \/ i.blind \/ k.blind
  BY DEF OnePrimary
<1>1. PICK x \in images : /\ x.product = i.product /\ x.request = i.request
                          /\ x.blind = i.blind /\ x.primary
  BY DEF ImagesGrow
<1>2. PICK y \in images : /\ y.product = k.product /\ y.request = k.request
                          /\ y.blind = k.blind /\ y.primary
  BY DEF ImagesGrow
<1>3. Overlapped(x, y) \/ x.blind \/ y.blind
  BY <1>1, <1>2 DEF OnePrimary
<1> QED BY <1>1, <1>2, <1>3 DEF Overlapped

\* Images of the request s serves are added to some of those that are there.
LEMMA NewImages ==
  ASSUME OnePrimary, together \subseteq together', NEW s \in Sessions,
         NEW added, NEW kept, kept \subseteq images, images' = kept \cup added,
         \A k \in added : k.request = serving[s],
         \A k \in added, i \in kept : i.product = k.product /\ i.primary /\ k.primary =>
           Met(s, i) \/ i.request = serving[s] \/ i.blind \/ k.blind
  PROVE  OnePrimary' /\ ImagesGrow({serving[s]})
<1>1. ImagesGrow({serving[s]})
  BY DEF ImagesGrow
<1>2. \A a, b : Overlapped(a, b) => Overlapped(a, b)'
  BY DEF Overlapped
<1>3. ASSUME NEW k \in added, NEW i \in kept, i.product = k.product, i.primary, k.primary,
             i.request # k.request
      PROVE  /\ Overlapped(i, k)' \/ i.blind \/ k.blind
             /\ Overlapped(k, i)' \/ i.blind \/ k.blind
  <2>1. Met(s, i) \/ i.blind \/ k.blind
    BY <1>3
  <2>2. {k.request, i.request} = {i.request, serving[s]} /\ k.request = serving[s]
    BY <1>3
  <2> QED BY <2>1, <2>2 DEF Overlapped, Met
<1>4. ASSUME NEW i \in images', NEW k \in images', i.product = k.product,
             i.primary, k.primary, i.request # k.request
      PROVE  Overlapped(i, k)' \/ i.blind \/ k.blind
  <2>1. CASE i \in kept /\ k \in kept
    BY <2>1, <1>2, <1>4 DEF OnePrimary
  <2>2. CASE i \in added /\ k \in added
    BY <2>2, <1>4
  <2>3. CASE (i \in added /\ k \in kept) \/ (i \in kept /\ k \in added)
    BY <2>3, <1>3, <1>4
  <2> QED BY <2>1, <2>2, <2>3
<1> QED BY <1>1, <1>4 DEF OnePrimary

LEMMA NewImageTypes ==
  ASSUME Inv, NEW s \in Sessions, NEW p \in Products, NEW list \in ImageLists,
         NEW n \in 1 .. Len(list), NEW blind \in BOOLEAN,
         NEW k, k = NewImage(s, p, list, n, blind)
  PROVE  /\ k \in ImageRow /\ k.product = p /\ k.request = serving[s] /\ k.blind = blind
         /\ k.primary => HasPrimary(list)
<1>1. list \in Seq(BOOLEAN)
  BY CatalogConstants
<1>2. list[n] \in BOOLEAN /\ n \in DOMAIN list /\ n \in Nat
  BY <1>1
<1>3. serving[s] \in Nat
  BY InvTypes DEF RequestsOK
<1> QED BY <1>2, <1>3 DEF NewImage, ImageRow, HasPrimary

LEMMA ReplaceSeesKeeps ==
  ASSUME Inv, NEW s \in Sessions, ReplaceSees(s), UNCHANGED storefront PROVE Inv'
<1>1. PICK j : j = job[s]
  OBVIOUS
<1>2. j \in ListJob /\ pc[s] # "idle" /\ RequestsOK /\ images \subseteq ImageRow
  BY <1>1, InvTypes DEF ReplaceSees, At, Fits
<1>3. CASE Finish(s)
  BY <1>3, FinishKeeps DEF ReplaceSees
<1>4. CASE ~Finish(s)
  <2>1. PICK values : values =
          [product |-> j.product, list |-> j.list, seen |-> ImagesOf(j.product)]
    OBVIOUS
  <2>2. Go(s, "commit images", values)
    BY <1>1, <1>4, <2>1 DEF ReplaceSees
  <2>3. values \in ReplaceJob
    BY <1>2, <2>1 DEF ListJob, ReplaceJob, ImagesOf
  <2>4. Acts(s, "commit images", values)
    BY <1>2, <2>2, GoActs
  <2>5. pc'[s] = "commit images" /\ job'[s] = values /\ images' = images
    BY <2>4 DEF Acts, ReplaceSees, rows
  <2>6. Unseen(s)'
    <3>1. ASSUME NEW k \in images, k.product = j.product PROVE k \in values.seen
      BY <2>1, <3>1 DEF ImagesOf
    <3>2. values.product = j.product
      BY <2>1
    <3> QED BY <2>5, <3>1, <3>2 DEF Unseen
  <2>7. Knows(s)'
    <3>1. Fits(pc[s], job[s])'
      BY <2>3, <2>5 DEF Fits, Saving
    <3>2. /\ Linkable(s)' /\ Unfound(s)' /\ Unset(s)' /\ Unlisted(s)' /\ Unanswered(s)'
          /\ Follows(s)'
      BY <2>5 DEF Linkable, Unfound, Unset, Unlisted, Unanswered, Follows, At, Saving
    <3> QED BY <2>6, <3>1, <3>2 DEF Knows
  <2> QED BY <2>4, <2>7, ReadingKeeps DEF ReplaceSees
<1> QED BY <1>3, <1>4

LEMMA ReplaceCommitsKeeps ==
  ASSUME Inv, NEW s \in Sessions, ReplaceCommits(s), UNCHANGED storefront PROVE Inv'
<1>1. PICK j : j = job[s]
  OBVIOUS
<1>2. /\ j \in ReplaceJob /\ pc[s] # "idle" /\ RequestsOK /\ images \subseteq ImageRow
      /\ Unseen(s) /\ OnePrimary
  BY <1>1, InvTypes DEF ReplaceCommits, At, Fits, Inv, Knows, Tables, Singles
<1>3. j.product \in Products /\ j.list \in ImageLists
  BY <1>2 DEF ReplaceJob
<1>4. PICK kept : kept =
        {i \in images : \A old \in j.seen : <<i.request, i.place>> # <<old.request, old.place>>}
  OBVIOUS
<1>5. PICK added : added = {NewImage(s, j.product, j.list, n, FALSE) : n \in DOMAIN j.list}
  OBVIOUS
<1>6. images' = kept \cup added /\ Finish(s)
  BY <1>1, <1>4, <1>5 DEF ReplaceCommits, Replaced
<1>7. Acts(s, "idle", None) /\ Knows(s)' /\ together \subseteq together'
  BY <1>2, <1>6, FinishActs, IdleKnows DEF Acts
<1>8. ASSUME NEW k \in added
      PROVE  k \in ImageRow /\ k.product = j.product /\ k.request = serving[s]
  <2>1. PICK n \in DOMAIN j.list : k = NewImage(s, j.product, j.list, n, FALSE)
    BY <1>5
  <2>2. n \in 1 .. Len(j.list)
    BY <1>3, CatalogConstants
  <2>3. PICK p \in Products, list \in ImageLists : p = j.product /\ list = j.list
    BY <1>3
  <2>4. PICK blind \in BOOLEAN : blind = FALSE
    OBVIOUS
  <2>5. k = NewImage(s, p, list, n, blind)
    BY <2>1, <2>3, <2>4
  <2>6. n \in 1 .. Len(list)
    BY <2>2, <2>3
  <2>7. k \in ImageRow /\ k.product = p /\ k.request = serving[s]
    BY <2>5, <2>6, NewImageTypes
  <2> QED BY <2>3, <2>7
<1>9. ASSUME NEW i \in kept, i.product = j.product PROVE Met(s, i)
  <2>1. \A old \in j.seen : ~(i.request = old.request /\ i.place = old.place)
    BY <1>4
  <2>2. i \in images
    BY <1>4
  <2> QED BY <2>1, <2>2, <1>1, <1>2, <1>9 DEF Unseen, ReplaceCommits
<1>10. serving[s] # 0
  BY <1>2 DEF RequestsOK
<1>11. images' \subseteq ImageRow
  BY <1>2, <1>4, <1>6, <1>8
<1>12. OnePrimary' /\ ImagesGrow({serving[s]})
  <2>1. kept \subseteq images
    BY <1>4
  <2>2. \A k \in added : k.request = serving[s] /\ k.product = j.product
    BY <1>8
  <2>3. \A k \in added, i \in kept : i.product = k.product => Met(s, i)
    BY <2>2, <1>9
  <2> QED BY <2>1, <2>2, <2>3, <1>2, <1>6, <1>7, NewImages
<1>13. Grows({serving[s]}) /\ Tables'
  BY <1>7, <1>11, <1>12, ImageTables DEF ReplaceCommits
<1> QED BY <1>7, <1>10, <1>13, StepKeeps
\* What a request that adds images knows.
LEMMA AddingKnows ==
  ASSUME NEW s \in Sessions, NEW j, j \in ImagesJob, j.next <= Len(j.list),
         pc'[s] = "insert image", job'[s] = j, Unset(s)'
  PROVE  Knows(s)'
<1>1. Fits(pc[s], job[s])'
  BY DEF Fits, Saving
<1>2. /\ Linkable(s)' /\ Unfound(s)' /\ Unseen(s)' /\ Unlisted(s)' /\ Unanswered(s)'
      /\ Follows(s)'
  BY DEF Linkable, Unfound, Unseen, Unlisted, Unanswered, Follows, At, Saving
<1> QED BY <1>1, <1>2 DEF Knows

LEMMA PostImagesKeeps ==
  ASSUME Inv, NEW s \in Sessions, NEW p \in Products, NEW list \in ImageLists,
         PostImages(s, p, list), UNCHANGED storefront
  PROVE  Inv'
<1>1. PICK b \in BOOLEAN : b = FALSE
  OBVIOUS
<1>2. PICK values : values = [product |-> p, list |-> list, next |-> 1, blind |-> b]
  OBVIOUS
<1>3. list \in Seq(BOOLEAN) /\ list # <<>>
  BY CatalogConstants DEF PostImages
<1>4. Len(list) \in Nat \ {0}
  BY <1>3
<1>5. values \in ImagesJob /\ values.next <= Len(values.list) /\ values.list = list
  BY <1>2, <1>4 DEF ImagesJob
<1>6. UNCHANGED rows
  BY DEF PostImages
<1>7. CASE HasPrimary(list)
  <2>1. Begin(s, "unset primary", values)
    BY <1>1, <1>2, <1>7 DEF PostImages
  <2>2. Plain("unset primary") /\ Fits("unset primary", values)
    BY <1>5 DEF Plain, Fits, Saving
  <2> QED BY <2>1, <2>2, <1>6, BeginKeeps
<1>8. CASE ~HasPrimary(list)
  <2>1. Begin(s, "insert image", values)
    BY <1>1, <1>2, <1>8 DEF PostImages
  <2>2. Acts(s, "insert image", values)
    BY <2>1, BeginActs DEF Inv
  <2>3. Knows(s)'
    BY <2>2, <1>5, <1>8, AddingKnows DEF Acts, Unset
  <2> QED BY <2>2, <2>3, <1>6, ReadingKeeps
<1> QED BY <1>7, <1>8

LEMMA UnsetPrimaryKeeps ==
  ASSUME Inv, NEW s \in Sessions, NEW fails \in BOOLEAN, UnsetPrimary(s, fails),
         UNCHANGED storefront
  PROVE  Inv'
<1>1. PICK j : j = job[s]
  OBVIOUS
<1>2. /\ j \in ImagesJob /\ j.next <= Len(j.list) /\ pc[s] # "idle" /\ RequestsOK
      /\ images \subseteq ImageRow /\ OnePrimary
  BY <1>1, InvTypes DEF UnsetPrimary, At, Fits, Inv, Tables, Singles
<1>3. PICK k : k = [j EXCEPT !.blind = fails]
  OBVIOUS
<1>4. /\ k \in ImagesJob /\ k.next = j.next /\ k.list = j.list /\ k.blind = fails
      /\ k.product = j.product
  BY <1>2, <1>3 DEF ImagesJob
<1>5. Acts(s, "insert image", k)
  BY <1>1, <1>2, <1>3, GoActs DEF UnsetPrimary
<1>6. pc'[s] = "insert image" /\ job'[s] = k /\ together \subseteq together'
  BY <1>5 DEF Acts
<1>7. CASE fails
  <2>1. UNCHANGED rows
    BY <1>7 DEF UnsetPrimary, rows
  <2>2. Unset(s)'
    BY <1>4, <1>6, <1>7 DEF Unset, Sole
  <2> QED BY <1>2, <1>4, <1>5, <1>6, <2>1, <2>2, AddingKnows, ReadingKeeps
<1>8. CASE ~fails
  <2>1. images' = {[i EXCEPT !.primary = i.primary /\ i.product # j.product] : i \in images}
    BY <1>1, <1>8 DEF UnsetPrimary, Demoted
  <2>2. ASSUME NEW x \in images'
        PROVE  /\ x \in ImageRow
               /\ x.primary => x.product # j.product
               /\ \E i \in images : /\ i.product = x.product /\ i.request = x.request
                                    /\ i.place = x.place /\ i.blind = x.blind
                                    /\ (x.primary => i.primary)
    <3>1. PICK i \in images : x = [i EXCEPT !.primary = i.primary /\ i.product # j.product]
      BY <2>1
    <3>2. PICK b \in BOOLEAN : b = (i.primary /\ i.product # j.product)
      BY Zenon
    <3>3. x = [i EXCEPT !.primary = b] /\ i \in ImageRow
      BY <3>1, <3>2, <1>2
    <3>4. /\ x \in ImageRow /\ x.product = i.product /\ x.request = i.request
          /\ x.place = i.place /\ x.blind = i.blind /\ x.primary = b
      BY <3>3 DEF ImageRow
    <3> QED BY <3>2, <3>4
  <2>3. images' \subseteq ImageRow /\ ImagesGrow({})
    BY <2>2 DEF ImagesGrow
  <2>4. Unset(s)'
    BY <2>2, <1>4, <1>6 DEF Unset
  <2>5. OnePrimary'
    BY <2>3, <1>2, <1>6, NoNewImage
  <2>6. Grows({}) /\ Tables'
    BY <2>3, <2>5, <1>6, ImageTables DEF UnsetPrimary
  <2>7. Knows(s)'
    BY <2>4, <1>2, <1>4, <1>6, AddingKnows
  <2> QED BY <1>5, <2>6, <2>7, StepKeeps
<1> QED BY <1>7, <1>8

LEMMA InsertImageKeeps ==
  ASSUME Inv, NEW s \in Sessions, InsertImage(s), UNCHANGED storefront PROVE Inv'
<1>1. PICK j : j = job[s]
  OBVIOUS
<1>2. /\ j \in ImagesJob /\ j.next <= Len(j.list) /\ pc[s] # "idle" /\ RequestsOK
      /\ images \subseteq ImageRow /\ OnePrimary /\ Unset(s)
  BY <1>1, InvTypes DEF InsertImage, At, Fits, Inv, Tables, Singles, Knows
<1>3. PICK p \in Products, list \in ImageLists, n \in Nat \ {0}, blind \in BOOLEAN :
        p = j.product /\ list = j.list /\ n = j.next /\ blind = j.blind
  BY <1>2 DEF ImagesJob
<1>4. list \in Seq(BOOLEAN) /\ n \in 1 .. Len(list)
  BY <1>2, <1>3, CatalogConstants
<1>5. PICK k : k = NewImage(s, p, list, n, blind)
  OBVIOUS
<1>6. /\ k \in ImageRow /\ k.product = p /\ k.request = serving[s] /\ k.blind = blind
      /\ k.primary => HasPrimary(list)
  BY <1>4, <1>5, NewImageTypes
<1>7. images' = images \cup {k}
  BY <1>1, <1>3, <1>5 DEF InsertImage
<1>8. serving[s] # 0
  BY <1>2 DEF RequestsOK
<1>9. \A i \in images : i.product = p /\ i.primary /\ k.primary => Sole(s, i)
  BY <1>1, <1>2, <1>3, <1>6 DEF Unset, InsertImage
<1>10. ASSUME together \subseteq together' PROVE Grows({serving[s]}) /\ Tables'
  <2>1. \A i \in images : k.product = i.product /\ i.primary /\ k.primary =>
          Met(s, i) \/ i.request = serving[s] \/ i.blind \/ k.blind
    BY <1>1, <1>3, <1>6, <1>9 DEF Sole
  <2>2. PICK added : added = {k}
    OBVIOUS
  <2>3. /\ images' = images \cup added
        /\ \A x \in added : x.request = serving[s]
        /\ \A x \in added, i \in images : i.product = x.product /\ i.primary /\ x.primary =>
             Met(s, i) \/ i.request = serving[s] \/ i.blind \/ x.blind
    BY <2>1, <2>2, <1>6, <1>7
  <2>4. OnePrimary' /\ ImagesGrow({serving[s]})
    BY <2>3, <1>2, <1>10, NewImages
  <2>5. images' \subseteq ImageRow
    BY <1>2, <1>6, <1>7
  <2> QED BY <2>4, <2>5, <1>10, ImageTables DEF InsertImage
<1>11. CASE j.next = Len(j.list)
  <2>1. Acts(s, "idle", None)
    BY <1>1, <1>2, <1>11, FinishActs DEF InsertImage
  <2> QED BY <2>1, <1>8, <1>10, IdleKnows, StepKeeps DEF Acts
<1>12. CASE j.next # Len(j.list)
  <2>1. PICK m : m = [j EXCEPT !.next = @ + 1]
    OBVIOUS
  <2>2. /\ m \in ImagesJob /\ m.next <= Len(m.list) /\ m.list = list /\ m.product = p
        /\ m.blind = blind
    <3>1. n + 1 \in Nat \ {0} /\ n + 1 <= Len(list)
      BY <1>3, <1>4, <1>12
    <3>2. m = [j EXCEPT !.next = n + 1]
      BY <2>1, <1>3
    <3> QED BY <3>1, <3>2, <1>2, <1>3 DEF ImagesJob
  <2>3. Acts(s, "insert image", m) /\ serving' = serving
    BY <1>1, <1>2, <1>12, <2>1, GoActs DEF InsertImage
  <2>4. /\ pc'[s] = "insert image" /\ job'[s] = m /\ together \subseteq together'
        /\ serving'[s] = serving[s]
    BY <2>3 DEF Acts
  <2>5. Unset(s)'
    <3> SUFFICES ASSUME HasPrimary(list), NEW i \in images', i.product = p, i.primary
                 PROVE  Sole(s, i)'
      BY <2>2, <2>4 DEF Unset
    <3>1. CASE i = k
      BY <3>1, <1>6, <2>4 DEF Sole
    <3>2. CASE i # k
      <4>1. Sole(s, i)
        BY <3>2, <1>1, <1>2, <1>3, <1>7 DEF Unset, InsertImage
      <4> QED BY <4>1, <1>1, <1>3, <2>2, <2>4 DEF Sole, Met
    <3> QED BY <3>1, <3>2
  <2>6. Knows(s)'
    BY <2>2, <2>4, <2>5, AddingKnows
  <2> QED BY <2>3, <2>4, <2>6, <1>8, <1>10, StepKeeps
<1> QED BY <1>11, <1>12

LEMMA RemoveImageKeeps ==
  ASSUME Inv, NEW s \in Sessions, NEW i \in images, RemoveImage(s, i), UNCHANGED storefront
  PROVE  Inv'
<1>1. AtOnce(s) /\ images' \subseteq images
  BY DEF RemoveImage
<1>2. together \subseteq together'
  BY <1>1, AtOnceActs DEF Inv
<1>3. ImagesGrow({}) /\ images' \subseteq ImageRow /\ OnePrimary
  BY <1>1, InvTypes DEF ImagesGrow, Inv, Tables, Singles
<1>4. Grows({}) /\ Tables'
  BY <1>2, <1>3, NoNewImage, ImageTables DEF RemoveImage
<1> QED BY <1>1, <1>4, AtOnceKeeps

-----------------------------------------------------------------------------
(* Vehicles. *)

\* What a request that is going to link a product knows.
LEMMA LinkingKnows ==
  ASSUME NEW s \in Sessions, NEW step \in {"find link", "link"}, NEW j, j \in LinkJob,
         pc'[s] = step, job'[s] = j, j.vehicle \in vehicles'
  PROVE  Knows(s)'
<1>1. Fits(pc[s], job[s])'
  BY DEF Fits, Saving
<1>2. /\ Linkable(s)' /\ Unfound(s)' /\ Unset(s)' /\ Unseen(s)' /\ Unlisted(s)'
      /\ Unanswered(s)' /\ Follows(s)'
  BY DEF Linkable, Unfound, Unset, Unseen, Unlisted, Unanswered, Follows, At, Saving
<1> QED BY <1>1, <1>2 DEF Knows

LEMMA PostVehicleKeeps ==
  ASSUME Inv, NEW s \in Sessions, NEW car \in Cars, PostVehicle(s, car), UNCHANGED storefront
  PROVE  Inv'
<1>1. PICK values : values = [product |-> None, car |-> car]
  OBVIOUS
<1>2. values \in VehicleJob
  BY <1>1 DEF VehicleJob
<1>3. Plain("find vehicle") /\ Fits("find vehicle", values)
  BY <1>2 DEF Plain, Fits, Saving
<1>4. Begin(s, "find vehicle", values) /\ UNCHANGED rows
  BY <1>1 DEF PostVehicle
<1> QED BY <1>3, <1>4, BeginKeeps

LEMMA PostCompatibilityKeeps ==
  ASSUME Inv, NEW s \in Sessions, NEW p \in Products, NEW car \in Cars \cup {None},
         NEW v \in vehicles \cup {None}, PostCompatibility(s, p, car, v), UNCHANGED storefront
  PROVE  Inv'
<1>1. PICK values : values = [product |-> p, car |-> None, vehicle |-> v]
  OBVIOUS
<1>2. PICK other : other = [product |-> p, car |-> car]
  OBVIOUS
<1>3. UNCHANGED rows /\ vehicles' = vehicles /\ vehicles \subseteq VehicleRow
  BY InvTypes DEF PostCompatibility, rows
<1>4. CASE v \in vehicles /\ Begin(s, "find link", values)
  <2>1. values \in LinkJob /\ values.vehicle \in vehicles'
    BY <1>1, <1>3, <1>4 DEF LinkJob
  <2>2. Acts(s, "find link", values)
    BY <1>4, BeginActs DEF Inv
  <2> QED BY <2>1, <2>2, <1>3, LinkingKnows, ReadingKeeps DEF Acts
<1>5. CASE car \in Cars /\ Begin(s, "find vehicle", other)
  <2>1. other \in VehicleJob
    BY <1>2, <1>5 DEF VehicleJob
  <2>2. Plain("find vehicle") /\ Fits("find vehicle", other)
    BY <2>1 DEF Plain, Fits, Saving
  <2> QED BY <2>2, <1>3, <1>5, BeginKeeps
<1> QED BY <1>1, <1>2, <1>4, <1>5 DEF PostCompatibility

\* A vehicle that has been found or created is linked, if there is a product to link.
LEMMA LinkingActs ==
  ASSUME Inv, NEW s \in Sessions, pc[s] # "idle", job[s] \in VehicleJob, NEW v \in VehicleRow,
         v \in vehicles', Linking(s, v)
  PROVE  Knows(s)' /\ \E step, values : Acts(s, step, values)
<1>1. CASE job[s].product = None
  <2>1. Acts(s, "idle", None)
    BY <1>1, FinishActs DEF Linking, Inv
  <2> QED BY <2>1, IdleKnows DEF Acts
<1>2. CASE job[s].product # None
  <2>1. PICK values : values = [product |-> job[s].product, car |-> job[s].car, vehicle |-> v]
    OBVIOUS
  <2>2. values \in LinkJob /\ values.vehicle = v
    BY <2>1, <1>2 DEF LinkJob, VehicleJob
  <2>3. Acts(s, "find link", values)
    BY <2>1, <1>2, GoActs DEF Linking, Inv
  <2> QED BY <2>2, <2>3, LinkingKnows DEF Acts
<1> QED BY <1>1, <1>2

LEMMA FindVehicleKeeps ==
  ASSUME Inv, NEW s \in Sessions, FindVehicle(s), UNCHANGED storefront PROVE Inv'
<1>1. PICK j : j = job[s]
  OBVIOUS
<1>2. j \in VehicleJob /\ pc[s] # "idle" /\ RequestsOK /\ vehicles \subseteq VehicleRow
  BY <1>1, InvTypes DEF FindVehicle, At, Fits
<1>3. UNCHANGED rows /\ vehicles' = vehicles
  BY DEF FindVehicle, rows
<1>4. ASSUME NEW v \in Matches(j.car), Linking(s, v) PROVE Inv'
  <2>1. v \in vehicles
    BY DEF Matches
  <2>2. Knows(s)' /\ \E step, values : Acts(s, step, values)
    BY <1>1, <1>2, <1>3, <1>4, <2>1, LinkingActs
  <2> QED BY <2>2, <1>3, ReadingKeeps
<1>5. CASE Matches(j.car) = {} /\ Go(s, "create vehicle", j)
  <2>1. Acts(s, "create vehicle", j)
    BY <1>2, <1>5, GoActs
  <2>2. pc'[s] = "create vehicle" /\ job'[s] = j
    BY <2>1 DEF Acts
  <2>3. Unfound(s)'
    BY <2>2, <1>3, <1>5 DEF Unfound, Matches
  <2>4. Fits(pc[s], job[s])'
    BY <2>2, <1>2 DEF Fits, Saving
  <2>5. /\ Linkable(s)' /\ Unset(s)' /\ Unseen(s)' /\ Unlisted(s)' /\ Unanswered(s)'
        /\ Follows(s)'
    BY <2>2 DEF Linkable, Unset, Unseen, Unlisted, Unanswered, Follows, At, Saving
  <2> QED BY <2>1, <2>3, <2>4, <2>5, <1>3, ReadingKeeps DEF Knows
<1> QED BY <1>1, <1>4, <1>5 DEF FindVehicle

LEMMA CreateVehicleKeeps ==
  ASSUME Inv, NEW s \in Sessions, CreateVehicle(s), UNCHANGED storefront PROVE Inv'
<1>1. PICK j : j = job[s]
  OBVIOUS
<1>2. /\ j \in VehicleJob /\ pc[s] # "idle" /\ RequestsOK /\ vehicles \subseteq VehicleRow
      /\ Unfound(s) /\ VehiclesAreFound
  BY <1>1, InvTypes DEF CreateVehicle, At, Fits, Inv, Tables, Singles, Knows
<1>3. PICK v : v = [car |-> j.car, request |-> serving[s]]
  OBVIOUS
<1>4. v \in VehicleRow /\ v.car = j.car /\ v.request = serving[s] /\ serving[s] # 0
  BY <1>2, <1>3 DEF RequestsOK, VehicleRow, VehicleJob
<1>5. vehicles' = vehicles \cup {v} /\ Linking(s, v)
  BY <1>1, <1>3 DEF CreateVehicle
<1>6. Knows(s)' /\ \E step, values : Acts(s, step, values)
  BY <1>1, <1>2, <1>4, <1>5, LinkingActs
<1>7. together \subseteq together' /\ UNCHANGED <<questions, answers, reviews, wishes, cart>>
  BY <1>6 DEF Acts, storefront
<1>8. VehiclesAreFound'
  <2>1. \A w \in vehicles : w.car = v.car => Overlapped(w, v)' /\ Overlapped(v, w)'
    <3> SUFFICES ASSUME NEW w \in vehicles, w.car = v.car
                 PROVE  Overlapped(w, v)' /\ Overlapped(v, w)'
      OBVIOUS
    <3>1. {w.request, v.request} \in together'
      BY <1>1, <1>2, <1>4, <1>7 DEF Unfound, Met, CreateVehicle
    <3>2. {v.request, w.request} = {w.request, v.request}
      OBVIOUS
    <3> QED BY <3>1, <3>2 DEF Overlapped
  <2>2. \A a, b : Overlapped(a, b) => Overlapped(a, b)'
    BY <1>7 DEF Overlapped
  <2> QED BY <2>1, <2>2, <1>2, <1>5 DEF VehiclesAreFound
<1>9. Grows({serving[s]})
  <2>1. VehiclesGrow({serving[s]})
    BY <1>4, <1>5 DEF VehiclesGrow
  <2> QED BY <2>1, <1>7, SameImages, SameAnswers, SameEntries DEF Grows, CreateVehicle
<1>10. CatalogRowsOK' /\ StoreRowsOK'
  BY <1>4, <1>5, <1>7 DEF Inv, Tables, CatalogRowsOK, StoreRowsOK, CreateVehicle
<1>11. Statuses'
  BY <1>7 DEF Inv, Tables, Statuses, AnswersTo
<1>12. Singles'
  BY <1>7, <1>8, SinglesStay DEF Inv, Tables, Singles, CreateVehicle
<1>13. Tables'
  BY <1>10, <1>11, <1>12 DEF Tables
<1> QED BY <1>4, <1>6, <1>9, <1>13, StepKeeps

\* A product that has been linked is linked again, unless the request is at its end.
LEMMA LinkedActs ==
  ASSUME Inv, NEW s \in Sessions, pc[s] # "idle", job[s] \in LinkJob, vehicles' = vehicles,
         Linked(s)
  PROVE  Knows(s)' /\ \E step, values : Acts(s, step, values)
<1>1. RequestsOK /\ vehicles \subseteq VehicleRow /\ job[s].product \in Products
  BY InvTypes DEF LinkJob
<1>2. CASE Finish(s)
  <2>1. Acts(s, "idle", None)
    BY <1>1, <1>2, FinishActs
  <2> QED BY <2>1, IdleKnows DEF Acts
<1>3. ASSUME NEW v \in vehicles,
             Go(s, "find link", [product |-> job[s].product, car |-> None, vehicle |-> v])
      PROVE  Knows(s)' /\ \E step, values : Acts(s, step, values)
  <2>1. PICK values : values = [product |-> job[s].product, car |-> None, vehicle |-> v]
    OBVIOUS
  <2>2. values \in LinkJob /\ values.vehicle \in vehicles'
    BY <1>1, <2>1 DEF LinkJob
  <2>3. Acts(s, "find link", values)
    BY <1>1, <1>3, <2>1, GoActs
  <2> QED BY <2>2, <2>3, LinkingKnows DEF Acts
<1>4. ASSUME NEW car \in Cars,
             Go(s, "find vehicle", [product |-> job[s].product, car |-> car])
      PROVE  Knows(s)' /\ \E step, values : Acts(s, step, values)
  <2>1. PICK values : values = [product |-> job[s].product, car |-> car]
    OBVIOUS
  <2>2. values \in VehicleJob
    BY <1>1, <2>1 DEF VehicleJob
  <2>3. Plain("find vehicle") /\ Fits("find vehicle", values)
    BY <2>2 DEF Plain, Fits, Saving
  <2>4. Acts(s, "find vehicle", values)
    BY <1>1, <1>4, <2>1, GoActs
  <2> QED BY <2>3, <2>4, PlainKnows DEF Acts
<1> QED BY <1>2, <1>3, <1>4 DEF Linked

LEMMA FindLinkKeeps ==
  ASSUME Inv, NEW s \in Sessions, FindLink(s), UNCHANGED storefront PROVE Inv'
<1>1. PICK j : j = job[s]
  OBVIOUS
<1>2. j \in LinkJob /\ pc[s] # "idle" /\ RequestsOK /\ j.vehicle \in vehicles
  BY <1>1, InvTypes DEF FindLink, At, Fits, Knows, Linkable
<1>3. CASE Linked(s)
  <2>1. vehicles' = vehicles
    BY DEF FindLink, rows
  <2>2. Knows(s)' /\ \E step, values : Acts(s, step, values)
    BY <1>1, <1>2, <1>3, <2>1, LinkedActs
  <2> QED BY <2>2, ReadingKeeps DEF FindLink
<1>4. CASE ~Linked(s)
  <2>1. Acts(s, "link", j)
    BY <1>1, <1>2, <1>4, GoActs DEF FindLink
  <2>2. vehicles' = vehicles
    BY DEF FindLink, rows
  <2> QED BY <2>1, <2>2, <1>2, LinkingKnows, ReadingKeeps DEF Acts, FindLink
<1> QED BY <1>3, <1>4

LEMMA LinkProductKeeps ==
  ASSUME Inv, NEW s \in Sessions, LinkProduct(s), UNCHANGED storefront PROVE Inv'
<1>1. PICK j : j = job[s]
  OBVIOUS
<1>2. j \in LinkJob /\ j.vehicle \in vehicles /\ links \subseteq Products \X vehicles
      /\ pc[s] # "idle"
  BY <1>1, InvTypes DEF LinkProduct, At, Fits, Knows, Linkable
<1>3. Knows(s)' /\ \E step, values : Acts(s, step, values)
  <2>1. CASE Finish(s)
    <3>1. Acts(s, "idle", None)
      BY <2>1, InvTypes, FinishActs
    <3> QED BY <3>1, IdleKnows DEF Acts
  <2>2. CASE Linked(s)
    BY <1>1, <1>2, <2>2, LinkedActs DEF LinkProduct
  <2> QED BY <2>1, <2>2 DEF LinkProduct
<1>4. links' \subseteq Products \X vehicles'
  BY <1>1, <1>2 DEF LinkProduct, LinkJob
<1>5. together \subseteq together' /\ UNCHANGED <<questions, answers, reviews, wishes, cart>>
  BY <1>3 DEF Acts, storefront
<1>6. UNCHANGED <<products, categories, images, vehicles>>
  BY DEF LinkProduct
<1>7. Grows({})
  BY <1>5, <1>6, SameVehicles, SameImages, SameAnswers, SameEntries DEF Grows
<1>8. CatalogRowsOK' /\ StoreRowsOK'
  BY <1>4, <1>5, <1>6 DEF Inv, Tables, CatalogRowsOK, StoreRowsOK
<1>9. Statuses'
  BY <1>5 DEF Inv, Tables, Statuses, AnswersTo
<1>10. Singles'
  BY <1>5, <1>6, SinglesStay DEF Inv, Tables, Singles
<1>11. Tables'
  BY <1>8, <1>9, <1>10 DEF Tables
<1> QED BY <1>3, <1>7, <1>11, StepKeeps DEF Grows
-----------------------------------------------------------------------------
(* The catalogue's steps together. *)

LEMMA AbortKeeps ==
  ASSUME Inv, NEW s \in Sessions, Abort(s), UNCHANGED storefront PROVE Inv'
<1>1. Acts(s, "idle", None)
  BY AbortActs DEF Inv
<1> QED BY <1>1, IdleKnows, ReadingKeeps DEF Acts, Abort

LEMMA StockMovesKeeps ==
  ASSUME Inv, NEW p \in Products, NEW units \in 0 .. MaxStock, StockMoves(p, units),
         UNCHANGED storefront
  PROVE  Inv'
<1>1. /\ UNCHANGED <<categories, images, vehicles, links, pc, job, serving, together, crashes>>
      /\ UNCHANGED <<questions, answers, reviews, wishes, cart>>
      /\ products' = [products EXCEPT ![p].stock = units]
      /\ requests' = requests + 1 /\ requests < MaxRequests
  BY DEF StockMoves, storefront
<1>2. products' \in [Products -> ProductRow]
  BY <1>1, ProductWrites
<1>3. RequestsOK'
  <2>1. requests \in Nat /\ requests' \in 0 .. MaxRequests
    BY <1>1, CatalogConstants DEF Inv, RequestsOK
  <2>2. serving' \in [Sessions -> 0 .. requests']
    BY <1>1, <2>1 DEF Inv, RequestsOK
  <2>3. \A pair \in together' : pair \subseteq 1 .. requests' /\ Cardinality(pair) = 2
    <3> SUFFICES ASSUME NEW pair \in together
                 PROVE  pair \subseteq 1 .. requests' /\ Cardinality(pair) = 2
      BY <1>1
    <3>1. pair \subseteq 1 .. requests /\ Cardinality(pair) = 2
      BY DEF Inv, RequestsOK
    <3> QED BY <1>1, <2>1, <3>1
  <2> QED BY <1>1, <2>1, <2>2, <2>3 DEF Inv, RequestsOK
<1>4. Tables'
  <2>1. CatalogRowsOK' /\ StoreRowsOK'
    BY <1>1, <1>2 DEF Inv, Tables, CatalogRowsOK, StoreRowsOK
  <2>2. Statuses'
    BY <1>1 DEF Inv, Tables, Statuses, AnswersTo
  <2>3. Singles'
    BY <1>1, SinglesStay DEF Inv, Tables, Singles
  <2> QED BY <2>1, <2>2, <2>3 DEF Tables
<1>5. Grows({})
  BY <1>1, SameVehicles, SameImages, SameAnswers, SameEntries DEF Grows
<1>6. ASSUME NEW t \in Sessions PROVE Knows(t)'
  <2>1. Knows(t)
    BY DEF Inv
  <2> QED BY <1>1, <1>5, <2>1, KnowsStill
<1> QED BY <1>3, <1>4, <1>6 DEF Inv

LEMMA CatalogKeeps == ASSUME Inv, CatalogNext, UNCHANGED storefront PROVE Inv'
<1>1. ASSUME NEW s \in Sessions, CatalogRequest(s) PROVE Inv'
  <2>1. ASSUME NEW c \in Categories, NEW parent \in Stored(categories) \cup {None},
               PostCategory(s, c, parent) \/ PutCategory(s, c, parent)
        PROVE  Inv'
    BY <2>1, PostCategoryKeeps, PutCategoryKeeps
  <2>2. ASSUME \/ \E c \in Categories : RemoveCategory(s, c)
               \/ \E p \in Products : RemoveProduct(s, p)
        PROVE  Inv'
    BY <2>2, RemovalsKeep
  <2>3. ASSUME NEW items \in SUBSET Products, NEW named \in SUBSET Stored(categories),
               PostProducts(s, items, named)
        PROVE  Inv'
    BY <2>3, PostProductsKeeps
  <2>4. ASSUME NEW p \in Products, NEW given \in {None} \cup SUBSET Stored(categories),
               NEW stock \in 0 .. MaxStock, NEW list \in {None} \cup ImageLists,
               PutProduct(s, p, given, stock, list)
        PROVE  Inv'
    BY <2>4, PutProductKeeps
  <2>5. ASSUME NEW p \in Products, NEW list \in ImageLists, PostImages(s, p, list) PROVE Inv'
    BY <2>5, PostImagesKeeps
  <2>6. ASSUME NEW i \in images, RemoveImage(s, i) PROVE Inv'
    BY <2>6, RemoveImageKeeps
  <2>7. ASSUME NEW car \in Cars, PostVehicle(s, car) PROVE Inv'
    BY <2>7, PostVehicleKeeps
  <2>8. ASSUME NEW p \in Products, NEW car \in Cars \cup {None}, NEW v \in vehicles \cup {None},
               PostCompatibility(s, p, car, v)
        PROVE  Inv'
    BY <2>8, PostCompatibilityKeeps
  <2> QED BY <1>1, <2>1, <2>2, <2>3, <2>4, <2>5, <2>6, <2>7, <2>8 DEF CatalogRequest
<1>2. ASSUME NEW s \in Sessions, CatalogStep(s) PROVE Inv'
  <2>1. CASE InsertCategory(s) \/ SaveCategory(s)
    BY <2>1, InsertCategoryKeeps, SaveCategoryKeeps
  <2>2. ASSUME NEW p \in Products, NEW taken \in BOOLEAN, InsertProduct(s, p, taken) PROVE Inv'
    BY <2>2, InsertProductKeeps
  <2>3. ASSUME NEW c \in Categories, ClearCategories(s) \/ AddCategory(s, c) PROVE Inv'
    BY <2>3, ClearCategoriesKeeps, AddCategoryKeeps
  <2>4. CASE ClearCategories(s)
    BY <2>4, ClearCategoriesKeeps
  <2>5. ASSUME NEW p \in Products, NEW units \in 0 .. MaxStock, InitialStock(s, p, units)
        PROVE  Inv'
    BY <2>5, InitialStockKeeps
  <2>6. CASE SaveProduct(s) \/ FormStock(s) \/ ReplaceSees(s) \/ ReplaceCommits(s)
    BY <2>6, SaveProductKeeps, FormStockKeeps, ReplaceSeesKeeps, ReplaceCommitsKeeps
  <2>7. ASSUME NEW fails \in BOOLEAN, UnsetPrimary(s, fails) PROVE Inv'
    BY <2>7, UnsetPrimaryKeeps
  <2>8. CASE InsertImage(s) \/ FindVehicle(s) \/ CreateVehicle(s)
    BY <2>8, InsertImageKeeps, FindVehicleKeeps, CreateVehicleKeeps
  <2>9. CASE FindLink(s) \/ LinkProduct(s) \/ Abort(s)
    BY <2>9, FindLinkKeeps, LinkProductKeeps, AbortKeeps
  <2> QED
    BY <1>2, <2>1, <2>2, <2>3, <2>4, <2>5, <2>6, <2>7, <2>8, <2>9 DEF CatalogStep
<1>3. ASSUME NEW p \in Products, NEW units \in 0 .. MaxStock, StockMoves(p, units) PROVE Inv'
  BY <1>3, StockMovesKeeps
<1> QED BY <1>1, <1>2, <1>3 DEF CatalogNext

-----------------------------------------------------------------------------
(* Reviews, wishes and the cart. *)

\* The tables after a step that changes entries.
LEMMA EntryTables ==
  ASSUME Inv, together \subseteq together', UNCHANGED <<rows, questions, answers>>,
         NEW N,
         EntriesGrow(reviews, reviews', N), EntriesGrow(wishes, wishes', N),
         EntriesGrow(cart, cart', N),
         reviews' \subseteq ReviewRow, wishes' \subseteq WishRow, cart' \subseteq CartRow,
         OneEntryEach(reviews)', OneEntryEach(wishes)', OneEntryEach(cart)'
  PROVE  Grows(N) /\ Tables'
<1>1. UNCHANGED <<products, categories, images, vehicles, links>>
  BY DEF rows
<1>2. Grows(N)
  BY <1>1, SameVehicles, SameImages, SameAnswers DEF Grows
<1>3. CatalogRowsOK' /\ StoreRowsOK'
  BY <1>1 DEF Inv, Tables, CatalogRowsOK, StoreRowsOK
<1>4. Statuses'
  BY DEF Inv, Tables, Statuses, AnswersTo
<1>5. Singles'
  BY <1>1, SinglesStay DEF Inv, Tables, Singles
<1> QED BY <1>2, <1>3, <1>4, <1>5 DEF Tables

\* A table that is as it was, or has lost entries.
LEMMA FewerEntries ==
  ASSUME together \subseteq together', NEW table, NEW new, new \subseteq table,
         OneEntryEach(table), NEW N
  PROVE  EntriesGrow(table, new, N) /\ OneEntryEach(new)'
<1>1. \A a, b : Overlapped(a, b) => Overlapped(a, b)'
  BY DEF Overlapped
<1> QED BY <1>1, SameEntries DEF OneEntryEach

\* A request that found nothing, or whose check failed, adds its entry.
LEMMA EntryAdded ==
  ASSUME together \subseteq together', NEW s \in Sessions, NEW table, OneEntryEach(table),
         Alone(s, table), NEW e, e.user = job[s].user, e.product = job[s].product,
         e.request = serving[s], e.blind = job[s].blind
  PROVE  EntriesGrow(table, table \cup {e}, {serving[s]}) /\ OneEntryEach(table \cup {e})'
<1>1. \A a, b : Overlapped(a, b) => Overlapped(a, b)'
  BY DEF Overlapped
<1>2. \A r \in table : r.user = e.user /\ r.product = e.product =>
        (Overlapped(r, e)' /\ Overlapped(e, r)') \/ r.blind \/ e.blind
  <2> SUFFICES ASSUME NEW r \in table, r.user = e.user, r.product = e.product, ~r.blind, ~e.blind
               PROVE  Overlapped(r, e)' /\ Overlapped(e, r)'
    OBVIOUS
  <2>1. {r.request, e.request} \in together'
    BY DEF Alone, Met
  <2>2. {e.request, r.request} = {r.request, e.request}
    OBVIOUS
  <2> QED BY <2>1, <2>2 DEF Overlapped
<1>3. OneEntryEach(table \cup {e})'
  BY <1>1, <1>2 DEF OneEntryEach
<1>4. EntriesGrow(table, table \cup {e}, {serving[s]})
  BY DEF EntriesGrow, SameEntry
<1> QED BY <1>3, <1>4

\* The tables of entries are what they are declared to be.
LEMMA EntryTypes ==
  ASSUME Inv
  PROVE  /\ reviews \subseteq ReviewRow /\ wishes \subseteq WishRow /\ cart \subseteq CartRow
         /\ OneEntryEach(reviews) /\ OneEntryEach(wishes) /\ OneEntryEach(cart)
         /\ questions \in [Questions -> QuestionRow \cup {NoQuestion}]
         /\ answers \subseteq AnswerRow
         /\ Statuses /\ OneAnswerEach
  BY DEF Inv, Tables, StoreRowsOK, Singles

LEMMA PostEntryKeeps ==
  ASSUME Inv, NEW s \in Sessions, NEW u \in Users, NEW p \in Products,
         PostReview(s, u, p) \/ PostWish(s, u, p)
  PROVE  Inv'
<1>1. PICK values : values = [user |-> u, product |-> p, blind |-> FALSE]
  OBVIOUS
<1>2. values \in EntryJob
  BY <1>1 DEF EntryJob
<1>3. PICK step \in {"has reviewed", "has wished"} : Begin(s, step, values)
  BY <1>1 DEF PostReview, PostWish
<1>4. Plain(step) /\ Fits(step, values)
  BY <1>2, <1>3 DEF Plain, Fits, Saving
<1>5. UNCHANGED <<rows, storefront>>
  BY DEF PostReview, PostWish
<1> QED BY <1>3, <1>4, <1>5, BeginKeeps

LEMMA CheckEntryKeeps ==
  ASSUME Inv, NEW s \in Sessions, NEW fails \in BOOLEAN,
         \/ CheckEntry(s, "has reviewed", reviews, "insert review", fails)
         \/ CheckEntry(s, "has wished", wishes, "insert wish", fails)
  PROVE  Inv'
<1>1. PICK j : j = job[s]
  OBVIOUS
<1>2. /\ j \in EntryJob /\ pc[s] # "idle" /\ RequestsOK /\ UNCHANGED <<rows, storefront>>
      /\ UNCHANGED <<reviews, wishes, cart>>
  BY <1>1, InvTypes DEF CheckEntry, At, Fits, storefront
<1>3. CASE Finish(s)
  BY <1>2, <1>3, FinishKeeps
<1>4. CASE ~Finish(s)
  <2>1. PICK k : k = [j EXCEPT !.blind = fails]
    OBVIOUS
  <2>2. k \in EntryJob /\ k.user = j.user /\ k.product = j.product /\ k.blind = fails
    BY <1>2, <2>1 DEF EntryJob
  <2>3. \/ /\ fails \/ EntriesOf(reviews, j.user, j.product) = {}
           /\ Go(s, "insert review", k)
        \/ /\ fails \/ EntriesOf(wishes, j.user, j.product) = {}
           /\ Go(s, "insert wish", k)
    BY <1>1, <1>4, <2>1 DEF CheckEntry
  <2>4. PICK step \in {"insert review", "insert wish"} :
          /\ Go(s, step, k)
          /\ step = "insert review" => fails \/ EntriesOf(reviews, j.user, j.product) = {}
          /\ step = "insert wish" => fails \/ EntriesOf(wishes, j.user, j.product) = {}
    BY <2>3
  <2>5. Acts(s, step, k)
    BY <1>2, <2>4, GoActs
  <2>6. pc'[s] = step /\ job'[s] = k
    BY <2>5 DEF Acts
  <2>7. Unlisted(s)'
    BY <1>2, <2>2, <2>4, <2>6 DEF Unlisted, Alone, EntriesOf, At
  <2>8. Fits(pc[s], job[s])'
    BY <2>2, <2>4, <2>6 DEF Fits, Saving
  <2>9. /\ Linkable(s)' /\ Unfound(s)' /\ Unset(s)' /\ Unseen(s)' /\ Unanswered(s)'
        /\ Follows(s)'
    BY <2>4, <2>6 DEF Linkable, Unset, Unseen, Unfound, Unanswered, Follows, At, Saving
  <2> QED BY <1>2, <2>5, <2>7, <2>8, <2>9, ReadingKeeps DEF Knows
<1> QED BY <1>3, <1>4

\* The end of a request that has written entries.
LEMMA EntriesKeep ==
  ASSUME Inv, NEW s \in Sessions, pc[s] # "idle", Finish(s),
         UNCHANGED <<rows, questions, answers>>,
         EntriesGrow(reviews, reviews', {serving[s]}), EntriesGrow(wishes, wishes', {serving[s]}),
         EntriesGrow(cart, cart', {serving[s]}),
         reviews' \subseteq ReviewRow, wishes' \subseteq WishRow, cart' \subseteq CartRow,
         OneEntryEach(reviews)', OneEntryEach(wishes)', OneEntryEach(cart)'
  PROVE  Inv'
<1>1. Acts(s, "idle", None)
  BY InvTypes, FinishActs
<1>2. together \subseteq together' /\ Knows(s)'
  BY <1>1, IdleKnows DEF Acts
<1>3. serving[s] # 0
  BY InvTypes DEF RequestsOK
<1>4. Grows({serving[s]}) /\ Tables'
  BY <1>2, EntryTables
<1> QED BY <1>1, <1>2, <1>3, <1>4, StepKeeps

LEMMA InsertReviewKeeps ==
  ASSUME Inv, NEW s \in Sessions, NEW verified \in BOOLEAN, InsertReview(s, verified) PROVE Inv'
<1>1. PICK j : j = job[s]
  OBVIOUS
<1>2. /\ j \in EntryJob /\ pc[s] # "idle" /\ RequestsOK /\ Finish(s) /\ Alone(s, reviews)
      /\ UNCHANGED <<rows, questions, answers, wishes, cart>>
  BY <1>1, InvTypes DEF InsertReview, At, Fits, Knows, Unlisted
<1>3. together \subseteq together'
  BY <1>2, FinishActs DEF Acts
<1>4. PICK e : e = [user |-> j.user, product |-> j.product, request |-> serving[s],
                    blind |-> j.blind, verified |-> verified]
  OBVIOUS
<1>5. /\ e \in ReviewRow /\ e.user = j.user /\ e.product = j.product
      /\ e.request = serving[s] /\ e.blind = j.blind
  BY <1>2, <1>4 DEF ReviewRow, EntryJob, RequestsOK
<1>6. reviews' \in {reviews, reviews \cup {e}}
  BY <1>1, <1>4 DEF InsertReview
<1>7. EntriesGrow(reviews, reviews', {serving[s]}) /\ OneEntryEach(reviews)'
  <2>1. OneEntryEach(reviews)
    BY EntryTypes
  <2>2. CASE reviews' = reviews \cup {e}
    <3>1. PICK old : old = reviews
      OBVIOUS
    <3>2. EntriesGrow(old, old \cup {e}, {serving[s]}) /\ OneEntryEach(old \cup {e})'
      BY <1>1, <1>2, <1>3, <1>5, <2>1, <3>1, EntryAdded
    <3> QED BY <2>2, <3>1, <3>2
  <2>3. CASE reviews' = reviews
    BY <1>3, <2>1, <2>3, FewerEntries
  <2> QED BY <1>6, <2>2, <2>3
<1>8. /\ EntriesGrow(wishes, wishes', {serving[s]}) /\ OneEntryEach(wishes)'
      /\ EntriesGrow(cart, cart', {serving[s]}) /\ OneEntryEach(cart)'
  BY <1>2, <1>3, FewerEntries, EntryTypes
<1>9. reviews' \subseteq ReviewRow /\ wishes' \subseteq WishRow /\ cart' \subseteq CartRow
  BY <1>2, <1>5, <1>6, EntryTypes
<1> QED BY <1>2, <1>7, <1>8, <1>9, EntriesKeep

LEMMA InsertWishKeeps ==
  ASSUME Inv, NEW s \in Sessions, InsertWish(s) PROVE Inv'
<1>1. PICK j : j = job[s]
  OBVIOUS
<1>2. /\ j \in EntryJob /\ pc[s] # "idle" /\ RequestsOK /\ Finish(s) /\ Alone(s, wishes)
      /\ UNCHANGED <<rows, questions, answers, reviews, cart>>
  BY <1>1, InvTypes DEF InsertWish, At, Fits, Knows, Unlisted
<1>3. together \subseteq together'
  BY <1>2, FinishActs DEF Acts
<1>4. PICK e : e = NewEntry(s)
  OBVIOUS
<1>5. /\ e \in WishRow /\ e.user = j.user /\ e.product = j.product
      /\ e.request = serving[s] /\ e.blind = j.blind
  BY <1>1, <1>2, <1>4 DEF NewEntry, WishRow, EntryJob, RequestsOK
<1>6. wishes' \in {wishes, wishes \cup {e}}
  BY <1>4 DEF InsertWish
<1>7. EntriesGrow(wishes, wishes', {serving[s]}) /\ OneEntryEach(wishes)'
  <2>1. OneEntryEach(wishes)
    BY EntryTypes
  <2>2. CASE wishes' = wishes \cup {e}
    <3>1. PICK old : old = wishes
      OBVIOUS
    <3>2. EntriesGrow(old, old \cup {e}, {serving[s]}) /\ OneEntryEach(old \cup {e})'
      BY <1>1, <1>2, <1>3, <1>5, <2>1, <3>1, EntryAdded
    <3> QED BY <2>2, <3>1, <3>2
  <2>3. CASE wishes' = wishes
    BY <1>3, <2>1, <2>3, FewerEntries
  <2> QED BY <1>6, <2>2, <2>3
<1>8. /\ EntriesGrow(reviews, reviews', {serving[s]}) /\ OneEntryEach(reviews)'
      /\ EntriesGrow(cart, cart', {serving[s]}) /\ OneEntryEach(cart)'
  BY <1>2, <1>3, FewerEntries, EntryTypes
<1>9. reviews' \subseteq ReviewRow /\ wishes' \subseteq WishRow /\ cart' \subseteq CartRow
  BY <1>2, <1>5, <1>6, EntryTypes
<1> QED BY <1>2, <1>7, <1>8, <1>9, EntriesKeep

\* Entries taken out by a request of one statement.
LEMMA RemovedEntriesKeep ==
  ASSUME Inv, NEW s \in Sessions,
         \/ \E u, p : RemoveWish(s, u, p)
         \/ \E u, gone : RemoveLines(s, u, gone)
  PROVE  Inv'
<1>1. AtOnce(s) /\ UNCHANGED <<rows, questions, answers>>
  BY DEF RemoveWish, RemoveLines
<1>2. reviews' \subseteq reviews /\ wishes' \subseteq wishes /\ cart' \subseteq cart
  BY DEF RemoveWish, RemoveLines
<1>3. together \subseteq together'
  BY <1>1, AtOnceActs, InvTypes
<1>4. /\ EntriesGrow(reviews, reviews', {}) /\ OneEntryEach(reviews)'
      /\ EntriesGrow(wishes, wishes', {}) /\ OneEntryEach(wishes)'
      /\ EntriesGrow(cart, cart', {}) /\ OneEntryEach(cart)'
  BY <1>2, <1>3, FewerEntries, EntryTypes
<1>5. reviews' \subseteq ReviewRow /\ wishes' \subseteq WishRow /\ cart' \subseteq CartRow
  BY <1>2, EntryTypes
<1>6. Grows({}) /\ Tables'
  BY <1>1, <1>3, <1>4, <1>5, EntryTables
<1> QED BY <1>1, <1>6, AtOnceKeeps

\* Quantities stay within what requests ask for and what is in stock.
LEMMA QuantityBounds ==
  /\ \A q \in 1 .. MaxQuantity : q \in Quantities
  /\ \A q \in Nat, n \in 0 .. MaxStock : Capped(q, n) \in Quantities
  /\ Quantities \subseteq Nat
<1>1. MaxStock \in Nat /\ MaxQuantity \in Nat
  BY CatalogConstants, StorefrontConstants
<1>2. Most(MaxStock, MaxQuantity) \in Nat /\ MaxStock <= Most(MaxStock, MaxQuantity)
        /\ MaxQuantity <= Most(MaxStock, MaxQuantity)
  BY <1>1 DEF Most
<1>3. \A q \in 1 .. MaxQuantity : q \in Quantities
  BY <1>1, <1>2 DEF Quantities
<1>4. ASSUME NEW q \in Nat, NEW n \in 0 .. MaxStock PROVE Capped(q, n) \in Quantities
  BY <1>1, <1>2 DEF Quantities, Capped
<1>5. Quantities \subseteq Nat
  BY <1>2 DEF Quantities
<1> QED BY <1>3, <1>4, <1>5

LEMMA LineTypes ==
  ASSUME Inv, NEW l \in cart
  PROVE  l \in CartRow /\ l.quantity \in Quantities /\ l.quantity \in Nat /\ l.product \in Products
<1>1. l \in CartRow
  BY EntryTypes
<1> QED BY <1>1, QuantityBounds DEF CartRow, Quantities

LEMMA PostItemKeeps ==
  ASSUME Inv, NEW s \in Sessions, NEW u \in Users, NEW p \in Products,
         NEW quantity \in 1 .. MaxQuantity, PostItem(s, u, p, quantity)
  PROVE  Inv'
<1>1. PICK values : values = [user |-> u, product |-> p, quantity |-> quantity,
                             stock |-> products[p].stock, blind |-> FALSE]
  OBVIOUS
<1>2. products[p].stock \in 0 .. MaxStock
  BY ProductWrites
<1>3. values \in ItemJob
  BY <1>1, <1>2, QuantityBounds DEF ItemJob
<1>4. Begin(s, "find line", values) /\ UNCHANGED <<rows, storefront>>
  BY <1>1 DEF PostItem
<1>5. Plain("find line") /\ Fits("find line", values)
  BY <1>3 DEF Plain, Fits, Saving
<1> QED BY <1>4, <1>5, BeginKeeps

LEMMA FindLineKeeps ==
  ASSUME Inv, NEW s \in Sessions, NEW fails \in BOOLEAN, FindLine(s, fails) PROVE Inv'
<1>1. PICK j : j = job[s]
  OBVIOUS
<1>2. /\ j \in ItemJob /\ pc[s] # "idle" /\ RequestsOK /\ UNCHANGED <<rows, storefront>>
      /\ UNCHANGED <<reviews, wishes, cart>>
  BY <1>1, InvTypes DEF FindLine, At, Fits, storefront
<1>3. products' \in [Products -> ProductRow] /\ categories' \in [Categories -> CategoryRow]
  BY <1>2, InvTypes DEF rows
<1>4. ASSUME NEW l \in EntriesOf(cart, j.user, j.product),
             Go(s, "set quantity",
                [line |-> l, quantity |-> Capped(l.quantity + j.quantity, j.stock)])
      PROVE  Inv'
  <2>1. l \in cart
    BY DEF EntriesOf
  <2>2. l \in CartRow /\ l.quantity + j.quantity \in Nat /\ j.stock \in 0 .. MaxStock
    <3>1. j.quantity \in Quantities /\ j.stock \in 0 .. MaxStock
      BY <1>2 DEF ItemJob
    <3>2. l \in CartRow /\ l.quantity \in Nat
      BY <2>1, LineTypes
    <3>3. j.quantity \in Nat
      BY <3>1, QuantityBounds
    <3> QED BY <3>1, <3>2, <3>3
  <2>3. PICK values : values = [line |-> l,
                               quantity |-> Capped(l.quantity + j.quantity, j.stock)]
    OBVIOUS
  <2>4. values \in LineJob
    BY <2>2, <2>3, QuantityBounds DEF LineJob
  <2>5. Plain("set quantity") /\ Fits("set quantity", values)
    BY <2>4 DEF Plain, Fits, Saving
  <2>6. Go(s, "set quantity", values)
    BY <1>4, <2>3
  <2> QED BY <1>2, <1>3, <2>5, <2>6, GoKeeps DEF rows
<1>5. PICK k : k = [j EXCEPT !.blind = fails]
  OBVIOUS
<1>6. k \in ItemJob /\ k.user = j.user /\ k.product = j.product /\ k.blind = fails
  BY <1>2, <1>5 DEF ItemJob
<1>7. CASE (fails \/ EntriesOf(cart, j.user, j.product) = {}) /\ Go(s, "insert line", k)
  <2>1. Acts(s, "insert line", k)
    BY <1>2, <1>7, GoActs
  <2>2. pc'[s] = "insert line" /\ job'[s] = k
    BY <2>1 DEF Acts
  <2>3. Unlisted(s)'
    BY <1>2, <1>6, <1>7, <2>2 DEF Unlisted, Alone, EntriesOf, At
  <2>4. Fits(pc[s], job[s])'
    BY <1>6, <2>2 DEF Fits, Saving
  <2>5. /\ Linkable(s)' /\ Unfound(s)' /\ Unset(s)' /\ Unseen(s)' /\ Unanswered(s)'
        /\ Follows(s)'
    BY <2>2 DEF Linkable, Unset, Unseen, Unfound, Unanswered, Follows, At, Saving
  <2> QED BY <1>2, <2>1, <2>3, <2>4, <2>5, ReadingKeeps DEF Knows
<1> QED BY <1>1, <1>4, <1>5, <1>7 DEF FindLine

LEMMA InsertLineKeeps ==
  ASSUME Inv, NEW s \in Sessions, InsertLine(s) PROVE Inv'
<1>1. PICK j : j = job[s]
  OBVIOUS
<1>2. /\ j \in ItemJob /\ pc[s] # "idle" /\ RequestsOK /\ Finish(s) /\ Alone(s, cart)
      /\ UNCHANGED <<rows, questions, answers, reviews, wishes>>
  BY <1>1, InvTypes DEF InsertLine, At, Fits, Knows, Unlisted
<1>3. together \subseteq together'
  BY <1>2, FinishActs DEF Acts
<1>4. PICK e : e = [user |-> j.user, product |-> j.product, request |-> serving[s],
                    blind |-> j.blind, quantity |-> j.quantity]
  OBVIOUS
<1>5. /\ e \in CartRow /\ e.user = j.user /\ e.product = j.product
      /\ e.request = serving[s] /\ e.blind = j.blind
  BY <1>2, <1>4 DEF CartRow, ItemJob, RequestsOK, Quantities
<1>6. cart' = cart \cup {e}
  BY <1>1, <1>4 DEF InsertLine
<1>7. EntriesGrow(cart, cart', {serving[s]}) /\ OneEntryEach(cart)'
  <2>1. PICK old : old = cart
    OBVIOUS
  <2>2. EntriesGrow(old, old \cup {e}, {serving[s]}) /\ OneEntryEach(old \cup {e})'
    BY <1>1, <1>2, <1>3, <1>5, <2>1, EntryTypes, EntryAdded
  <2> QED BY <1>6, <2>1, <2>2
<1>8. /\ EntriesGrow(wishes, wishes', {serving[s]}) /\ OneEntryEach(wishes)'
      /\ EntriesGrow(reviews, reviews', {serving[s]}) /\ OneEntryEach(reviews)'
  BY <1>2, <1>3, FewerEntries, EntryTypes
<1>9. reviews' \subseteq ReviewRow /\ wishes' \subseteq WishRow /\ cart' \subseteq CartRow
  BY <1>2, <1>5, <1>6, EntryTypes
<1> QED BY <1>2, <1>7, <1>8, <1>9, EntriesKeep

\* A line keeps its owner, product and request whatever its quantity.
LEMMA SetQuantityKeeps ==
  ASSUME Inv, NEW s \in Sessions, SetQuantity(s) PROVE Inv'
<1>1. PICK j : j = job[s]
  OBVIOUS
<1>2. /\ j \in LineJob /\ pc[s] # "idle" /\ RequestsOK /\ Finish(s)
      /\ UNCHANGED <<rows, questions, answers, reviews, wishes>>
  BY <1>1, InvTypes DEF SetQuantity, At, Fits
<1>3. together \subseteq together'
  BY <1>2, FinishActs DEF Acts
<1>4. cart' = {IF k.request = j.line.request THEN [k EXCEPT !.quantity = j.quantity] ELSE k
                 : k \in cart}
  BY <1>1 DEF SetQuantity
<1>5. ASSUME NEW k \in cart
      PROVE  /\ [k EXCEPT !.quantity = j.quantity] \in CartRow
             /\ SameEntry([k EXCEPT !.quantity = j.quantity], k)
  <2>1. k \in CartRow
    BY LineTypes
  <2> QED BY <2>1, <1>2 DEF CartRow, LineJob, Quantities, SameEntry
<1>6. \A l \in cart' : l \in CartRow /\ \E k \in cart : SameEntry(l, k)
  <2> SUFFICES ASSUME NEW l \in cart' PROVE l \in CartRow /\ \E k \in cart : SameEntry(l, k)
    OBVIOUS
  <2>1. PICK k \in cart : l = [k EXCEPT !.quantity = j.quantity] \/ l = k
    BY <1>4
  <2>2. k \in CartRow
    BY LineTypes
  <2> QED BY <1>5, <2>1, <2>2 DEF SameEntry
<1>7. EntriesGrow(cart, cart', {serving[s]})
  BY <1>6 DEF EntriesGrow
<1>8. OneEntryEach(cart)'
  <2>1. \A a, b : Overlapped(a, b) => Overlapped(a, b)'
    BY <1>3 DEF Overlapped
  <2>2. ASSUME NEW a, NEW b, NEW c, NEW d, SameEntry(a, c), SameEntry(b, d), Overlapped(c, d)
        PROVE  Overlapped(a, b)
    BY <2>2 DEF SameEntry, Overlapped
  <2> SUFFICES ASSUME NEW r \in cart', NEW l \in cart',
                      r.user = l.user, r.product = l.product, r.request # l.request,
                      ~r.blind, ~l.blind
               PROVE  Overlapped(r, l)'
    BY DEF OneEntryEach
  <2>3. PICK a \in cart : SameEntry(r, a)
    BY <1>6
  <2>4. PICK b \in cart : SameEntry(l, b)
    BY <1>6
  <2>5. Overlapped(a, b)
    BY <2>3, <2>4, EntryTypes DEF OneEntryEach, SameEntry
  <2> QED BY <2>1, <2>2, <2>3, <2>4, <2>5
<1>9. /\ EntriesGrow(wishes, wishes', {serving[s]}) /\ OneEntryEach(wishes)'
      /\ EntriesGrow(reviews, reviews', {serving[s]}) /\ OneEntryEach(reviews)'
  BY <1>2, <1>3, FewerEntries, EntryTypes
<1>10. reviews' \subseteq ReviewRow /\ wishes' \subseteq WishRow /\ cart' \subseteq CartRow
  BY <1>2, <1>6, EntryTypes
<1> QED BY <1>2, <1>7, <1>8, <1>9, <1>10, EntriesKeep

LEMMA PutItemKeeps ==
  ASSUME Inv, NEW s \in Sessions, NEW l \in cart, NEW quantity \in 1 .. MaxQuantity,
         PutItem(s, l, quantity)
  PROVE  Inv'
<1>1. PICK values : values = [line |-> l, quantity |-> quantity]
  OBVIOUS
<1>2. values \in LineJob
  BY <1>1, LineTypes, QuantityBounds DEF LineJob
<1>3. Begin(s, "read stock", values) /\ UNCHANGED <<rows, storefront>>
  BY <1>1 DEF PutItem
<1>4. Plain("read stock") /\ Fits("read stock", values)
  BY <1>2 DEF Plain, Fits, Saving
<1> QED BY <1>3, <1>4, BeginKeeps

LEMMA ReadStockKeeps ==
  ASSUME Inv, NEW s \in Sessions, ReadStock(s) PROVE Inv'
<1>1. PICK j : j = job[s]
  OBVIOUS
<1>2. j \in LineJob /\ pc[s] # "idle" /\ UNCHANGED <<rows, storefront>>
  BY <1>1, InvTypes DEF ReadStock, At, Fits
<1>3. products' \in [Products -> ProductRow] /\ categories' \in [Categories -> CategoryRow]
  BY <1>2, InvTypes DEF rows
<1>4. PICK p \in Products : p = j.line.product
  BY <1>2 DEF LineJob, CartRow
<1>5. PICK n : n = IF p \in Live(products) THEN Capped(j.quantity, products[p].stock)
                   ELSE j.quantity
  OBVIOUS
<1>6. j.quantity \in Quantities /\ j.quantity \in Nat
  BY <1>2, QuantityBounds DEF LineJob
<1>7. products[p].stock \in 0 .. MaxStock
  BY ProductWrites
<1>8. n \in Quantities
  BY <1>5, <1>6, <1>7, QuantityBounds
<1>9. PICK k : k = [j EXCEPT !.quantity = n]
  OBVIOUS
<1>10. k \in LineJob
  BY <1>2, <1>8, <1>9 DEF LineJob
<1>11. Go(s, "set quantity", k)
  BY <1>1, <1>2, <1>4, <1>5, <1>9 DEF ReadStock, LineJob
<1>12. Plain("set quantity") /\ Fits("set quantity", k)
  BY <1>10 DEF Plain, Fits, Saving
<1> QED BY <1>2, <1>3, <1>11, <1>12, GoKeeps DEF rows

-----------------------------------------------------------------------------
(* Questions and answers. *)

LEMMA QuestionTypes ==
  ASSUME Inv, NEW q \in Questions
  PROVE  /\ questions[q] \in QuestionRow \cup {NoQuestion}
         /\ Asked(q) <=> questions[q].status # "none"
         /\ Asked(q) => questions[q] \in QuestionRow
<1>1. questions[q] \in QuestionRow \cup {NoQuestion}
  BY EntryTypes
<1> QED BY <1>1 DEF Asked, QuestionRow, NoQuestion

\* The tables after a step that changes questions or answers.
LEMMA QuestionTables ==
  ASSUME Inv, together \subseteq together', UNCHANGED <<rows, reviews, wishes, cart>>,
         NEW N, AnswersGrow(N), QuestionsGrow,
         questions' \in [Questions -> QuestionRow \cup {NoQuestion}], answers' \subseteq AnswerRow,
         Statuses', OneAnswerEach'
  PROVE  Grows(N) /\ Tables'
<1>1. UNCHANGED <<products, categories, images, vehicles, links>>
  BY DEF rows
<1>2. Grows(N)
  BY <1>1, SameVehicles, SameImages, SameEntries DEF Grows
<1>3. CatalogRowsOK' /\ StoreRowsOK'
  BY <1>1 DEF Inv, Tables, CatalogRowsOK, StoreRowsOK
<1>4. Singles'
  BY <1>1, SinglesStay DEF Inv, Tables, Singles
<1> QED BY <1>2, <1>3, <1>4 DEF Tables

\* The end of a request that has written questions or answers.
LEMMA QuestionsKeep ==
  ASSUME Inv, NEW s \in Sessions, pc[s] # "idle", Finish(s),
         UNCHANGED <<rows, reviews, wishes, cart>>,
         AnswersGrow({serving[s]}), QuestionsGrow,
         questions' \in [Questions -> QuestionRow \cup {NoQuestion}], answers' \subseteq AnswerRow,
         Statuses', OneAnswerEach'
  PROVE  Inv'
<1>1. Acts(s, "idle", None)
  BY InvTypes, FinishActs
<1>2. together \subseteq together' /\ Knows(s)'
  BY <1>1, IdleKnows DEF Acts
<1>3. serving[s] # 0
  BY InvTypes DEF RequestsOK
<1>4. Grows({serving[s]}) /\ Tables'
  BY <1>2, QuestionTables
<1> QED BY <1>1, <1>2, <1>3, <1>4, StepKeeps

LEMMA PostQuestionKeeps ==
  ASSUME Inv, NEW s \in Sessions, NEW q \in Questions, NEW u \in Users, NEW about,
         PostQuestion(s, q, u, about)
  PROVE  Inv'
<1>1. PICK values : values = [question |-> q, user |-> u]
  OBVIOUS
<1>2. values \in QuestionJob
  BY <1>1 DEF QuestionJob
<1>3. Begin(s, "insert question", values) /\ UNCHANGED <<rows, storefront>>
  BY <1>1 DEF PostQuestion
<1>4. Plain("insert question") /\ Fits("insert question", values)
  BY <1>2 DEF Plain, Fits, Saving
<1> QED BY <1>3, <1>4, BeginKeeps

\* A question that nobody has asked has no answers.
LEMMA InsertQuestionKeeps ==
  ASSUME Inv, NEW s \in Sessions, InsertQuestion(s) PROVE Inv'
<1>1. PICK j : j = job[s]
  OBVIOUS
<1>2. /\ j \in QuestionJob /\ pc[s] # "idle" /\ RequestsOK /\ Finish(s)
      /\ UNCHANGED <<rows, answers, reviews, wishes, cart>>
  BY <1>1, InvTypes DEF InsertQuestion, At, Fits
<1>3. together \subseteq together'
  BY <1>2, FinishActs DEF Acts
<1>4. PICK q \in Questions : q = j.question
  BY <1>2 DEF QuestionJob
<1>5. PICK row : row = [status |-> "open", author |-> j.user, views |-> 0]
  OBVIOUS
<1>6. row \in QuestionRow /\ row.status = "open" /\ row # NoQuestion
  BY <1>2, <1>5 DEF QuestionRow, QuestionJob, NoQuestion
<1>7. \/ questions' = questions
      \/ ~Asked(q) /\ questions' = [questions EXCEPT ![q] = row]
  BY <1>1, <1>4, <1>5 DEF InsertQuestion, Asked
<1>8. questions' \in [Questions -> QuestionRow \cup {NoQuestion}] /\ answers' \subseteq AnswerRow
  BY <1>2, <1>6, <1>7, EntryTypes
<1>9. \A r \in Questions :
        questions'[r] = questions[r] \/ (r = q /\ ~Asked(q) /\ questions'[r] = row)
  BY <1>7, EntryTypes
<1>10. Statuses'
  <2> SUFFICES ASSUME NEW r \in Questions
               PROVE  /\ questions'[r].status \in {"none", "open"} => AnswersTo(r) = {}
                      /\ questions'[r].status = "answered" => AnswersTo(r) # {}
    BY <1>2 DEF Statuses, AnswersTo
  <2>1. CASE questions'[r] = questions[r]
    BY <2>1, EntryTypes DEF Statuses
  <2>2. CASE r = q /\ ~Asked(q) /\ questions'[r] = row
    BY <1>6, <2>2, EntryTypes, QuestionTypes DEF Statuses
  <2> QED BY <1>9, <2>1, <2>2
<1>11. OneAnswerEach'
  BY <1>2, <1>3, SinglesStay, EntryTypes
<1>12. AnswersGrow({serving[s]})
  BY <1>2 DEF AnswersGrow, AnswersTo
<1>13. QuestionsGrow
  BY <1>6, <1>9 DEF QuestionsGrow, Asked
<1> QED BY <1>2, <1>8, <1>10, <1>11, <1>12, <1>13, QuestionsKeep

LEMMA ViewQuestionKeeps ==
  ASSUME Inv, NEW s \in Sessions, NEW q \in Questions, ViewQuestion(s, q) PROVE Inv'
<1>1. PICK values : values = [question |-> q]
  OBVIOUS
<1>2. values \in ViewJob
  BY <1>1 DEF ViewJob
<1>3. Begin(s, "count view", values) /\ UNCHANGED <<rows, storefront>>
  BY <1>1 DEF ViewQuestion
<1>4. Plain("count view") /\ Fits("count view", values)
  BY <1>2 DEF Plain, Fits, Saving
<1> QED BY <1>3, <1>4, BeginKeeps

\* One more view changes nothing anybody has looked for.
LEMMA CountViewKeeps ==
  ASSUME Inv, NEW s \in Sessions, CountView(s) PROVE Inv'
<1>1. PICK j : j = job[s]
  OBVIOUS
<1>2. /\ j \in ViewJob /\ pc[s] # "idle" /\ RequestsOK /\ Finish(s)
      /\ UNCHANGED <<rows, answers, reviews, wishes, cart>>
  BY <1>1, InvTypes DEF CountView, At, Fits
<1>3. together \subseteq together'
  BY <1>2, FinishActs DEF Acts
<1>4. PICK q \in Questions : q = j.question
  BY <1>2 DEF ViewJob
<1>5. PICK row : row = [questions[q] EXCEPT !.views = @ + 1]
  OBVIOUS
<1>6. Asked(q) => row \in QuestionRow /\ row.status = questions[q].status /\ row # NoQuestion
  BY <1>5, QuestionTypes DEF QuestionRow, NoQuestion
<1>7. \/ questions' = questions
      \/ Asked(q) /\ questions' = [questions EXCEPT ![q] = row]
  BY <1>1, <1>4, <1>5, EntryTypes DEF CountView
<1>8. questions' \in [Questions -> QuestionRow \cup {NoQuestion}] /\ answers' \subseteq AnswerRow
  BY <1>2, <1>6, <1>7, EntryTypes
<1>9. \A r \in Questions : /\ questions'[r].status = questions[r].status
                           /\ Asked(r) => questions'[r] # NoQuestion
  BY <1>6, <1>7, EntryTypes DEF Asked
<1>10. Statuses'
  BY <1>2, <1>9, EntryTypes DEF Statuses, AnswersTo
<1>11. OneAnswerEach'
  BY <1>2, <1>3, SinglesStay, EntryTypes
<1>12. AnswersGrow({serving[s]})
  BY <1>2 DEF AnswersGrow, AnswersTo
<1>13. QuestionsGrow
  BY <1>9 DEF QuestionsGrow, Asked
<1> QED BY <1>2, <1>8, <1>10, <1>11, <1>12, <1>13, QuestionsKeep

\* What a request that holds a question row has to know.
LEMMA SavingKnows ==
  ASSUME NEW s \in Sessions, NEW step \in Saving, NEW j \in AnswerJob, NEW q, q = j.question,
         pc'[s] = step, job'[s] = j,
         questions'[q] # NoQuestion,
         j.row.status # "open" => questions'[q].status # "open",
         step = "accept" => AnswersTo(q)' # {},
         step = "answer" => Unanswered(s)'
  PROVE  Knows(s)'
<1>1. Fits(pc[s], job[s])'
  BY DEF Fits, Saving
<1>2. Follows(s)'
  BY DEF Follows, Saving, Asked, AnswersTo, At
<1>3. Unanswered(s)'
  BY DEF Unanswered, At
<1>4. /\ Linkable(s)' /\ Unfound(s)' /\ Unset(s)' /\ Unseen(s)' /\ Unlisted(s)'
  BY DEF Linkable, Unset, Unseen, Unfound, Unlisted, At, Saving
<1> QED BY <1>1, <1>2, <1>3, <1>4 DEF Knows

LEMMA ReadsQuestionKeeps ==
  ASSUME Inv, NEW s \in Sessions, NEW q \in Questions, NEW u \in Users,
         PostAnswer(s, q, u) \/ AcceptAnswer(s, q, u) \/ CloseQuestion(s, q, u)
  PROVE  Inv'
<1>1. PICK step \in {"count answers", "read answer", "close"} : ReadsQuestion(s, q, u, step)
  BY DEF PostAnswer, AcceptAnswer, CloseQuestion
<1>2. PICK j : j = [question |-> q, user |-> u, row |-> questions[q], answer |-> None]
  OBVIOUS
<1>3. Begin(s, step, j) /\ Asked(q) /\ UNCHANGED <<rows, storefront>>
  BY <1>1, <1>2 DEF ReadsQuestion
<1>4. questions[q] \in QuestionRow /\ questions' = questions
  BY <1>3, QuestionTypes DEF storefront
<1>5. j \in AnswerJob /\ j.question = q /\ j.row = questions[q]
  BY <1>2, <1>4 DEF AnswerJob
<1>6. Acts(s, step, j)
  BY <1>1, <1>3, InvTypes, BeginActs
<1>7. Knows(s)'
  <2>1. step \in Saving /\ step # "accept" /\ step # "answer"
    BY <1>1 DEF Saving
  <2>2. pc'[s] = step /\ job'[s] = j
    BY <1>6 DEF Acts
  <2>3. questions'[q] # NoQuestion
    BY <1>3, <1>4 DEF Asked
  <2>4. j.row.status # "open" => questions'[q].status # "open"
    BY <1>4, <1>5
  <2> QED BY <1>5, <2>1, <2>2, <2>3, <2>4, SavingKnows
<1> QED BY <1>3, <1>6, <1>7, ReadingKeeps

\* A request that holds a question row, and what it knows.
LEMMA SavingHas ==
  ASSUME Inv, NEW s \in Sessions, pc[s] \in Saving
  PROVE  /\ job[s] \in AnswerJob /\ pc[s] # "idle" /\ RequestsOK
         /\ job[s].question \in Questions /\ job[s].row \in QuestionRow
         /\ Asked(job[s].question)
         /\ job[s].row.status # "open" => questions[job[s].question].status # "open"
         /\ Unanswered(s) /\ (pc[s] = "accept" => AnswersTo(job[s].question) # {})
<1>1. Knows(s) /\ Fits(pc[s], job[s]) /\ RequestsOK
  BY InvTypes
<1>2. job[s] \in AnswerJob /\ pc[s] # "idle"
  BY <1>1 DEF Fits, Saving
<1>3. Follows(s) /\ Unanswered(s)
  BY <1>1 DEF Knows
<1> QED BY <1>1, <1>2, <1>3 DEF Follows, AnswerJob, At

LEMMA CountAnswersKeeps ==
  ASSUME Inv, NEW s \in Sessions, CountAnswers(s) PROVE Inv'
<1>1. PICK j : j = job[s]
  OBVIOUS
<1>2. PICK q \in Questions : q = j.question
  BY <1>1, SavingHas DEF CountAnswers, At, Saving
<1>3. /\ j \in AnswerJob /\ pc[s] # "idle" /\ RequestsOK /\ Asked(q)
      /\ j.row.status # "open" => questions[q].status # "open"
      /\ UNCHANGED <<rows, storefront>> /\ questions' = questions /\ answers' = answers
  BY <1>1, <1>2, SavingHas DEF CountAnswers, At, Saving, storefront
<1>4. CASE Finish(s)
  BY <1>3, <1>4, FinishKeeps
<1>5. CASE ~Finish(s)
  <2>1. Go(s, "answer", j) /\ \A a \in AnswersTo(q) : a.user # j.user
    BY <1>1, <1>2, <1>5 DEF CountAnswers
  <2>2. Acts(s, "answer", j)
    BY <1>3, <2>1, GoActs
  <2>3. pc'[s] = "answer" /\ job'[s] = j
    BY <2>2 DEF Acts
  <2>4. Unanswered(s)'
    BY <1>2, <1>3, <2>1, <2>3 DEF Unanswered, AnswersTo
  <2>5. "answer" \in Saving /\ "answer" # "accept"
    BY DEF Saving
  <2>6. Knows(s)'
    BY <1>2, <1>3, <2>3, <2>4, <2>5, SavingKnows DEF Asked
  <2> QED BY <1>3, <2>2, <2>6, ReadingKeeps
<1> QED BY <1>4, <1>5

LEMMA ReadAnswerKeeps ==
  ASSUME Inv, NEW s \in Sessions, ReadAnswer(s) PROVE Inv'
<1>1. PICK j : j = job[s]
  OBVIOUS
<1>2. PICK q \in Questions : q = j.question
  BY <1>1, SavingHas DEF ReadAnswer, At, Saving
<1>3. /\ j \in AnswerJob /\ pc[s] # "idle" /\ RequestsOK /\ Asked(q)
      /\ j.row.status # "open" => questions[q].status # "open"
      /\ UNCHANGED <<rows, storefront>> /\ questions' = questions /\ answers' = answers
  BY <1>1, <1>2, SavingHas DEF ReadAnswer, At, Saving, storefront
<1>4. CASE Finish(s)
  BY <1>3, <1>4, FinishKeeps
<1>5. ASSUME NEW a \in AnswersTo(q), Go(s, "accept", [j EXCEPT !.answer = [request |-> a.request]])
      PROVE  Inv'
  <2>1. a \in answers /\ a.request \in Nat
    BY EntryTypes DEF AnswersTo, AnswerRow
  <2>2. PICK k : k = [j EXCEPT !.answer = [request |-> a.request]]
    OBVIOUS
  <2>3. k \in AnswerJob /\ k.question = q /\ k.row = j.row
    BY <1>2, <1>3, <2>1, <2>2 DEF AnswerJob
  <2>4. Acts(s, "accept", k)
    BY <1>3, <1>5, <2>2, GoActs
  <2>5. pc'[s] = "accept" /\ job'[s] = k
    BY <2>4 DEF Acts
  <2>6. AnswersTo(q)' # {}
    BY <1>3, <1>5 DEF AnswersTo
  <2>7. "accept" \in Saving /\ "accept" # "answer"
    BY DEF Saving
  <2>8. Knows(s)'
    BY <1>3, <2>3, <2>5, <2>6, <2>7, SavingKnows DEF Asked
  <2> QED BY <1>3, <2>4, <2>8, ReadingKeeps
<1> QED BY <1>1, <1>2, <1>4, <1>5 DEF ReadAnswer

LEMMA CommitAnswerKeeps ==
  ASSUME Inv, NEW s \in Sessions, CommitAnswer(s) PROVE Inv'
<1>1. PICK j : j = job[s]
  OBVIOUS
<1>2. PICK q \in Questions : q = j.question
  BY <1>1, SavingHas DEF CommitAnswer, At, Saving
<1>3. /\ j \in AnswerJob /\ pc[s] # "idle" /\ RequestsOK /\ Asked(q) /\ j.row \in QuestionRow
      /\ j.row.status # "open" => questions[q].status # "open"
      /\ Unanswered(s) /\ Finish(s) /\ UNCHANGED <<rows, reviews, wishes, cart>>
  BY <1>1, <1>2, SavingHas DEF CommitAnswer, At, Saving
<1>4. together \subseteq together'
  BY <1>3, FinishActs DEF Acts
<1>5. PICK b \in BOOLEAN : b = FALSE
  OBVIOUS
<1>6. PICK new : new = [question |-> q, user |-> j.user, accepted |-> b, request |-> serving[s]]
  OBVIOUS
<1>7. /\ new \in AnswerRow /\ new.question = q /\ new.user = j.user
      /\ new.request = serving[s]
  BY <1>3, <1>6 DEF AnswerRow, AnswerJob, RequestsOK
<1>8. answers' = answers \cup {new}
  BY <1>1, <1>2, <1>5, <1>6 DEF CommitAnswer
<1>9. PICK row : row = [j.row EXCEPT !.status = "answered"]
  OBVIOUS
<1>10. row \in QuestionRow /\ row.status = "answered" /\ row # NoQuestion
  BY <1>3, <1>9 DEF QuestionRow, NoQuestion
<1>11. questions' = IF j.row.status = "open" THEN [questions EXCEPT ![q] = row] ELSE questions
  BY <1>1, <1>2, <1>9 DEF CommitAnswer, SavedAs
<1>12. questions' \in [Questions -> QuestionRow \cup {NoQuestion}] /\ answers' \subseteq AnswerRow
  BY <1>7, <1>8, <1>10, <1>11, EntryTypes
<1>13. \A r \in Questions : questions'[r] = questions[r] \/ (r = q /\ questions'[r] = row)
  BY <1>11, EntryTypes
<1>14. questions'[q].status \notin {"none", "open"}
  BY <1>3, <1>10, <1>11, EntryTypes, QuestionTypes
<1>15. Statuses'
  <2> SUFFICES ASSUME NEW r \in Questions
               PROVE  /\ questions'[r].status \in {"none", "open"} => AnswersTo(r)' = {}
                      /\ questions'[r].status = "answered" => AnswersTo(r)' # {}
    BY DEF Statuses
  <2>1. CASE r = q
    BY <1>7, <1>8, <1>14, <2>1 DEF AnswersTo
  <2>2. CASE r # q
    <3>1. AnswersTo(r)' = AnswersTo(r)
      BY <1>7, <1>8, <2>2 DEF AnswersTo
    <3> QED BY <1>13, <2>2, <3>1, EntryTypes DEF Statuses
  <2> QED BY <2>1, <2>2
<1>16. OneAnswerEach'
  <2>1. \A a \in answers : a.question = q /\ a.user = j.user =>
          Overlapped(a, new)' /\ Overlapped(new, a)'
    <3> SUFFICES ASSUME NEW a \in answers, a.question = q, a.user = j.user
                 PROVE  Overlapped(a, new)' /\ Overlapped(new, a)'
      OBVIOUS
    <3>1. {a.request, new.request} \in together'
      BY <1>1, <1>2, <1>3, <1>4, <1>7 DEF Unanswered, Met, CommitAnswer
    <3>2. {new.request, a.request} = {a.request, new.request}
      OBVIOUS
    <3> QED BY <3>1, <3>2 DEF Overlapped
  <2>2. \A a, c : Overlapped(a, c) => Overlapped(a, c)'
    BY <1>4 DEF Overlapped
  <2> QED BY <1>7, <1>8, <2>1, <2>2, EntryTypes DEF OneAnswerEach
<1>17. AnswersGrow({serving[s]})
  BY <1>7, <1>8 DEF AnswersGrow, AnswersTo
<1>18. QuestionsGrow
  BY <1>10, <1>13 DEF QuestionsGrow, Asked
<1> QED BY <1>3, <1>12, <1>15, <1>16, <1>17, <1>18, QuestionsKeep

LEMMA CommitAcceptKeeps ==
  ASSUME Inv, NEW s \in Sessions, CommitAccept(s) PROVE Inv'
<1>1. PICK j : j = job[s]
  OBVIOUS
<1>2. PICK q \in Questions : q = j.question
  BY <1>1, SavingHas DEF CommitAccept, At, Saving
<1>3. /\ j \in AnswerJob /\ pc[s] # "idle" /\ RequestsOK /\ Asked(q) /\ j.row \in QuestionRow
      /\ AnswersTo(q) # {} /\ Finish(s) /\ UNCHANGED <<rows, reviews, wishes, cart>>
  BY <1>1, <1>2, SavingHas DEF CommitAccept, At, Saving
<1>4. together \subseteq together'
  BY <1>3, FinishActs DEF Acts
<1>5. PICK row : row = [j.row EXCEPT !.status = "answered"]
  OBVIOUS
<1>6. row \in QuestionRow /\ row.status = "answered" /\ row # NoQuestion
  BY <1>3, <1>5 DEF QuestionRow, NoQuestion
<1>7. questions' = [questions EXCEPT ![q] = row]
  BY <1>1, <1>2, <1>5 DEF CommitAccept, SavedAs
<1>8. \A r \in Questions : (r # q /\ questions'[r] = questions[r]) \/ (r = q /\ questions'[r] = row)
  BY <1>7, EntryTypes
<1>9. PICK chosen : chosen = j.answer.request
  OBVIOUS
<1>10. answers' = {IF a.question # q THEN a ELSE [a EXCEPT !.accepted = a.request = chosen]
                     : a \in answers}
  BY <1>1, <1>2, <1>9 DEF CommitAccept
<1>11. PICK saved : saved = [a \in answers |->
         IF a.question # q THEN a ELSE [a EXCEPT !.accepted = a.request = chosen]]
  OBVIOUS
<1>12. answers' = {saved[a] : a \in answers}
  BY <1>10, <1>11
<1>13. \A a \in answers :
         /\ saved[a] \in AnswerRow /\ saved[a].question = a.question
         /\ saved[a].user = a.user /\ saved[a].request = a.request
  <2> SUFFICES ASSUME NEW a \in answers
               PROVE  /\ saved[a] \in AnswerRow /\ saved[a].question = a.question
                      /\ saved[a].user = a.user /\ saved[a].request = a.request
    OBVIOUS
  <2>1. a \in AnswerRow
    BY EntryTypes
  <2>2. PICK b \in BOOLEAN : b = (a.request = chosen)
    OBVIOUS
  <2>3. saved[a] = IF a.question # q THEN a ELSE [a EXCEPT !.accepted = b]
    BY <1>11, <2>2
  <2> QED BY <2>1, <2>3 DEF AnswerRow
<1>14. questions' \in [Questions -> QuestionRow \cup {NoQuestion}] /\ answers' \subseteq AnswerRow
  BY <1>6, <1>7, <1>12, <1>13, EntryTypes
<1>15. \A r \in Questions : AnswersTo(r)' = {} <=> AnswersTo(r) = {}
  BY <1>12, <1>13 DEF AnswersTo
<1>16. Statuses'
  <2> SUFFICES ASSUME NEW r \in Questions
               PROVE  /\ questions'[r].status \in {"none", "open"} => AnswersTo(r)' = {}
                      /\ questions'[r].status = "answered" => AnswersTo(r)' # {}
    BY DEF Statuses
  <2> QED BY <1>3, <1>6, <1>8, <1>15, EntryTypes DEF Statuses
<1>17. OneAnswerEach'
  <2>1. \A a, b : Overlapped(a, b) => {a.request, b.request} \in together'
    BY <1>4 DEF Overlapped
  <2> SUFFICES ASSUME NEW a \in answers', NEW b \in answers',
                      a.question = b.question, a.user = b.user, a # b
               PROVE  {a.request, b.request} \in together'
    BY DEF OneAnswerEach, Overlapped
  <2>2. PICK c \in answers : a = saved[c]
    BY <1>12
  <2>3. PICK d \in answers : b = saved[d]
    BY <1>12
  <2>4. Overlapped(c, d)
    BY <1>13, <2>2, <2>3, EntryTypes DEF OneAnswerEach
  <2> QED BY <1>13, <2>1, <2>2, <2>3, <2>4
<1>18. AnswersGrow({serving[s]})
  BY <1>12, <1>13, <1>15 DEF AnswersGrow
<1>19. QuestionsGrow
  BY <1>6, <1>8 DEF QuestionsGrow, Asked
<1> QED BY <1>3, <1>14, <1>16, <1>17, <1>18, <1>19, QuestionsKeep

LEMMA CommitCloseKeeps ==
  ASSUME Inv, NEW s \in Sessions, CommitClose(s) PROVE Inv'
<1>1. PICK j : j = job[s]
  OBVIOUS
<1>2. PICK q \in Questions : q = j.question
  BY <1>1, SavingHas DEF CommitClose, At, Saving
<1>3. /\ j \in AnswerJob /\ pc[s] # "idle" /\ RequestsOK /\ j.row \in QuestionRow
      /\ Finish(s) /\ UNCHANGED <<rows, answers, reviews, wishes, cart>>
  BY <1>1, <1>2, SavingHas DEF CommitClose, At, Saving
<1>4. together \subseteq together'
  BY <1>3, FinishActs DEF Acts
<1>5. PICK row : row = [j.row EXCEPT !.status = "closed"]
  OBVIOUS
<1>6. row \in QuestionRow /\ row.status = "closed" /\ row # NoQuestion
  BY <1>3, <1>5 DEF QuestionRow, NoQuestion
<1>7. questions' = [questions EXCEPT ![q] = row]
  BY <1>1, <1>2, <1>5 DEF CommitClose, SavedAs
<1>8. \A r \in Questions : questions'[r] = questions[r] \/ questions'[r] = row
  BY <1>7, EntryTypes
<1>9. questions' \in [Questions -> QuestionRow \cup {NoQuestion}] /\ answers' \subseteq AnswerRow
  BY <1>3, <1>6, <1>7, EntryTypes
<1>10. Statuses'
  <2> SUFFICES ASSUME NEW r \in Questions
               PROVE  /\ questions'[r].status \in {"none", "open"} => AnswersTo(r)' = {}
                      /\ questions'[r].status = "answered" => AnswersTo(r)' # {}
    BY DEF Statuses
  <2>1. AnswersTo(r)' = AnswersTo(r)
    BY <1>3 DEF AnswersTo
  <2> QED BY <1>6, <1>8, <2>1, EntryTypes DEF Statuses
<1>11. OneAnswerEach'
  BY <1>3, <1>4, SinglesStay, EntryTypes
<1>12. AnswersGrow({serving[s]})
  BY <1>3 DEF AnswersGrow, AnswersTo
<1>13. QuestionsGrow
  BY <1>6, <1>8 DEF QuestionsGrow, Asked
<1> QED BY <1>3, <1>9, <1>10, <1>11, <1>12, <1>13, QuestionsKeep

-----------------------------------------------------------------------------
(* The theorems. *)

LEMMA CustomerRequestKeeps ==
  ASSUME Inv, NEW s \in Sessions, NEW u \in Users, CustomerRequest(s, u) PROVE Inv'
<1>1. ASSUME NEW p \in Products, PostReview(s, u, p) \/ PostWish(s, u, p) \/ RemoveWish(s, u, p)
      PROVE  Inv'
  BY <1>1, PostEntryKeeps, RemovedEntriesKeep
<1>2. ASSUME NEW p \in Products, NEW quantity \in 1 .. MaxQuantity, PostItem(s, u, p, quantity)
      PROVE  Inv'
  BY <1>2, PostItemKeeps
<1>3. ASSUME NEW l \in cart, NEW quantity \in 1 .. MaxQuantity, PutItem(s, l, quantity)
      PROVE  Inv'
  BY <1>3, PutItemKeeps
<1>4. ASSUME NEW gone, RemoveLines(s, u, gone) PROVE Inv'
  BY <1>4, RemovedEntriesKeep
<1>5. ASSUME NEW q \in Questions, NEW about, PostQuestion(s, q, u, about) PROVE Inv'
  BY <1>5, PostQuestionKeeps
<1>6. ASSUME NEW q \in Questions,
             PostAnswer(s, q, u) \/ AcceptAnswer(s, q, u) \/ CloseQuestion(s, q, u)
      PROVE  Inv'
  BY <1>6, ReadsQuestionKeeps
<1> QED BY <1>1, <1>2, <1>3, <1>4, <1>5, <1>6 DEF CustomerRequest

LEMMA CustomerStepKeeps ==
  ASSUME Inv, NEW s \in Sessions, CustomerStep(s) PROVE Inv'
<1>1. ASSUME NEW fails \in BOOLEAN,
             \/ CheckEntry(s, "has reviewed", reviews, "insert review", fails)
             \/ CheckEntry(s, "has wished", wishes, "insert wish", fails)
             \/ FindLine(s, fails)
      PROVE  Inv'
  BY <1>1, CheckEntryKeeps, FindLineKeeps
<1>2. ASSUME NEW verified \in BOOLEAN, InsertReview(s, verified) PROVE Inv'
  BY <1>2, InsertReviewKeeps
<1>3. CASE InsertWish(s) \/ InsertLine(s) \/ SetQuantity(s) \/ ReadStock(s)
  BY <1>3, InsertWishKeeps, InsertLineKeeps, SetQuantityKeeps, ReadStockKeeps
<1>4. CASE InsertQuestion(s) \/ CountView(s) \/ CountAnswers(s) \/ CommitAnswer(s)
  BY <1>4, InsertQuestionKeeps, CountViewKeeps, CountAnswersKeeps, CommitAnswerKeeps
<1>5. CASE ReadAnswer(s) \/ CommitAccept(s) \/ CommitClose(s)
  BY <1>5, ReadAnswerKeeps, CommitAcceptKeeps, CommitCloseKeeps
<1> QED BY <1>1, <1>2, <1>3, <1>4, <1>5 DEF CustomerStep

LEMMA InitInv == Init => Inv
<1> SUFFICES ASSUME NEW stocked \in SUBSET Products, NEW listed \in SUBSET Categories,
                    CatalogInit(stocked, listed),
                    questions = [q \in Questions |-> NoQuestion],
                    answers = {}, reviews = {}, wishes = {}, cart = {}
             PROVE  Inv
  BY DEF Init
<1>1. /\ pc = [s \in Sessions |-> "idle"] /\ job = [s \in Sessions |-> None]
      /\ serving = [s \in Sessions |-> 0] /\ requests = 0 /\ together = {} /\ crashes = 0
      /\ images = {} /\ vehicles = {} /\ links = {}
  BY DEF CatalogInit
<1>2. RequestsOK
  BY <1>1, CatalogConstants DEF RequestsOK
<1>3. products \in [Products -> ProductRow]
  <2>1. \A p \in Products :
          [state |-> IF p \in stocked THEN "live" ELSE "none",
           stock |-> IF p \in stocked THEN MaxStock ELSE 0, categories |-> {}] \in ProductRow
    BY CatalogConstants DEF ProductRow, State
  <2> QED BY <2>1 DEF CatalogInit
<1>4. categories \in [Categories -> CategoryRow]
  <2>1. \A c \in Categories :
          [state |-> IF c \in listed THEN "live" ELSE "none", parent |-> None, level |-> 0]
            \in CategoryRow
    BY DEF CategoryRow, State
  <2> QED BY <2>1 DEF CatalogInit
<1>5. CatalogRowsOK /\ StoreRowsOK
  BY <1>1, <1>3, <1>4 DEF CatalogRowsOK, StoreRowsOK
<1>6. Statuses
  BY DEF Statuses, AnswersTo, NoQuestion
<1>7. Singles
  BY <1>1 DEF Singles, VehiclesAreFound, OnePrimary, OneEntryEach, OneAnswerEach
<1>8. Tables
  BY <1>5, <1>6, <1>7 DEF Tables
<1>9. ASSUME NEW s \in Sessions PROVE Knows(s)
  <2>1. pc[s] = "idle"
    BY <1>1
  <2>2. Fits(pc[s], job[s])
    BY <2>1 DEF Fits, Saving
  <2>3. /\ Linkable(s) /\ Unfound(s) /\ Unset(s) /\ Unseen(s)
        /\ Unlisted(s) /\ Unanswered(s) /\ Follows(s)
    BY <2>1 DEF Linkable, Unfound, Unset, Unseen, Unlisted, Unanswered, Follows, At, Saving
  <2> QED BY <2>2, <2>3 DEF Knows
<1> QED BY <1>2, <1>8, <1>9 DEF Inv

LEMMA StutterKeeps == ASSUME Inv, UNCHANGED vars PROVE Inv'
<1>1. /\ UNCHANGED <<products, categories, images, vehicles, links>>
      /\ UNCHANGED <<pc, job, serving, requests, together, crashes>>
      /\ UNCHANGED <<questions, answers, reviews, wishes, cart>>
  BY DEF vars, rows, sessions, storefront
<1>2. RequestsOK'
  BY <1>1 DEF Inv, RequestsOK
<1>3. Tables'
  <2>1. CatalogRowsOK' /\ StoreRowsOK'
    BY <1>1 DEF Inv, Tables, CatalogRowsOK, StoreRowsOK
  <2>2. Statuses'
    BY <1>1 DEF Inv, Tables, Statuses, AnswersTo
  <2>3. Singles'
    BY <1>1, SinglesStay DEF Inv, Tables, Singles
  <2> QED BY <2>1, <2>2, <2>3 DEF Tables
<1>4. Grows({})
  BY <1>1, SameVehicles, SameImages, SameAnswers, SameEntries DEF Grows
<1>5. ASSUME NEW t \in Sessions PROVE Knows(t)'
  <2>1. Knows(t)
    BY DEF Inv
  <2> QED BY <1>1, <1>4, <2>1, KnowsStill
<1> QED BY <1>2, <1>3, <1>5 DEF Inv

LEMMA NextKeeps == ASSUME Inv, [Next]_vars PROVE Inv'
<1>1. CASE CatalogNext /\ UNCHANGED storefront
  BY <1>1, CatalogKeeps
<1>2. ASSUME NEW s \in Sessions, NEW u \in Users, CustomerRequest(s, u) PROVE Inv'
  BY <1>2, CustomerRequestKeeps
<1>3. ASSUME NEW s \in Sessions, NEW q \in Questions, ViewQuestion(s, q) PROVE Inv'
  BY <1>3, ViewQuestionKeeps
<1>4. ASSUME NEW s \in Sessions, CustomerStep(s) PROVE Inv'
  BY <1>4, CustomerStepKeeps
<1>5. CASE UNCHANGED vars
  BY <1>5, StutterKeeps
<1> QED BY <1>1, <1>2, <1>3, <1>4, <1>5 DEF Next

\* In every state a request holds what its next statement needs, and what it found
\* missing has since been added by overlapping requests at most (all the handlers of
\* the catalogue, the cart, wishes, reviews and questions).
THEOREM InvHolds == Spec => []Inv
  BY InitInv, NextKeeps, PTL DEF Spec

\* The tables hold rows of their declared types: whatever deletions, Saves of old rows
\* and crashes come in between, no link names a vehicle that is not in the catalogue.
THEOREM TypesHold == Spec => []TypeOK
  BY InvHolds, InvGives, PTL

\* An open question has no answer and an answered one has (question_service.go),
\* although PostAnswer, AcceptAnswer and Close all save a row they read before.
THEOREM AnswersAgreeWithStatus == Spec => []AnswersMatchStatus
  BY InvHolds, InvGives, PTL

\* Two entries of one vehicle, primary images, reviews, wishes or cart lines of one
\* user for one product, or answers of one mechanic: the requests that made them
\* overlapped, or the query of one failed and was taken for "none", however many
\* sessions there are and however they are interleaved or cut off.
THEOREM DuplicatesOverlapped == Spec => []NoLoneDuplicates
  BY InvHolds, InvGives, PTL
=============================================================================
